-------------------------------- MODULE Span ---------------------------------
(***************************************************************************)
(* One span of liballogsmat from READY onwards: the state machine that     *)
(* reads the modem's lines (module_receive and what it calls), the calls   *)
(* of the channel driver (dial, answer, hangup, send a text) and the three *)
(* timers they share the slot table with: gsm_sms_sending_timeout,         *)
(* gsm_hangup_timeout and gsm_dial_retry.  Everything runs under the       *)
(* span's lock, so a line, a call and a timer callback are one step each.  *)
(* A fourth timer, gsm_start_timeout, is armed by noise at the start-up;   *)
(* the number of its slot stays in retranstimer when it has fired, and the *)
(* end of every call deletes what lies there by then.                      *)
(*                                                                         *)
(* The driver's handling of the events HANGUP, RING, DCHAN_UP, DCHAN_DOWN  *)
(* and SMS_SEND_OK/FAILED follows in the same step: the d-channel thread   *)
(* keeps the lock.  The initialisation sequence is two states: INIT stands *)
(* for the states numbered below READY in STATE_DEFINE, INIT_HI for the    *)
(* ones declared after it.  Call waiting, USSD, operator queries, SAFE_AT, *)
(* the phone check, resets of idle channels and the other timers of the    *)
(* initialisation are not part of this module.                             *)
(***************************************************************************)
EXTENDS Integers

CONSTANTS
    Lines,          \* the lines the modem may send
    Reloads,        \* somebody restarts a modem that is up
    Queued,         \* texts may have waited in the queue
    Anonymous,      \* texts may come without an id
    Retrans,        \* noise at the start-up may arm gsm_start_timeout
    MaxSched,       \* bound: timer slots (9999 in the code)
    MaxCref,        \* bound: outgoing calls
    MaxTexts,       \* bound: texts handed to the modem
    SmsRetries,     \* 3: retries of a text
    AnswerRetries,  \* 3: tries of ATA
    CmeLimit,       \* 3: "+CME ERROR: 515" tolerated before a reload
    DialLimit       \* 85: rounds a deferred call waits before it should fail

Released == {"NO_CARRIER", "PSCSC_20", "NO_DIALTONE", "BUSY"}
Reboots == {"WIND_3", "KSUP_0"}     \* WIND_3: also WIND 0 and 1, SIM, CME 13
Errors == {"ERROR", "CMS_512", "CME_515"}
Progress == {"PSCSC_0", "PSCSC_3", "PSCSC_4", "PSCSC_5"}
Network == {"WIND_5", "WIND_6", "CREG_0", "CREG_1"}
Quality == {"CSQ_0", "CSQ_1"}
AllLines == Released \cup Reboots \cup Errors \cup Progress \cup Network
            \cup Quality \cup {"OK", "PROMPT", "BLANK", "RING", "CLIP", "JUNK"}

\* expectlist_compare: lines that contain no entry of expectlist.conf.
Unlisted == Progress \cup {"PSCSC_20", "BUSY", "PROMPT", "BLANK", "JUNK"}

ASSUME SpanAssumption ==
    /\ Lines \subseteq AllLines
    /\ Reloads \in BOOLEAN
    /\ Queued \in BOOLEAN
    /\ Anonymous \in BOOLEAN
    /\ Retrans \in BOOLEAN
    /\ MaxSched \in Nat \ {0}
    /\ MaxCref \in Nat
    /\ MaxTexts \in Nat
    /\ SmsRetries \in Nat
    /\ AnswerRetries \in Nat \ {0}
    /\ CmeLimit \in Nat
    /\ DialLimit \in Nat \ {0}

VARIABLES
    alive,          \* the process has not crashed
    state,          \* gsm->state
    lastSent,       \* gsm->at_last_sent
    registered,     \* gsm->creg_state is home or roaming
    cme,            \* gsm->CME_515_count, up to CmeLimit + 1
    sched,          \* gsm->gsm_sched
    smsSched,       \* gsm->smsTimeoutSched, a slot or 0
    hangupSched,    \* gsm->hangupTimeoutSched, a slot or 0
    retrans,        \* gsm->retranstimer, a slot or 0
    cref,           \* gsm->cref
    calls,          \* the call records of gsm->callpool by reference
    gsmcall,        \* pvt->gsmcall: a reference, Stale or NoCref
    up,             \* pvt->inalarm is 0
    answerRetry,    \* gsm->answer_retry
    dialInitiated,  \* gsm->dial_initiated
    dialHangup,     \* gsm->dial_initiated_hangup
    dialRetry,      \* gsm->dial_retry, up to DialLimit
    text,           \* number of the text last handed over, 0 before the first
    info,           \* gsm->sms_info is not NULL
    inSpan,         \* gsm->sms_info last pointed to gsm->last_sms
    retry,          \* gsm->sms_retry
    oldRetry,       \* gsm->sms_old_retry
    stuck,          \* gsm->sms_stuck
    sends,          \* how often the text was transmitted, up to SmsRetries + 2
    anonymous,      \* texts handed over without an id
    good,           \* texts filed under smsout_success
    bad             \* texts filed under smsout_fail

modemVars == <<state, lastSent, registered, cme>>
timerVars == <<sched, smsSched, hangupSched, retrans>>
dialVars == <<dialInitiated, dialHangup>>
callVars == <<cref, calls, gsmcall, up, answerRetry>>
smsVars == <<text, inSpan, info, retry, oldRetry, stuck, sends,
            anonymous, good, bad>>
vars == <<alive, modemVars, timerVars, callVars, dialVars, dialRetry, smsVars>>

InitStates == {"INIT", "INIT_HI"}
SmsStates == {"SMS_SENDING", "SMS_SENT"}
CallStates == {"CALL_INIT", "CALL_PROCEEDING", "CALL_PROGRESS", "PRE_ANSWER",
               "CALL_ACTIVE", "RING", "RINGING", "HANGUP_REQ"}
States == InitStates \cup SmsStates \cup CallStates \cup {"READY"}
Commands == {"WIND", "ATD", "ATH", "ATA", "CMGF", "CSCS", "CMGS", "ELSE"}

Slots == 1..MaxSched
Crefs == 0..MaxCref
NoCref == -1
Stale == -2         \* a record the library has hung up, freed or not
Texts == 1..MaxTexts

Timer(fn, c) == [fn |-> fn, call |-> c]
Free == Timer("none", NoCref)

NoCall == [here |-> FALSE, live |-> FALSE, hung |-> FALSE, new |-> FALSE,
           rung |-> FALSE, unanswered |-> FALSE]
NewCall == [NoCall EXCEPT !.here = TRUE, !.new = TRUE]

Init ==
    /\ alive = TRUE
    /\ state = "INIT"
    /\ lastSent = "WIND"
    /\ registered = FALSE
    /\ cme = 0
    /\ sched = [s \in Slots |-> Free]
    /\ smsSched = 0
    /\ hangupSched = 0
    /\ retrans = 0
    /\ cref = 0
    /\ calls = [c \in Crefs |-> NoCall]
    /\ gsmcall = NoCref
    /\ up = FALSE
    /\ answerRetry = 0
    /\ dialInitiated = FALSE
    /\ dialHangup = FALSE
    /\ dialRetry = 0
    /\ text = 0
    /\ info = FALSE
    /\ inSpan = FALSE
    /\ retry = 0
    /\ oldRetry = 0
    /\ stuck = FALSE
    /\ sends = 0
    /\ anonymous = {}
    /\ good = {}
    /\ bad = {}
------------------------------------------------------------------------------
(* What one received line l tells module_check_wind and the 515 counter.   *)
NoLine == ""            \* no line is read
Reg(l) == IF l = "CREG_0" THEN FALSE ELSE IF l = "CREG_1" THEN TRUE ELSE registered
Cme(l) == IF l = "CME_515" /\ cme <= CmeLimit THEN cme + 1 ELSE cme

ModemStays == UNCHANGED modemVars

\* gsm->state is assigned and nothing is sent.
Assign(s, l) ==
    /\ state' = s
    /\ registered' = Reg(l)
    /\ cme' = Cme(l)
    /\ UNCHANGED lastSent

\* gsm_switch_state: every return to READY is the moment to reload a modem
\* that has answered 515 too often.
Switch(s, cmd, l) ==
    IF s = "READY" /\ Cme(l) > CmeLimit
    THEN /\ state' = "INIT"
         /\ lastSent' = "WIND"
         /\ registered' = FALSE
         /\ cme' = 0
    ELSE /\ state' = s
         /\ lastSent' = (IF cmd = "" THEN lastSent ELSE cmd)
         /\ registered' = Reg(l)
         /\ cme' = Cme(l)

\* gsm_schedule_event takes the lowest free slot of the table sc.
LowestFree(sc, s) == sc[s] = Free /\ \A r \in Slots : r < s => sc[r] # Free

\* gsm_schedule_del; slot 0 exists and is never used.
Deleted(sc, id) == [s \in Slots |-> IF s = id THEN Free ELSE sc[s]]

\* gsm_call_disconnect and gsm_call_destroy delete the slot of retranstimer,
\* which nobody zeroes when its timer fires: any other timer may be there.
Swept(sc) == Deleted(sc, retrans)

\* The hangup timer is armed and the slot gone deleted after it, 0 for none.
ArmHangup(sc, gone) ==
    \E s \in Slots :
        /\ LowestFree(sc, s)
        /\ sched' = Deleted([sc EXCEPT ![s] = Timer("hangup", NoCref)], gone)
        /\ hangupSched' = s

ArmSms(sc) ==
    \E s \in Slots : /\ LowestFree(sc, s)
                     /\ sched' = [sc EXCEPT ![s] = Timer("sms", NoCref)]
                     /\ smsSched' = s

ArmDial(sc, c) ==
    \E s \in Slots : /\ LowestFree(sc, s)
                     /\ sched' = [sc EXCEPT ![s] = Timer("dial", c)]

\* allogsm_getcall: the pool with a record for the current reference.
Here == IF calls[cref].here THEN calls ELSE [calls EXCEPT ![cref] = NewCall]

\* gsm_call_destroy frees the record; a timer that was given it keeps the
\* pointer, and the slot of retranstimer is deleted.
Destroyed(cs, c) == [cs EXCEPT ![c] = NoCall]
Dangling(sc, c) ==
    [s \in Slots |-> IF sc[s].call = c THEN Timer(sc[s].fn, NoCref) ELSE sc[s]]
Orphaned(sc, c) == Swept(Dangling(sc, c))

\* ATH is sent.
HangsUp(l) == Switch("HANGUP_REQ", "ATH", l)

\* module_hangup outside call waiting, from the table sc; Go becomes of the
\* modem, and the slot gone is deleted afterwards.
ModuleHangupOnce(sc, gone, Go) ==                            \* mutant
    /\ sched' = Deleted(sc, gone)
    /\ UNCHANGED hangupSched
    /\ Go
    /\ dialInitiated' = FALSE
    /\ dialHangup' = FALSE
ModuleHangup(sc, gone, Go) ==
    /\ ArmHangup(sc, gone)
    /\ Go
    /\ dialInitiated' = FALSE
    /\ dialHangup' = FALSE

\* allogsm_hangup of record c of the pool cs, from the slot table sc.  Go is
\* what becomes of the modem with ATH, Stay where nothing is sent.  The record
\* of a live call is freed after module_hangup, whose timer may be deleted with
\* it.  A record whose ourcallstate is NULL is freed first and ourcallstate read
\* again: it is still NULL, or the memory holds another thread's data by now and
\* the hangup of a live call follows.
AllogsmHangup(sc, cs, c, Go, Stay) ==
    \/ /\ cs[c].hung
       /\ Stay
       /\ calls' = cs
       /\ sched' = sc
       /\ UNCHANGED <<hangupSched, dialVars>>
    \/ /\ ~cs[c].hung /\ cs[c].live /\ dialInitiated
       /\ Stay
       /\ calls' = [cs EXCEPT ![c].hung = TRUE]
       /\ dialHangup' = TRUE
       /\ sched' = Swept(sc)
       /\ UNCHANGED <<hangupSched, dialInitiated>>
    \/ /\ ~cs[c].hung /\ ~dialInitiated
       /\ calls' = Destroyed(cs, c)
       /\ ModuleHangup(Orphaned(sc, c), IF cs[c].live THEN retrans ELSE 0, Go)
    \/ /\ ~cs[c].hung /\ ~cs[c].live
       /\ Stay
       /\ calls' = Destroyed(cs, c)
       /\ dialHangup' \in {dialHangup, dialHangup \/ dialInitiated}
       /\ sched' = Orphaned(sc, c)
       /\ UNCHANGED <<hangupSched, dialInitiated>>

\* EVENT_HANGUP in the driver, cs and sc being the pool and the slot table the
\* library leaves.  A stale pointer is hung up again: the freed record still
\* reads already_hangup, or its memory is by now the new record of the same
\* reference.
EventHangupKeepsCall(cs, sc) ==                             \* mutant
    /\ UNCHANGED gsmcall
    /\ calls' = cs
    /\ sched' = sc
EventHangup(cs, sc) ==
    /\ gsmcall' = NoCref
    /\ \/ calls' = cs /\ sched' = sc
       \/ /\ gsmcall = Stale
          /\ calls' = Destroyed(cs, cref)
          /\ sched' = Orphaned(sc, cref)

\* EVENT_DCHAN_DOWN, NO_SIGNAL, SIM_FAILED and PIN_ERROR in the driver:
\* allogsm_hangup, then allogsm_destroycall of the same pointer.
EventDown(l, Stay) ==
    /\ gsmcall' = NoCref
    /\ up' = FALSE
    /\ UNCHANGED <<smsSched, retrans, cref, answerRetry>>
    /\ \/ /\ gsmcall = NoCref \/ (gsmcall = Stale /\ ~Here[cref].hung)
          /\ Stay
          /\ calls' = Here
          /\ UNCHANGED <<sched, hangupSched, dialVars>>
       \/ /\ gsmcall = Stale
          /\ Stay
          /\ calls' = Destroyed(Here, cref)
          /\ sched' = Orphaned(sched, cref)
          /\ UNCHANGED <<hangupSched, dialVars>>
       \/ /\ gsmcall \in Crefs /\ Here[gsmcall].live /\ dialInitiated
          /\ Stay
          /\ calls' = Destroyed(Here, gsmcall)
          /\ sched' = Orphaned(sched, gsmcall)
          /\ dialHangup' = TRUE
          /\ UNCHANGED <<hangupSched, dialInitiated>>
       \/ /\ gsmcall \in Crefs /\ ~(Here[gsmcall].live /\ dialInitiated)
          /\ AllogsmHangup(sched, Here, gsmcall, HangsUp(l), Stay)

\* updateSmsStatus: drop the send timeout, then file a text that has an id; it
\* reads the id through gsm->sms_info without asking whether it is NULL.  With
\* an event the driver frees sms_info, which for a text from the queue was
\* never allocated.
HasId == info /\ text \notin anonymous
UpdateSmsStatusKeepsTimer(sc, ok, event) ==                 \* mutant
    /\ sched' = sc
    /\ alive' \in (IF info /\ inSpan /\ event THEN BOOLEAN ELSE {info})
    /\ good' = IF HasId /\ ok THEN good \cup {text} ELSE good
    /\ bad' = IF HasId /\ ~ok THEN bad \cup {text} ELSE bad
    /\ UNCHANGED <<smsSched, hangupSched, retrans, anonymous>>
UpdateSmsStatus(sc, ok, event) ==
    /\ sched' = Deleted(sc, smsSched)
    /\ alive' \in (IF info /\ inSpan /\ event THEN BOOLEAN ELSE {info})
    /\ good' = IF HasId /\ ok THEN good \cup {text} ELSE good
    /\ bad' = IF HasId /\ ~ok THEN bad \cup {text} ELSE bad
    /\ UNCHANGED <<smsSched, hangupSched, retrans, anonymous>>
------------------------------------------------------------------------------
\* module_receive looks up the call record before it looks at the line.
Reads ==
    /\ calls' = Here
    /\ UNCHANGED <<cref, gsmcall, up, answerRetry>>
ReadsOnly == Reads /\ UNCHANGED <<alive, timerVars, dialVars, smsVars>>

\* module_check_wind: the modem announces that it has just started.
Reboot(l) ==
    /\ l \in Reboots /\ state \notin InitStates
    /\ state' = "INIT"
    /\ lastSent' = "WIND"
    /\ registered' = FALSE
    /\ calls' = IF l = "KSUP_0" /\ state = "CALL_ACTIVE"
                THEN [Here EXCEPT ![cref].live = FALSE] ELSE Here
    /\ UNCHANGED <<alive, cme, timerVars, cref, gsmcall, up, answerRetry, dialVars, smsVars>>

\* gsm_set_switchtype and the initialisation part of module_receive: the
\* first line after AT+WIND brings the channel down; then the sequence goes
\* forward or back, brings the channel up or down, and ends in READY.  A line
\* nobody expects in the state UP arms gsm_start_timeout with the record of the
\* pool, if retranstimer is 0; the operator's name deletes the slot and zeroes it.
InitMoves(s, l) ==
    /\ state' = s
    /\ lastSent' = "ELSE"
    /\ registered' = Reg(l)
    /\ cme' = Cme(l)

InitReads(l) ==
    /\ state \in InitStates
    /\ UNCHANGED <<alive, smsVars>>
    /\ \/ lastSent = "WIND" /\ EventDown(l, InitMoves("INIT", l))
       \/ /\ lastSent # "WIND" /\ l \in Reboots
          /\ state' = "INIT"
          /\ lastSent' = "WIND"
          /\ registered' = FALSE
          /\ UNCHANGED cme
          /\ Reads /\ UNCHANGED <<timerVars, dialVars>>
       \/ /\ lastSent # "WIND" /\ l \notin Reboots
          /\ \/ /\ \E s \in InitStates : InitMoves(s, l)
                /\ Reads /\ UNCHANGED <<timerVars, dialVars>>
             \/ /\ \E s \in InitStates : InitMoves(s, l)
                /\ up' = TRUE
                /\ calls' = Here
                /\ sched' = Swept(sched)
                /\ retrans' = 0
                /\ UNCHANGED <<cref, gsmcall, answerRetry, smsSched, hangupSched, dialVars>>
             \/ /\ Retrans /\ retrans = 0 /\ state = "INIT" /\ l \in Unlisted
                /\ Assign("INIT", l)
                /\ \E s \in Slots : /\ LowestFree(sched, s)
                                    /\ sched' = [sched EXCEPT ![s] = Timer("start", cref)]
                                    /\ retrans' = s
                /\ Reads /\ UNCHANGED <<smsSched, hangupSched, dialVars>>
             \/ EventDown(l, \E s \in InitStates : InitMoves(s, l))
             \/ Switch("READY", "ELSE", l) /\ Reads /\ UNCHANGED <<timerVars, dialVars>>

\* The line ends the call in this state: NO CARRIER, NO DIALTONE, BUSY and
\* the like, through a case of the state or the check behind the switch.
\* Call, timers of the state and texts in flight are not looked at.
ReleasedBy(l) ==
    \/ /\ l \in Released
       /\ state \in SmsStates \cup {"READY", "INIT_HI", "RING", "RINGING",
                                    "PRE_ANSWER", "CALL_PROGRESS"}
    \/ l \in Released /\ state \in {"CALL_INIT", "CALL_PROCEEDING"} /\ lastSent # "ATD"
    \/ l \in {"PSCSC_20", "NO_DIALTONE"} /\ state = "CALL_ACTIVE"
    \/ l = "WIND_6" /\ state = "RINGING"
    \/ state = "HANGUP_REQ" /\ (l = "NO_DIALTONE" \/ (l = "PSCSC_20" /\ lastSent # "ATH"))

Release(l) ==
    /\ ReleasedBy(l)
    /\ Assign("READY", l)
    /\ EventHangup(Destroyed(Here, cref), Orphaned(sched, cref))
    /\ UNCHANGED <<alive, smsSched, hangupSched, retrans, cref, up, answerRetry, dialVars, smsVars>>
------------------------------------------------------------------------------
\* READY: the first RING is counted, the second or a "+CLIP" is announced.
\* Without a PBX channel or extension the driver hangs up at once.
Announces(l) == Here[cref].new /\ (l = "CLIP" \/ (l = "RING" /\ Here[cref].rung))
Announced ==
    [Here EXCEPT ![cref] = [@ EXCEPT !.new = FALSE, !.live = TRUE, !.unanswered = TRUE]]

ReadyCounts(l) ==
    /\ state = "READY" /\ l = "RING" /\ Here[cref].new /\ ~Here[cref].rung
    /\ calls' = [Here EXCEPT ![cref].rung = TRUE]
    /\ UNCHANGED <<alive, modemVars, timerVars, cref, gsmcall, up, answerRetry, dialVars, smsVars>>

ReadyAnnounces(l) ==
    /\ state = "READY" /\ Announces(l)
    /\ UNCHANGED <<alive, smsSched, retrans, cref, up, answerRetry, smsVars>>
    /\ \/ /\ Assign("RING", l)
          /\ calls' = Announced
          /\ gsmcall' = cref
          /\ UNCHANGED <<sched, hangupSched, dialVars>>
       \/ /\ AllogsmHangup(sched, Announced, cref, HangsUp(l), Assign("RING", l))
          /\ gsmcall' = NoCref

\* READY: module_check_network on coverage and registration.
ReadyNetwork(l) ==
    /\ state = "READY" /\ l \in {"CSQ_0", "CSQ_1", "CREG_0", "CREG_1"}
    /\ UNCHANGED <<alive, smsVars>>
    /\ \/ l = "CSQ_0" /\ EventDown(l, Assign("INIT", l))
       \/ l = "CREG_0" /\ EventDown(l, InitMoves("INIT", l))
       \/ /\ IF l = "CSQ_1" THEN Switch("READY", "", l) ELSE Assign("READY", l)
          /\ l \in {"CSQ_1", "CREG_1"}
          /\ up' = TRUE
          /\ calls' = Here
          /\ UNCHANGED <<timerVars, cref, gsmcall, answerRetry, dialVars>>

RingRings(l) ==
    /\ state = "RING" /\ l = "RING"
    /\ Assign("RINGING", l)
    /\ ReadsOnly

PreAnswerOk(l) ==
    /\ state = "PRE_ANSWER" /\ l = "OK" /\ lastSent = "ATA"
    /\ Assign("CALL_ACTIVE", l)
    /\ ReadsOnly

\* "+CME ERROR: 515" to ATA: try again, then give the call up.
PreAnswerFails(l) ==
    /\ state = "PRE_ANSWER" /\ l = "CME_515"
    /\ answerRetry' = IF answerRetry < AnswerRetries THEN answerRetry + 1 ELSE answerRetry
    /\ UNCHANGED <<alive, smsSched, retrans, cref, up, smsVars>>
    /\ \/ /\ answerRetry + 1 < AnswerRetries
          /\ Switch("PRE_ANSWER", "ATA", l)
          /\ calls' = Here
          /\ UNCHANGED <<gsmcall, sched, hangupSched, dialVars>>
       \/ /\ answerRetry + 1 >= AnswerRetries
          /\ AllogsmHangup(sched, Here, cref, HangsUp(l), Assign("PRE_ANSWER", l))
          /\ gsmcall' = IF gsmcall = NoCref THEN NoCref ELSE Stale

\* The other side hangs up.  allogsm_hangup is called for a record whose
\* ourcallstate has just been set to NULL, in READY or a reload by now.
ReadyThenHangsUp(l) ==
    /\ state' = "HANGUP_REQ"
    /\ lastSent' = "ATH"
    /\ registered' = (Cme(l) <= CmeLimit /\ Reg(l))
    /\ cme' = IF Cme(l) <= CmeLimit THEN Cme(l) ELSE 0

Ended == [Here EXCEPT ![cref].live = FALSE]
ActiveEndsKeepsState(l) ==                                  \* mutant
    /\ state = "CALL_ACTIVE" /\ l \in {"NO_CARRIER", "WIND_6", "BUSY", "CREG_0", "CREG_1"}
    /\ AllogsmHangup(sched, Ended, cref, HangsUp(l), Assign(state, l))
    /\ gsmcall' = NoCref
    /\ UNCHANGED <<alive, smsSched, retrans, cref, up, answerRetry, smsVars>>
ActiveEnds(l) ==
    /\ state = "CALL_ACTIVE" /\ l \in {"NO_CARRIER", "WIND_6", "BUSY", "CREG_0", "CREG_1"}
    /\ AllogsmHangup(sched, Ended, cref, ReadyThenHangsUp(l), Switch("READY", "ELSE", l))
    /\ gsmcall' = NoCref
    /\ UNCHANGED <<alive, smsSched, retrans, cref, up, answerRetry, smsVars>>

\* A second call while call waiting is off is refused with AT+CHLD.
ActiveWaiting(l) ==
    /\ state = "CALL_ACTIVE" /\ l = "WIND_5"
    /\ Switch("CALL_ACTIVE", "ELSE", l)
    /\ ReadsOnly
------------------------------------------------------------------------------
\* The outgoing call proceeds, alerts and is answered.
Proceeds(l) ==
    /\ \/ state = "CALL_INIT" /\ l = "PSCSC_3" /\ Switch("CALL_PROCEEDING", "", l)
       \/ state = "CALL_PROCEEDING" /\ l = "PSCSC_4" /\ Assign("CALL_PROGRESS", l)
       \/ state = "CALL_PROGRESS" /\ l = "PSCSC_5" /\ Assign("CALL_ACTIVE", l)
    /\ ReadsOnly

\* Any other line after ATD gives the call up: ATH, and the hangup timer.
\* A line of Released is then looked at again by the check behind the switch.
Unexpected(l) ==
    \/ state = "CALL_INIT" /\ l \notin {"PSCSC_0", "OK", "PSCSC_3"}
    \/ state = "CALL_PROCEEDING" /\ l \notin {"PSCSC_4", "OK"}

DialGivenUp(l) ==
    /\ Unexpected(l) /\ lastSent = "ATD"
    /\ UNCHANGED <<alive, smsSched, retrans, cref, up, answerRetry, dialVars, smsVars>>
    /\ \/ /\ l \notin Released
          /\ ArmHangup(sched, 0)
          /\ Switch("HANGUP_REQ", "ATH", l)
          /\ calls' = Here
          /\ UNCHANGED gsmcall
       \/ /\ l \in Released
          /\ state' = "READY"
          /\ lastSent' = "ATH"
          /\ registered' = Reg(l)
          /\ cme' = Cme(l)
          /\ \E s \in Slots :
                /\ LowestFree(sched, s)
                /\ hangupSched' = s
                /\ EventHangup(Destroyed(Here, cref),
                               Orphaned([sched EXCEPT ![s] = Timer("hangup", NoCref)], cref))

\* OK to ATH, or a line that looks like noise: the hangup is complete.
HangupEnds(l) ==
    /\ state = "HANGUP_REQ" /\ lastSent = "ATH"
    /\ l = "OK" \/ l \in Unlisted \ {"BUSY"}
    /\ Assign("READY", l)
    /\ EventHangup(Ended, Deleted(sched, hangupSched))
    /\ UNCHANGED <<alive, smsSched, hangupSched, retrans, cref, up, answerRetry, dialVars, smsVars>>
------------------------------------------------------------------------------
\* The driver frees sms_info with SMS_SEND_OK and SMS_SEND_FAILED.
Files(ok, event) ==
    /\ UpdateSmsStatus(sched, ok, event)
    /\ info' = (info /\ ~event)
    /\ UNCHANGED <<text, inSpan, retry, oldRetry, stuck, sends>>

\* The commands before the text: CMGF, then CSCS, then CMGS.
NextCommand == [c \in Commands |-> IF c = "CMGF" THEN "CSCS" ELSE "CMGS"]

SendingContinues(l) ==
    /\ state = "SMS_SENDING"
    /\ l = "OK" \/ (l = "BLANK" /\ lastSent \in {"CMGF", "CSCS"})
    /\ IF lastSent \in {"CMGF", "CSCS"}
       THEN Switch("SMS_SENDING", NextCommand[lastSent], l)
       ELSE Assign("SMS_SENDING", l)
    /\ ReadsOnly

\* The prompt: the text goes out and is ended.  A second prompt is ended again.
Prompted(l) ==
    /\ state \in SmsStates /\ l = "PROMPT"
    /\ Switch("SMS_SENT", "ELSE", l)
    /\ sends' = IF state = "SMS_SENDING" /\ sends < SmsRetries + 2
                THEN sends + 1 ELSE sends
    /\ Reads
    /\ UNCHANGED <<alive, timerVars, dialVars, text, inSpan, info, retry, oldRetry, stuck,
                   anonymous, good, bad>>

\* The network goes and comes back while a text is sent.
SmsNetwork(l) ==
    /\ state \in SmsStates /\ l \in Network
    /\ IF Reg(l) /\ stuck THEN Switch("SMS_SENDING", "CMGF", l) ELSE Assign(state, l)
    /\ stuck' = ~Reg(l)
    /\ Reads
    /\ UNCHANGED <<alive, timerVars, dialVars, text, inSpan, info, retry, oldRetry, sends,
                   anonymous, good, bad>>

SendingFails(l) ==
    /\ state = "SMS_SENDING"
    /\ l \in Errors \/ (l = "BLANK" /\ lastSent \notin {"CMGF", "CSCS"})
    /\ Files(FALSE, TRUE)
    /\ Switch("READY", IF l = "BLANK" THEN "ELSE" ELSE "", l)
    /\ Reads /\ UNCHANGED dialVars

\* gsm_switch_state is given the number AT_SEND_SMS_PDU_MODE for a string.
SendingNoise(l) ==
    /\ state = "SMS_SENDING" /\ l \in (Progress \cup {"JUNK"})
    /\ alive' = FALSE
    /\ UNCHANGED <<modemVars, timerVars, callVars, dialVars, smsVars>>

\* A call arrives: the text is filed as failed and no event is sent.
SmsRingForgets(l) ==                                        \* mutant
    /\ state \in SmsStates /\ l \in {"RING", "CLIP"}
    /\ Switch("READY", IF state = "SMS_SENDING" THEN "ELSE" ELSE "", l)
    /\ ReadsOnly
SmsRing(l) ==
    /\ state \in SmsStates /\ l \in {"RING", "CLIP"}
    /\ Files(FALSE, FALSE)
    /\ Switch("READY", IF state = "SMS_SENDING" THEN "ELSE" ELSE "", l)
    /\ Reads /\ UNCHANGED dialVars

SentOk(l) ==
    /\ state = "SMS_SENT" /\ l = "OK"
    /\ Files(TRUE, TRUE)
    /\ Switch("READY", "", l)
    /\ Reads /\ UNCHANGED dialVars

\* An error after the text: sms_retry counts the tries, a waiting dial ends them.
Tries == IF dialInitiated THEN SmsRetries + 1 ELSE retry

SentRetriesUncounted(l) ==                                  \* mutant
    /\ state = "SMS_SENT" /\ l \in Errors /\ Tries < SmsRetries
    /\ Switch("SMS_SENDING", "CMGS", l)
    /\ ReadsOnly
SentRetriesForever(l) ==                                    \* mutant
    /\ state = "SMS_SENT" /\ l \in Errors
    /\ retry' = retry + 1
    /\ Switch("SMS_SENDING", "CMGS", l)
    /\ Reads
    /\ UNCHANGED <<alive, timerVars, dialVars, text, inSpan, info, oldRetry, stuck, sends,
                   anonymous, good, bad>>
SentRetries(l) ==
    /\ state = "SMS_SENT" /\ l \in Errors /\ Tries < SmsRetries
    /\ retry' = retry + 1
    /\ Switch("SMS_SENDING", "CMGS", l)
    /\ Reads
    /\ UNCHANGED <<alive, timerVars, dialVars, text, inSpan, info, oldRetry, stuck, sends,
                   anonymous, good, bad>>

SentFails(l) ==
    /\ state = "SMS_SENT" /\ l \in Errors /\ Tries >= SmsRetries
    /\ retry' = Tries
    /\ UpdateSmsStatus(sched, FALSE, TRUE)
    /\ info' = FALSE
    /\ IF l = "CMS_512" THEN Switch("INIT", "WIND", l) ELSE Switch("READY", "", l)
    /\ Reads
    /\ UNCHANGED <<dialVars, text, inSpan, oldRetry, stuck, sends>>

SentNoise(l) ==
    /\ state = "SMS_SENT" /\ l \in (Progress \cup {"JUNK"})
    /\ Files(FALSE, TRUE)
    /\ Switch("READY", "ELSE", l)
    /\ Reads /\ UNCHANGED dialVars

------------------------------------------------------------------------------
\* Nothing in the state's code answers to the line.
Ignores(l) ==
    /\ l \notin Reboots /\ ~ReleasedBy(l)
    /\ \/ /\ state = "READY" /\ l \notin Quality \cup {"CREG_0", "CREG_1"}
          /\ ~(Here[cref].new /\ l \in {"RING", "CLIP"})
       \/ state = "RING" /\ l # "RING"
       \/ state = "RINGING"
       \/ state = "PRE_ANSWER" /\ l # "CME_515" /\ ~(l = "OK" /\ lastSent = "ATA")
       \/ /\ state = "CALL_ACTIVE"
          /\ l \notin {"NO_CARRIER", "WIND_5", "WIND_6", "BUSY", "CREG_0", "CREG_1"}
       \/ state = "CALL_INIT" /\ l \in {"PSCSC_0", "OK"}
       \/ state = "CALL_PROCEEDING" /\ l = "OK"
       \/ Unexpected(l) /\ lastSent # "ATD"
       \/ state = "CALL_PROGRESS" /\ l # "PSCSC_5"
       \/ /\ state = "HANGUP_REQ"
          /\ ~(lastSent = "ATH" /\ l \in {"OK"} \cup (Unlisted \ {"BUSY"}))
       \/ state = "SMS_SENDING" /\ l \in Quality
       \/ state = "SMS_SENT" /\ l \in Quality \cup {"BLANK"}
    /\ Assign(state, l)
    /\ ReadsOnly

CallLine(l) ==
    \/ Release(l) \/ ReadyCounts(l) \/ ReadyAnnounces(l) \/ RingRings(l)
    \/ PreAnswerOk(l) \/ PreAnswerFails(l) \/ ActiveEnds(l) \/ ActiveWaiting(l)
    \/ Proceeds(l) \/ DialGivenUp(l) \/ HangupEnds(l)

SmsLine(l) ==
    \/ SendingContinues(l) \/ Prompted(l) \/ SmsNetwork(l) \/ SendingFails(l)
    \/ SendingNoise(l) \/ SmsRing(l) \/ SentOk(l) \/ SentRetries(l) \/ SentFails(l)
    \/ SentNoise(l)

Line(l) ==
    /\ alive
    /\ UNCHANGED dialRetry
    /\ \/ Reboot(l) \/ InitReads(l) \/ ReadyNetwork(l) \/ Ignores(l)
       \/ CallLine(l) \/ SmsLine(l)
------------------------------------------------------------------------------
\* __gsm_schedule_run clears the slot and then calls back.
Fires(s, fn) == alive /\ sched[s].fn = fn
Cleared(s) == [sched EXCEPT ![s] = Free]

\* gsm_sms_sending_timeout.  It asks for a state beyond READY, not for one of
\* its own states.
TimedOutTries == IF oldRetry = retry \/ dialInitiated THEN SmsRetries + 1 ELSE retry

SmsTimerLate(s) ==
    /\ state \in {"INIT", "READY"}
    /\ sched' = Cleared(s)
    /\ UNCHANGED <<alive, modemVars, smsSched, hangupSched, retrans, retry, oldRetry,
                   anonymous, good, bad>>

SmsTimerRetriesOnce(s) ==                                   \* mutant
    /\ state \notin {"INIT", "READY"} /\ TimedOutTries < SmsRetries
    /\ oldRetry' = retry
    /\ Switch("SMS_SENT", "ELSE", NoLine)
    /\ sched' = Cleared(s)
    /\ UNCHANGED <<alive, smsSched, hangupSched, retrans, retry, anonymous, good, bad>>
SmsTimerRetries(s) ==
    /\ state \notin {"INIT", "READY"} /\ TimedOutTries < SmsRetries
    /\ oldRetry' = retry
    /\ Switch("SMS_SENT", "ELSE", NoLine)
    /\ ArmSms(Cleared(s))
    /\ UNCHANGED <<alive, hangupSched, retrans, retry, anonymous, good, bad>>

SmsTimerGivesUp(s) ==
    /\ state \notin {"INIT", "READY"} /\ TimedOutTries >= SmsRetries
    /\ retry' = TimedOutTries
    /\ UpdateSmsStatus(Cleared(s), FALSE, FALSE)
    /\ Switch("READY", "ELSE", NoLine)
    /\ UNCHANGED oldRetry

SmsTimer(s) ==
    /\ Fires(s, "sms")
    /\ SmsTimerLate(s) \/ SmsTimerRetries(s) \/ SmsTimerGivesUp(s)
    /\ UNCHANGED <<callVars, dialVars, dialRetry, text, inSpan, info, stuck, sends>>

\* gsm_hangup_timeout repeats ATH while the state is HANGUP_REQ.
HangupRepeatsOnce(s) ==                                     \* mutant
    /\ state = "HANGUP_REQ"
    /\ sched' = Cleared(s)
    /\ UNCHANGED hangupSched
    /\ Switch("HANGUP_REQ", "ATH", NoLine)
HangupRepeats(s) ==
    /\ state = "HANGUP_REQ"
    /\ ArmHangup(Cleared(s), 0)
    /\ Switch("HANGUP_REQ", "ATH", NoLine)

HangupTimer(s) ==
    /\ Fires(s, "hangup")
    /\ \/ HangupRepeats(s)
       \/ /\ state # "HANGUP_REQ"
          /\ sched' = Cleared(s)
          /\ UNCHANGED <<modemVars, hangupSched>>
    /\ UNCHANGED <<alive, smsSched, retrans, callVars, dialVars, dialRetry, smsVars>>

\* module_dial, from the slot table sc.
ModuleDial(sc) ==
    /\ Switch("CALL_INIT", "ATD", NoLine)
    /\ sched' = sc
    /\ dialInitiated' = FALSE
    /\ dialRetry' = 0
    /\ UNCHANGED <<hangupSched, dialHangup>>

\* gsm_dial_retry while a text is being sent: wait on; past the limit only a
\* call that is hung up is looked after.
DialWaitsOnce(s, c) ==                                      \* mutant
    /\ state \in SmsStates
    /\ dialRetry' = IF dialRetry < DialLimit THEN dialRetry + 1 ELSE dialRetry
    /\ sched' = Cleared(s)
    /\ UNCHANGED <<modemVars, hangupSched, calls, gsmcall, dialVars>>
DialWaitsTwice(s, c) ==                                     \* mutant
    /\ state \in SmsStates
    /\ dialRetry' = IF dialRetry < DialLimit THEN dialRetry + 1 ELSE dialRetry
    /\ ArmDial(sched, c)
    /\ UNCHANGED <<modemVars, hangupSched, calls, gsmcall, dialVars>>
DialWaits(s, c) ==
    /\ state \in SmsStates
    /\ dialRetry' = IF dialRetry < DialLimit THEN dialRetry + 1 ELSE dialRetry
    /\ \E r \in Slots :
          /\ LowestFree(Cleared(s), r)
          /\ LET sc == [Cleared(s) EXCEPT ![r] = Timer("dial", c)]
             IN  IF dialRetry' = DialLimit /\ dialHangup /\ c # NoCref
                 THEN AllogsmHangup(sc, calls, c, HangsUp(NoLine), ModemStays)
                 ELSE /\ sched' = sc
                      /\ UNCHANGED <<modemVars, hangupSched, calls, dialVars>>
    /\ UNCHANGED gsmcall

\* gsm_dial_retry otherwise.  The record of a timer that outlived its call
\* still reads as it was, or the next record of the pool lies there by now.
DialGoesOnAnyway(s, c) ==                                   \* mutant
    /\ state \notin SmsStates
    /\ ModuleDial(Cleared(s))
    /\ UNCHANGED <<calls, gsmcall>>
DialGoesOn(s, c) ==
    /\ state \notin SmsStates
    /\ \/ ~dialHangup /\ ModuleDial(Cleared(s)) /\ UNCHANGED <<calls, gsmcall>>
       \/ /\ dialHangup /\ c # NoCref
          /\ ModuleHangup(Dangling(Cleared(s), c), retrans, HangsUp(NoLine))
          /\ calls' = Destroyed(calls, c)
          /\ UNCHANGED <<gsmcall, dialRetry>>
       \/ /\ dialHangup /\ c = NoCref
          /\ ModuleHangup(Cleared(s), 0, HangsUp(NoLine))
          /\ UNCHANGED <<calls, gsmcall, dialRetry>>
       \/ /\ dialHangup /\ c = NoCref
          /\ ModuleHangup(Dangling(Cleared(s), cref), retrans, HangsUp(NoLine))
          /\ calls' = Destroyed(calls, cref)
          /\ gsmcall' = IF gsmcall = cref THEN Stale ELSE gsmcall
          /\ UNCHANGED dialRetry

DialTimer(s) ==
    /\ Fires(s, "dial")
    /\ UNCHANGED <<smsSched, retrans, cref, up, answerRetry, smsVars>>
    /\ \/ /\ DialWaits(s, sched[s].call) \/ DialGoesOn(s, sched[s].call)
          /\ UNCHANGED alive
       \/ /\ sched[s].call = NoCref
          /\ alive' = FALSE
          /\ UNCHANGED <<modemVars, sched, hangupSched, calls, gsmcall, dialVars, dialRetry>>

\* gsm_start_timeout, from any state; retranstimer keeps its slot.  It finds the
\* span through the record it was armed with, freed or not.
StartTimer(s) ==
    /\ Fires(s, "start")
    /\ sched' = Cleared(s)
    /\ \/ Switch("INIT", "ELSE", NoLine) /\ UNCHANGED alive
       \/ sched[s].call = NoCref /\ alive' = FALSE /\ UNCHANGED modemVars
    /\ UNCHANGED <<smsSched, hangupSched, retrans, callVars, dialVars, dialRetry, smsVars>>

\* gsm_start_timeout_junk while the modem is being initialised: from the
\* start again, or AT+CSQ again where the coverage is missing.
ReloadTimer ==
    /\ alive /\ state = "INIT"
    /\ UNCHANGED <<alive, state, cme, timerVars, callVars, dialVars, dialRetry, smsVars>>
    /\ \/ lastSent' = "WIND" /\ registered' = FALSE
       \/ lastSent' = "ELSE" /\ UNCHANGED registered

\* A modem that is up is restarted: by the same timer with auto_modem_reset,
\* or by allogsm_module_start from the CLI in any state.  A span that is
\* powered off is not initialised.
Reload ==
    /\ Reloads /\ alive
    /\ registered' = FALSE
    /\ \/ state = "READY" /\ state' = "INIT" /\ lastSent' = "WIND" /\ UNCHANGED cme
       \/ state' = "INIT" /\ lastSent' = "WIND" /\ cme' = 0
       \/ cme' = 0 /\ UNCHANGED <<state, lastSent>>
    /\ UNCHANGED <<alive, timerVars, callVars, dialVars, dialRetry, smsVars>>
------------------------------------------------------------------------------
\* __gsm_send_text, called by allogsm_send_text and the queue's timer.
SendText ==
    /\ alive /\ state = "READY" /\ ~dialInitiated /\ registered
    /\ text < MaxTexts
    /\ text' = text + 1
    /\ info' = TRUE
    /\ inSpan' \in {FALSE, Queued}
    /\ retry' = 0
    /\ oldRetry' = -1
    /\ sends' = 0
    /\ anonymous' \in {anonymous} \cup (IF Anonymous THEN {anonymous \cup {text + 1}} ELSE {})
    /\ ArmSms(sched)
    /\ Switch("SMS_SENDING", "CMGF", NoLine)
    /\ UNCHANGED <<alive, hangupSched, retrans, callVars, dialVars, dialRetry, stuck, good, bad>>

\* allogsm_new_call and allogsm_setup for a channel that available() grants.
Dial ==
    /\ alive /\ up /\ gsmcall = NoCref /\ cref < MaxCref
    /\ cref' = cref + 1
    /\ gsmcall' = cref + 1
    /\ calls' = [calls EXCEPT ![cref + 1] = [NoCall EXCEPT !.here = TRUE, !.live = TRUE]]
    /\ \/ /\ state \in SmsStates
          /\ ArmDial(sched, cref + 1)
          /\ dialInitiated' = TRUE
          /\ dialRetry' = 0
          /\ UNCHANGED <<modemVars, hangupSched, dialHangup>>
       \/ state \notin SmsStates /\ ModuleDial(sched)
    /\ UNCHANGED <<alive, smsSched, retrans, up, answerRetry, smsVars>>

\* allochan_hangup of a channel that still has its call.
HangupFrees ==                                              \* mutant
    /\ alive /\ gsmcall \in Crefs
    /\ calls' = Destroyed(calls, gsmcall)
    /\ IF dialInitiated
       THEN /\ sched' = Orphaned(sched, gsmcall)
            /\ dialHangup' = TRUE
            /\ UNCHANGED <<modemVars, hangupSched, dialInitiated>>
       ELSE ModuleHangup(Orphaned(sched, gsmcall), retrans, HangsUp(NoLine))
    /\ gsmcall' = Stale
    /\ UNCHANGED <<alive, smsSched, retrans, cref, up, answerRetry, dialRetry, smsVars>>
Hangup ==
    /\ alive /\ gsmcall \in Crefs
    /\ AllogsmHangup(sched, calls, gsmcall, HangsUp(NoLine), ModemStays)
    /\ gsmcall' = Stale
    /\ UNCHANGED <<alive, smsSched, retrans, cref, up, answerRetry, dialRetry, smsVars>>

\* allogsm_answer of an incoming call, whatever the modem does by now.
Answer ==
    /\ alive /\ gsmcall \in Crefs /\ calls[gsmcall].unanswered
    /\ calls' = [calls EXCEPT ![gsmcall] = [@ EXCEPT !.live = TRUE, !.unanswered = FALSE]]
    /\ answerRetry' = 0
    /\ sched' = Swept(sched)
    /\ retrans' = 0
    /\ Switch("PRE_ANSWER", "ATA", NoLine)
    /\ UNCHANGED <<alive, smsSched, hangupSched, cref, gsmcall, up, dialVars, dialRetry, smsVars>>

\* DTMF digits and commands from the CLI go out in any state.
OtherCommand ==
    /\ alive
    /\ lastSent' = "ELSE"
    /\ UNCHANGED <<alive, state, registered, cme, timerVars, callVars, dialVars, dialRetry, smsVars>>

Api == SendText \/ Dial \/ Hangup \/ Answer \/ OtherCommand \/ Reload
Timers == ReloadTimer \/ \E s \in Slots : SmsTimer(s) \/ HangupTimer(s) \/ DialTimer(s) \/ StartTimer(s)

Next == (\E l \in Lines : Line(l)) \/ Timers \/ Api

Spec == Init /\ [][Next]_vars

\* Due timers run whenever the modem is silent for a poll, and a modem that
\* keeps getting ATH answers one of them.
AthAnswered == alive /\ HangupEnds("OK") /\ UNCHANGED dialRetry
LiveSpec ==
    /\ Spec
    /\ WF_vars(\E s \in Slots : SmsTimer(s))
    /\ WF_vars(\E s \in Slots : HangupTimer(s))
    /\ WF_vars(\E s \in Slots : DialTimer(s))
    /\ SF_vars(AthAnswered)
------------------------------------------------------------------------------
Records == [here : BOOLEAN, live : BOOLEAN, hung : BOOLEAN, new : BOOLEAN,
            rung : BOOLEAN, unanswered : BOOLEAN]
TimerRecords == [fn : {"none", "sms", "hangup", "dial", "start"}, call : Crefs \cup {NoCref}]

TypeOK ==
    /\ alive \in BOOLEAN
    /\ state \in States
    /\ lastSent \in Commands
    /\ registered \in BOOLEAN
    /\ cme \in 0..(CmeLimit + 1)
    /\ sched \in [Slots -> TimerRecords]
    /\ smsSched \in Slots \cup {0}
    /\ hangupSched \in Slots \cup {0}
    /\ retrans \in Slots \cup {0}
    /\ cref \in Crefs
    /\ calls \in [Crefs -> Records]
    /\ gsmcall \in Crefs \cup {NoCref, Stale}
    /\ up \in BOOLEAN
    /\ answerRetry \in 0..AnswerRetries
    /\ dialInitiated \in BOOLEAN
    /\ dialHangup \in BOOLEAN
    /\ dialRetry \in 0..DialLimit
    /\ text \in 0..MaxTexts
    /\ info \in BOOLEAN
    /\ inSpan \in BOOLEAN
    /\ retry \in 0..(SmsRetries + 1)
    /\ oldRetry \in -1..(SmsRetries + 1)
    /\ stuck \in BOOLEAN
    /\ sends \in 0..(SmsRetries + 2)
    /\ anonymous \in SUBSET Texts
    /\ good \in SUBSET Texts
    /\ bad \in SUBSET Texts

DialTimers == {s \in Slots : sched[s].fn = "dial"}

\* While ATH waits for its OK the hangup timer that repeats it is pending in
\* the slot the span remembers: no other timer's deletion has taken it, save
\* the end of a call through a retranstimer that is still this slot's number.
HangupHasTimer ==
    state = "HANGUP_REQ" =>
        hangupSched \in Slots /\ (sched[hangupSched].fn = "hangup" \/ hangupSched = retrans)

\* While a text is with the modem its send timeout is pending in the slot the
\* span remembers: a reset, a call or a late verdict takes it from no text but
\* the one it ends (for timers of earlier texts, too: SpanProofs); again save
\* through retranstimer.
SmsHasTimer ==
    state \in SmsStates =>
        smsSched \in Slots /\ (sched[smsSched].fn = "sms" \/ smsSched = retrans)

\* A dial put off during a text is not forgotten: while dial_initiated blocks
\* all further texts, a gsm_dial_retry that will clear it is pending, and no
\* step removes the last one but a deletion through retranstimer.
DeferredDialKept ==
    [][dialInitiated' /\ DialTimers' = {} =>
           dialInitiated /\ (DialTimers = {} \/ retrans # 0)]_vars

\* At most one dial is put off at a time, so no number is dialled twice, and
\* gsm_dial_retry gets a record that is still allocated.  ChangeLogDEV says of
\* the deferred dial: "Took care of hangup when call is not initiated."
DialOwnsRecord ==
    /\ \A s, r \in DialTimers : s = r
    /\ \A s \in DialTimers : sched[s].call # NoCref

\* A number is dialled only for a channel that still wants the call.
DialsForChannel == state = "CALL_INIT" => gsmcall \in Crefs

\* No call goes on at the modem without a channel that can hang it up.
CallHasChannel ==
    state \in {"CALL_INIT", "CALL_PROCEEDING", "CALL_PROGRESS", "PRE_ANSWER", "CALL_ACTIVE"}
        => gsmcall # NoCref

\* The driver's record is the one module_receive works on, and allocated.
OneReference == gsmcall \in Crefs => gsmcall = cref /\ calls[cref].here

\* Back in READY every text that was given an id has its verdict, and none is
\* filed both as sent and as failed.  ChangeLogDEV: "messages which are
\* successful are stored in smsout_success and failed are stored in
\* smsout_fail".
OneVerdict ==
    /\ good \cap bad = {}
    /\ alive /\ state = "READY" => (1..text) \ anonymous \subseteq good \cup bad

\* A text filed as sent has been transmitted (gsm_transmit_sms) before.  The
\* code does not keep it: the timeout before the prompt enters SMS_SENT.
GoodWasSent == [][good' # good => sends > 0]_vars

\* A text is transmitted once and three times again at most.  ChangeLogDEV:
\* "SMS Retry for 3 times feature added."
AtMostRetries == sends <= SmsRetries + 1

\* The process never reads through a NULL sms_info, frees what it did not
\* allocate or hands an enumeration value to a string function.  The comment of
\* expectlist_compare: a corrupted answer is recognised "to enable us to refire
\* the AT command to keep State machine running".
KeepsRunning == alive

\* The deletion of retranstimer's slot has taken the timer of the text, or ATH's.
SmsTimerTaken == smsSched = retrans /\ sched[smsSched].fn # "sms"
HangupTimerTaken == hangupSched = retrans /\ sched[hangupSched].fn # "hangup"

\* A text whose timer was not taken does not occupy the modem for ever: error,
\* verdict, call, reset or the send timeout ends it, also while lines are lost.
TextEnds ==
    state \in SmsStates ~> ~alive \/ state \notin SmsStates \/ SmsTimerTaken

\* A hangup completes although commands from the CLI can take the place of
\* ATH in at_last_sent and an OK is then not counted.
HangupCompletes ==
    state = "HANGUP_REQ" ~> ~alive \/ state # "HANGUP_REQ" \/ HangupTimerTaken

\* A deferred dial that has its timer goes out or is dropped once the text before
\* it ends, unless retranstimer comes to name its timer's slot, or has the text's
\* timer taken.
DialHappens ==
    dialInitiated /\ DialTimers # {} ~>
        \/ ~alive \/ ~dialInitiated
        \/ retrans \in DialTimers
        \/ state \in SmsStates /\ SmsTimerTaken
==============================================================================
