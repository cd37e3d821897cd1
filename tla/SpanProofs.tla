------------------------------ MODULE SpanProofs ------------------------------
(***************************************************************************)
(* Proofs about Span for every set of lines and every bound: its types,    *)
(* that no timer that a state of the span relies on is lost, and what it   *)
(* promises of calls and texts.                                            *)
(***************************************************************************)
EXTENDS Span, TLAPS

(***************************************************************************)
(* The type invariant by groups of variables.  A verdict needs the number  *)
(* of a text: sms_info is only set when there is one.                      *)
(***************************************************************************)
ModemOK ==
    /\ state \in States
    /\ lastSent \in Commands
    /\ registered \in BOOLEAN
    /\ cme \in 0..(CmeLimit + 1)
Table == [Slots -> TimerRecords]
TimersOK ==
    /\ sched \in Table
    /\ smsSched \in Slots \cup {0}
    /\ hangupSched \in Slots \cup {0}
    /\ retrans \in Slots \cup {0}
Pool == [Crefs -> Records]
CallsOK ==
    /\ cref \in Crefs
    /\ calls \in Pool
    /\ gsmcall \in Crefs \cup {NoCref, Stale}
    /\ up \in BOOLEAN
    /\ answerRetry \in 0..AnswerRetries
DialOK == dialInitiated \in BOOLEAN /\ dialHangup \in BOOLEAN
TextsOK ==
    /\ text \in 0..MaxTexts
    /\ info \in BOOLEAN
    /\ inSpan \in BOOLEAN
    /\ retry \in 0..(SmsRetries + 1)
    /\ oldRetry \in -1..(SmsRetries + 1)
    /\ stuck \in BOOLEAN
    /\ sends \in 0..(SmsRetries + 2)
    /\ anonymous \in SUBSET Texts
    /\ good \in SUBSET Texts
    /\ bad \in SUBSET Texts
    /\ info => text \in Texts
Groups == alive \in BOOLEAN /\ ModemOK /\ TimersOK /\ CallsOK /\ DialOK /\ TextsOK
Typed == Groups /\ dialRetry \in 0..DialLimit

LEMMA Bounds ==
    /\ MaxSched \in Nat \ {0}
    /\ MaxCref \in Nat
    /\ MaxTexts \in Nat
    /\ SmsRetries \in Nat
    /\ AnswerRetries \in Nat \ {0}
    /\ CmeLimit \in Nat
    /\ DialLimit \in Nat \ {0}
BY Zenon, SpanAssumption

LEMMA Zeros ==
    /\ 0 \in Crefs /\ 0 \in 0..AnswerRetries /\ 0 \in 0..DialLimit
    /\ 0 \in 0..(CmeLimit + 1)
    /\ 0 \in 0..MaxTexts /\ 0 \in 0..(SmsRetries + 1) /\ 0 \in 0..(SmsRetries + 2)
    /\ 0 \in -1..(SmsRetries + 1) /\ -1 \in -1..(SmsRetries + 1)
BY Bounds DEF Crefs

LEMMA TypedIsTypeOK == Typed => TypeOK
BY DEF Typed, Groups, TypeOK, ModemOK, TimersOK, CallsOK, DialOK, TextsOK, Table, Pool

LEMMA TypedInit == Init => Typed
<1> SUFFICES ASSUME Init
             PROVE  Typed
  OBVIOUS
<1>1. ModemOK
  BY Zeros DEF Init, ModemOK, States, InitStates, Commands
<1>2. TimersOK
  BY DEF Init, TimersOK, Table, TimerRecords, Timer, Free
<1>3. CallsOK
  BY Zeros DEF Init, CallsOK, Pool, Records, NoCall
<1>4. DialOK /\ alive \in BOOLEAN /\ dialRetry \in 0..DialLimit
  BY Zeros DEF Init, DialOK
<1>5. TextsOK
  BY Zeros DEF Init, TextsOK
<1>6. QED
  BY <1>1, <1>2, <1>3, <1>4, <1>5 DEF Typed, Groups

(***************************************************************************)
(* What the helpers return.                                                *)
(***************************************************************************)
LEMMA CmeType == ASSUME ModemOK, NEW l PROVE Cme(l) \in 0..(CmeLimit + 1)
BY Bounds DEF ModemOK, Cme

LEMMA RegType == ASSUME ModemOK, NEW l PROVE Reg(l) \in BOOLEAN
BY Zenon DEF ModemOK, Reg

LEMMA AssignType ==
    ASSUME ModemOK, NEW l, NEW s \in States, Assign(s, l)
    PROVE  ModemOK'
BY CmeType, RegType DEF Assign, ModemOK

LEMMA SwitchType ==
    ASSUME ModemOK, NEW l, NEW s \in States, NEW c \in Commands \cup {""}, Switch(s, c, l)
    PROVE  ModemOK'
<1>1. "INIT" \in States /\ "WIND" \in Commands
  BY DEF States, InitStates, Commands
<1>2. 0 \in 0..(CmeLimit + 1)
  BY Zeros
<1>3. CASE s = "READY" /\ Cme(l) > CmeLimit
  BY <1>1, <1>2, <1>3 DEF Switch, ModemOK
<1>4. CASE ~(s = "READY" /\ Cme(l) > CmeLimit)
  BY <1>4, CmeType, RegType DEF Switch, ModemOK
<1>5. QED
  BY <1>3, <1>4

LEMMA FreeType == Free \in TimerRecords
BY DEF Free, Timer, TimerRecords, NoCref

LEMMA TimerType ==
    ASSUME NEW fn \in {"none", "sms", "hangup", "dial", "start"}, NEW c \in Crefs \cup {NoCref}
    PROVE  Timer(fn, c) \in TimerRecords /\ Timer(fn, c).fn = fn /\ Timer(fn, c).call = c
BY DEF Timer, TimerRecords

LEMMA DeletedType == ASSUME NEW sc \in Table, NEW id PROVE Deleted(sc, id) \in Table
BY FreeType DEF Deleted, Table

LEMMA DanglingType == ASSUME NEW sc \in Table, NEW c PROVE Dangling(sc, c) \in Table
BY DEF Dangling, Table, Timer, TimerRecords

LEMMA OrphanedType ==
    ASSUME NEW sc \in Table, NEW c
    PROVE  Swept(sc) \in Table /\ Orphaned(sc, c) \in Table
BY DeletedType, DanglingType DEF Swept, Orphaned

LEMMA ClearedType == ASSUME TimersOK, NEW s \in Slots PROVE Cleared(s) \in Table
BY FreeType DEF Cleared, Table, TimersOK

LEMMA DestroyedType == ASSUME NEW cs \in Pool, NEW c PROVE Destroyed(cs, c) \in Pool
BY DEF Destroyed, Pool, Records, NoCall

LEMMA NewCallType == NewCall \in Records
BY DEF NewCall, NoCall, Records

LEMMA HereType == ASSUME CallsOK PROVE Here \in Pool
BY NewCallType DEF Here, Pool, CallsOK

LEMMA EndedType == ASSUME CallsOK PROVE Ended \in Pool
BY HereType DEF Ended, Pool, Records

LEMMA AnnouncedType == ASSUME CallsOK PROVE Announced \in Pool
BY HereType DEF Announced, Pool, Records

LEMMA ArmHangupType ==
    ASSUME NEW sc \in Table, NEW gone, ArmHangup(sc, gone)
    PROVE  sched' \in Table /\ hangupSched' \in Slots
<1>1. PICK s \in Slots :
        sched' = Deleted([sc EXCEPT ![s] = Timer("hangup", NoCref)], gone) /\ hangupSched' = s
  BY DEF ArmHangup
<1>2. [sc EXCEPT ![s] = Timer("hangup", NoCref)] \in Table
  BY TimerType DEF Table
<1>3. QED
  BY <1>1, <1>2, DeletedType

LEMMA ArmSmsType ==
    ASSUME NEW sc \in Table, ArmSms(sc)
    PROVE  sched' \in Table /\ smsSched' \in Slots
BY TimerType DEF ArmSms, Table

LEMMA ArmDialType ==
    ASSUME NEW sc \in Table, NEW c \in Crefs \cup {NoCref}, ArmDial(sc, c)
    PROVE  sched' \in Table
BY TimerType DEF ArmDial, Table

LEMMA UnchangedType ==
    /\ ModemOK /\ UNCHANGED modemVars => ModemOK'
    /\ TimersOK /\ UNCHANGED timerVars => TimersOK'
    /\ CallsOK /\ UNCHANGED callVars => CallsOK'
    /\ DialOK /\ UNCHANGED dialVars => DialOK'
    /\ TextsOK /\ UNCHANGED smsVars => TextsOK'
<1>1. ModemOK /\ UNCHANGED modemVars => ModemOK'
  BY DEF ModemOK, modemVars
<1>2. TimersOK /\ UNCHANGED timerVars => TimersOK'
  BY DEF TimersOK, timerVars
<1>3. CallsOK /\ UNCHANGED callVars => CallsOK'
  BY DEF CallsOK, callVars
<1>4. DialOK /\ UNCHANGED dialVars => DialOK'
  BY DEF DialOK, dialVars
<1>5. TextsOK /\ UNCHANGED smsVars => TextsOK'
  BY DEF TextsOK, smsVars
<1>6. QED
  BY <1>1, <1>2, <1>3, <1>4, <1>5

(***************************************************************************)
(* The steps that several actions share.                                   *)
(***************************************************************************)
LEMMA ModuleHangupType ==
    ASSUME NEW sc \in Table, NEW gone, NEW ACTION Go, ModuleHangup(sc, gone, Go)
    PROVE  Go /\ DialOK' /\ sched' \in Table /\ hangupSched' \in Slots
BY ArmHangupType DEF ModuleHangup, DialOK

LEMMA AllogsmHangupType ==
    ASSUME NEW sc \in Table, NEW cs \in Pool, NEW c, TimersOK, DialOK,
           NEW ACTION Go, NEW ACTION Stay, AllogsmHangup(sc, cs, c, Go, Stay)
    PROVE  /\ Go \/ Stay
           /\ DialOK'
           /\ sched' \in Table /\ hangupSched' \in Slots \cup {0}
           /\ calls' \in Pool
<1>1. Orphaned(sc, c) \in Table /\ Swept(sc) \in Table /\ Destroyed(cs, c) \in Pool
  BY OrphanedType, DestroyedType
<1>2. CASE /\ cs[c].hung
           /\ Stay
           /\ calls' = cs
           /\ sched' = sc
           /\ UNCHANGED <<hangupSched, dialVars>>
  BY <1>2 DEF TimersOK, DialOK, dialVars
<1>3. CASE /\ ~cs[c].hung /\ cs[c].live /\ dialInitiated
           /\ Stay
           /\ calls' = [cs EXCEPT ![c].hung = TRUE]
           /\ dialHangup' = TRUE
           /\ sched' = Swept(sc)
           /\ UNCHANGED <<hangupSched, dialInitiated>>
  <2>1. calls' \in Pool
    BY <1>3 DEF Pool, Records
  <2>2. QED
    BY <1>1, <1>3, <2>1 DEF TimersOK, DialOK
<1>4. CASE /\ ~cs[c].hung /\ ~dialInitiated
           /\ calls' = Destroyed(cs, c)
           /\ ModuleHangup(Orphaned(sc, c), IF cs[c].live THEN retrans ELSE 0, Go)
  BY <1>1, <1>4, ModuleHangupType
<1>5. CASE /\ ~cs[c].hung /\ ~cs[c].live
           /\ Stay
           /\ calls' = Destroyed(cs, c)
           /\ dialHangup' \in {dialHangup, dialHangup \/ dialInitiated}
           /\ sched' = Orphaned(sc, c)
           /\ UNCHANGED <<hangupSched, dialInitiated>>
  <2>1. DialOK'
    BY Zenon, <1>5 DEF DialOK
  <2>2. QED
    BY <1>1, <1>5, <2>1 DEF TimersOK
<1>6. QED
  BY <1>2, <1>3, <1>4, <1>5 DEF AllogsmHangup

LEMMA EventHangupType ==
    ASSUME CallsOK, NEW cs \in Pool, NEW sc \in Table, EventHangup(cs, sc)
    PROVE  gsmcall' = NoCref /\ calls' \in Pool /\ sched' \in Table
BY DestroyedType, OrphanedType DEF EventHangup

LEMMA HangsUpType == ASSUME ModemOK, NEW l, HangsUp(l) PROVE ModemOK' /\ state' \in States
<1>1. "HANGUP_REQ" \in States /\ "ATH" \in Commands
  BY DEF States, CallStates, Commands
<1>2. QED
  BY <1>1, SwitchType DEF HangsUp, ModemOK

LEMMA EventDownType ==
    ASSUME Groups, NEW l, NEW ACTION Stay, EventDown(l, Stay)
    PROVE  (Stay \/ ModemOK') /\ TimersOK' /\ CallsOK' /\ DialOK'
<1>1. Here \in Pool /\ sched \in Table /\ smsSched' \in Slots \cup {0}
  BY HereType DEF Groups, EventDown, TimersOK
<1>2. /\ gsmcall' \in Crefs \cup {NoCref, Stale}
      /\ cref' \in Crefs /\ up' \in BOOLEAN /\ answerRetry' \in 0..AnswerRetries
  BY DEF Groups, CallsOK, EventDown
<1>3. /\ DialOK'
      /\ sched' \in Table /\ hangupSched' \in Slots \cup {0}
      /\ calls' \in Pool
      /\ Stay \/ ModemOK'
  <2>1. CASE /\ gsmcall = NoCref \/ (gsmcall = Stale /\ ~Here[cref].hung)
             /\ Stay
             /\ calls' = Here
             /\ UNCHANGED <<sched, hangupSched, dialVars>>
    BY <1>1, <2>1 DEF Groups, TimersOK, DialOK, dialVars
  <2>2. CASE /\ gsmcall = Stale
             /\ Stay
             /\ calls' = Destroyed(Here, cref)
             /\ sched' = Orphaned(sched, cref)
             /\ UNCHANGED <<hangupSched, dialVars>>
    BY <1>1, <2>2, DestroyedType, OrphanedType DEF Groups, TimersOK, DialOK, dialVars
  <2>3. CASE /\ gsmcall \in Crefs /\ Here[gsmcall].live /\ dialInitiated
             /\ Stay
             /\ calls' = Destroyed(Here, gsmcall)
             /\ sched' = Orphaned(sched, gsmcall)
             /\ dialHangup' = TRUE
             /\ UNCHANGED <<hangupSched, dialInitiated>>
    BY <1>1, <2>3, DestroyedType, OrphanedType DEF Groups, TimersOK, DialOK
  <2>4. CASE AllogsmHangup(sched, Here, gsmcall, HangsUp(l), Stay)
    <3>1. /\ HangsUp(l) \/ Stay
          /\ DialOK' /\ sched' \in Table /\ hangupSched' \in Slots \cup {0} /\ calls' \in Pool
      BY <1>1, <2>4, AllogsmHangupType DEF Groups
    <3>2. QED
      BY <3>1, HangsUpType DEF Groups
  <2>5. QED
    BY <2>1, <2>2, <2>3, <2>4 DEF EventDown
<1>4. QED
  BY <1>1, <1>2, <1>3 DEF Groups, TimersOK, CallsOK, EventDown

LEMMA ReadsType == ASSUME CallsOK, Reads PROVE CallsOK'
BY HereType DEF Reads, CallsOK

LEMMA ReadsOnlyType == ASSUME Groups, ModemOK', ReadsOnly PROVE Groups'
<1>1. CallsOK'
  BY ReadsType DEF Groups, ReadsOnly
<1>2. QED
  BY <1>1, UnchangedType DEF Groups, ReadsOnly

LEMMA UpdateSmsStatusType ==
    ASSUME Groups, NEW sc \in Table, NEW ok, NEW event, UpdateSmsStatus(sc, ok, event)
    PROVE  /\ alive' \in BOOLEAN /\ TimersOK'
           /\ good' \in SUBSET Texts /\ bad' \in SUBSET Texts /\ anonymous' = anonymous
<1>1. TimersOK'
  BY DeletedType DEF Groups, TimersOK, UpdateSmsStatus
<1>2. alive' \in BOOLEAN
  BY Zenon DEF Groups, TextsOK, UpdateSmsStatus
<1>3. good' \in SUBSET Texts /\ bad' \in SUBSET Texts
  BY DEF Groups, TextsOK, UpdateSmsStatus, HasId
<1>4. QED
  BY <1>1, <1>2, <1>3 DEF UpdateSmsStatus

LEMMA FilesType ==
    ASSUME Groups, NEW ok, NEW event, Files(ok, event)
    PROVE  alive' \in BOOLEAN /\ TimersOK' /\ TextsOK'
<1>1. /\ UpdateSmsStatus(sched, ok, event)
      /\ info' = (info /\ ~event)
      /\ UNCHANGED <<text, inSpan, retry, oldRetry, stuck, sends>>
  BY DEF Files
<1>2. /\ alive' \in BOOLEAN /\ TimersOK'
      /\ good' \in SUBSET Texts /\ bad' \in SUBSET Texts /\ anonymous' = anonymous
  BY <1>1, UpdateSmsStatusType DEF Groups, TimersOK
<1>3. info' \in BOOLEAN /\ (info' => info)
  BY Zenon, <1>1 DEF Groups, TextsOK
<1>4. TextsOK'
  BY <1>1, <1>2, <1>3 DEF Groups, TextsOK
<1>5. QED
  BY <1>2, <1>4

LEMMA Names ==
    /\ {"INIT", "INIT_HI", "READY", "SMS_SENDING", "SMS_SENT", "CALL_INIT", "CALL_PROCEEDING",
        "CALL_PROGRESS", "PRE_ANSWER", "CALL_ACTIVE", "RING", "RINGING", "HANGUP_REQ"}
          \subseteq States
    /\ {"WIND", "ATD", "ATH", "ATA", "CMGF", "CSCS", "CMGS", "ELSE"} \subseteq Commands
BY DEF States, InitStates, SmsStates, CallStates, Commands

(***************************************************************************)
(* Lines that restart the modem, and its initialisation.                   *)
(***************************************************************************)
LEMMA RebootType == ASSUME Groups, NEW l, Reboot(l) PROVE Groups'
<1>1. ModemOK'
  BY Names DEF Groups, ModemOK, Reboot
<1>2. CallsOK'
  <2>1. calls' \in Pool
    <3>1. [Here EXCEPT ![cref].live = FALSE] \in Pool
      BY HereType DEF Groups, Pool, Records
    <3>2. QED
      BY <3>1, HereType DEF Groups, Reboot
  <2>2. QED
    BY <2>1 DEF Groups, CallsOK, Reboot
<1>3. QED
  BY <1>1, <1>2, UnchangedType DEF Groups, Reboot

LEMMA InitMovesType ==
    ASSUME ModemOK, NEW l, NEW s \in States, InitMoves(s, l) PROVE ModemOK'
BY CmeType, RegType, Names DEF InitMoves, ModemOK

LEMMA InitReadsType == ASSUME Groups, NEW l, InitReads(l) PROVE Groups'
<1>1. alive' \in BOOLEAN /\ TextsOK'
  BY UnchangedType DEF Groups, InitReads
<1>2. InitStates \subseteq States
  BY DEF States
<1>3. CASE EventDown(l, InitMoves("INIT", l))
  <2>1. (InitMoves("INIT", l) \/ ModemOK') /\ TimersOK' /\ CallsOK' /\ DialOK'
    BY <1>3, EventDownType
  <2>2. QED
    BY <1>1, <2>1, InitMovesType, Names DEF Groups
<1>4. CASE /\ state' = "INIT"
           /\ lastSent' = "WIND"
           /\ registered' = FALSE
           /\ UNCHANGED cme
           /\ Reads /\ UNCHANGED <<timerVars, dialVars>>
  <2>1. ModemOK'
    BY <1>4, Names DEF Groups, ModemOK
  <2>2. QED
    BY <1>1, <1>4, <2>1, ReadsType, UnchangedType DEF Groups
<1>5. CASE /\ \E s \in InitStates : InitMoves(s, l)
           /\ Reads /\ UNCHANGED <<timerVars, dialVars>>
  <2>1. ModemOK'
    BY <1>2, <1>5, InitMovesType DEF Groups
  <2>2. QED
    BY <1>1, <1>5, <2>1, ReadsType, UnchangedType DEF Groups
<1>9. CASE /\ \E s \in InitStates : InitMoves(s, l)
           /\ up' = TRUE
           /\ calls' = Here
           /\ sched' = Swept(sched)
           /\ retrans' = 0
           /\ UNCHANGED <<cref, gsmcall, answerRetry, smsSched, hangupSched, dialVars>>
  <2>1. ModemOK'
    BY <1>2, <1>9, InitMovesType DEF Groups
  <2>2. CallsOK'
    BY <1>9, HereType DEF Groups, CallsOK
  <2>3. TimersOK'
    BY <1>9, OrphanedType DEF Groups, TimersOK
  <2>4. QED
    BY <1>1, <1>9, <2>1, <2>2, <2>3, UnchangedType DEF Groups
<1>10. CASE /\ Assign("INIT", l)
            /\ \E s \in Slots : /\ LowestFree(sched, s)
                                /\ sched' = [sched EXCEPT ![s] = Timer("start", cref)]
                                /\ retrans' = s
            /\ Reads /\ UNCHANGED <<smsSched, hangupSched, dialVars>>
  <2>1. ModemOK'
    BY <1>10, AssignType, Names DEF Groups
  <2>2. cref \in Crefs \cup {NoCref} /\ sched \in Table
    BY DEF Groups, CallsOK, TimersOK
  <2>3. sched' \in Table /\ retrans' \in Slots
    BY <1>10, <2>2, TimerType DEF Table
  <2>4. TimersOK'
    BY <1>10, <2>3 DEF Groups, TimersOK
  <2>5. QED
    BY <1>1, <1>10, <2>1, <2>4, ReadsType, UnchangedType DEF Groups
<1>6. CASE EventDown(l, \E s \in InitStates : InitMoves(s, l))
  <2>1. ((\E s \in InitStates : InitMoves(s, l)) \/ ModemOK') /\ TimersOK' /\ CallsOK' /\ DialOK'
    BY <1>6, EventDownType
  <2>2. QED
    BY <1>1, <1>2, <2>1, InitMovesType DEF Groups
<1>7. CASE Switch("READY", "ELSE", l) /\ Reads /\ UNCHANGED <<timerVars, dialVars>>
  <2>1. ModemOK'
    BY <1>7, SwitchType, Names DEF Groups
  <2>2. QED
    BY <1>1, <1>7, <2>1, ReadsType, UnchangedType DEF Groups
<1>8. QED
  BY <1>3, <1>4, <1>5, <1>6, <1>7, <1>9, <1>10 DEF InitReads

(***************************************************************************)
(* Lines in READY and during calls.                                        *)
(***************************************************************************)
LEMMA ReleaseType == ASSUME Groups, NEW l, Release(l) PROVE Groups'
<1>1. ModemOK'
  BY AssignType, Names DEF Groups, Release
<1>5. gsmcall' = NoCref /\ calls' \in Pool /\ sched' \in Table
  <2>1. Destroyed(Here, cref) \in Pool /\ Orphaned(sched, cref) \in Table
    BY HereType, DestroyedType, OrphanedType DEF Groups, TimersOK
  <2>2. QED
    BY <2>1, EventHangupType DEF Groups, Release
<1>2. TimersOK'
  BY <1>5 DEF Groups, TimersOK, Release
<1>3. CallsOK'
  BY <1>5 DEF Groups, CallsOK, Release
<1>4. QED
  BY <1>1, <1>2, <1>3, UnchangedType DEF Groups, Release

LEMMA ReadyCountsType == ASSUME Groups, NEW l, ReadyCounts(l) PROVE Groups'
<1>1. [Here EXCEPT ![cref].rung = TRUE] \in Pool
  BY HereType DEF Groups, Pool, Records
<1>2. CallsOK'
  BY <1>1 DEF Groups, CallsOK, ReadyCounts
<1>3. QED
  BY <1>2, UnchangedType DEF Groups, ReadyCounts

LEMMA ReadyAnnouncesType == ASSUME Groups, NEW l, ReadyAnnounces(l) PROVE Groups'
<1>1. alive' \in BOOLEAN /\ TextsOK'
  BY UnchangedType DEF Groups, ReadyAnnounces
<1>2. Announced \in Pool /\ sched \in Table
  BY AnnouncedType DEF Groups, TimersOK
<1>3. CASE /\ Assign("RING", l)
           /\ calls' = Announced
           /\ gsmcall' = cref
           /\ UNCHANGED <<sched, hangupSched, dialVars>>
  <2>1. ModemOK'
    BY <1>3, AssignType, Names DEF Groups
  <2>2. CallsOK'
    BY <1>2, <1>3 DEF Groups, CallsOK, ReadyAnnounces
  <2>3. TimersOK' /\ DialOK'
    BY <1>3, UnchangedType DEF Groups, ReadyAnnounces, timerVars
  <2>4. QED
    BY <1>1, <2>1, <2>2, <2>3 DEF Groups
<1>4. CASE /\ AllogsmHangup(sched, Announced, cref, HangsUp(l), Assign("RING", l))
           /\ gsmcall' = NoCref
  <2>1. /\ HangsUp(l) \/ Assign("RING", l)
        /\ DialOK' /\ sched' \in Table /\ hangupSched' \in Slots \cup {0} /\ calls' \in Pool
    BY <1>2, <1>4, AllogsmHangupType DEF Groups
  <2>2. ModemOK'
    BY <2>1, HangsUpType, AssignType, Names DEF Groups
  <2>3. CallsOK'
    BY <1>4, <2>1 DEF Groups, CallsOK, ReadyAnnounces
  <2>4. TimersOK'
    BY <2>1 DEF Groups, TimersOK, ReadyAnnounces
  <2>5. QED
    BY <1>1, <2>1, <2>2, <2>3, <2>4 DEF Groups
<1>5. QED
  BY <1>3, <1>4 DEF ReadyAnnounces

LEMMA ReadyNetworkType == ASSUME Groups, NEW l, ReadyNetwork(l) PROVE Groups'
<1>1. alive' \in BOOLEAN /\ TextsOK'
  BY UnchangedType DEF Groups, ReadyNetwork
<1>2. CASE EventDown(l, Assign("INIT", l))
  <2>1. (Assign("INIT", l) \/ ModemOK') /\ TimersOK' /\ CallsOK' /\ DialOK'
    BY <1>2, EventDownType
  <2>2. QED
    BY <1>1, <2>1, AssignType, Names DEF Groups
<1>3. CASE EventDown(l, InitMoves("INIT", l))
  <2>1. (InitMoves("INIT", l) \/ ModemOK') /\ TimersOK' /\ CallsOK' /\ DialOK'
    BY <1>3, EventDownType
  <2>2. QED
    BY <1>1, <2>1, InitMovesType, Names DEF Groups
<1>4. CASE /\ Switch("READY", "", l) \/ Assign("READY", l)
           /\ up' = TRUE
           /\ calls' = Here
           /\ UNCHANGED <<timerVars, cref, gsmcall, answerRetry, dialVars>>
  <2>1. ModemOK'
    BY <1>4, SwitchType, AssignType, Names DEF Groups
  <2>2. CallsOK'
    BY <1>4, HereType DEF Groups, CallsOK
  <2>3. QED
    BY <1>1, <1>4, <2>1, <2>2, UnchangedType DEF Groups
<1>5. QED
  BY <1>2, <1>3, <1>4 DEF ReadyNetwork

LEMMA PreAnswerFailsType == ASSUME Groups, NEW l, PreAnswerFails(l) PROVE Groups'
<1>1. alive' \in BOOLEAN /\ TextsOK'
  BY UnchangedType DEF Groups, PreAnswerFails
<1>2. answerRetry' \in 0..AnswerRetries
  <2>1. answerRetry \in 0..AnswerRetries
        /\ answerRetry' = IF answerRetry < AnswerRetries THEN answerRetry + 1 ELSE answerRetry
    BY DEF Groups, CallsOK, PreAnswerFails
  <2>2. QED
    BY <2>1, Bounds
<1>3. Here \in Pool /\ sched \in Table
  BY HereType DEF Groups, TimersOK
<1>4. CASE /\ Switch("PRE_ANSWER", "ATA", l)
           /\ calls' = Here
           /\ UNCHANGED <<gsmcall, sched, hangupSched, dialVars>>
  <2>1. ModemOK'
    BY <1>4, SwitchType, Names DEF Groups
  <2>2. CallsOK'
    BY <1>2, <1>3, <1>4 DEF Groups, CallsOK, PreAnswerFails
  <2>3. TimersOK' /\ DialOK'
    BY <1>4, UnchangedType DEF Groups, PreAnswerFails, timerVars
  <2>4. QED
    BY <1>1, <2>1, <2>2, <2>3 DEF Groups
<1>5. CASE /\ AllogsmHangup(sched, Here, cref, HangsUp(l), Assign("PRE_ANSWER", l))
           /\ gsmcall' = IF gsmcall = NoCref THEN NoCref ELSE Stale
  <2>1. /\ HangsUp(l) \/ Assign("PRE_ANSWER", l)
        /\ DialOK' /\ sched' \in Table /\ hangupSched' \in Slots \cup {0} /\ calls' \in Pool
    BY <1>3, <1>5, AllogsmHangupType DEF Groups
  <2>2. ModemOK'
    BY <2>1, HangsUpType, AssignType, Names DEF Groups
  <2>3. CallsOK'
    BY <1>2, <1>5, <2>1 DEF Groups, CallsOK, PreAnswerFails
  <2>4. TimersOK'
    BY <2>1 DEF Groups, TimersOK, PreAnswerFails
  <2>5. QED
    BY <1>1, <2>1, <2>2, <2>3, <2>4 DEF Groups
<1>6. QED
  BY <1>4, <1>5 DEF PreAnswerFails

LEMMA ReadyThenHangsUpType ==
    ASSUME ModemOK, NEW l, ReadyThenHangsUp(l) PROVE ModemOK'
<1>1. registered' \in BOOLEAN
  BY Zenon, RegType DEF ReadyThenHangsUp
<1>2. cme' \in 0..(CmeLimit + 1)
  BY CmeType, Zeros DEF ReadyThenHangsUp
<1>3. QED
  BY <1>1, <1>2, Names DEF ReadyThenHangsUp, ModemOK

LEMMA ActiveEndsType == ASSUME Groups, NEW l, ActiveEnds(l) PROVE Groups'
<1>1. alive' \in BOOLEAN /\ TextsOK'
  BY UnchangedType DEF Groups, ActiveEnds
<1>2. Ended \in Pool /\ sched \in Table
  BY EndedType DEF Groups, TimersOK
<1>3. /\ ReadyThenHangsUp(l) \/ Switch("READY", "ELSE", l)
      /\ DialOK' /\ sched' \in Table /\ hangupSched' \in Slots \cup {0} /\ calls' \in Pool
  BY <1>2, AllogsmHangupType DEF Groups, ActiveEnds
<1>4. ModemOK'
  BY <1>3, ReadyThenHangsUpType, SwitchType, Names DEF Groups
<1>5. CallsOK'
  BY <1>3 DEF Groups, CallsOK, ActiveEnds
<1>6. TimersOK'
  BY <1>3 DEF Groups, TimersOK, ActiveEnds
<1>7. QED
  BY <1>1, <1>3, <1>4, <1>5, <1>6 DEF Groups

LEMMA DialGivenUpType == ASSUME Groups, NEW l, DialGivenUp(l) PROVE Groups'
<1>1. alive' \in BOOLEAN /\ TextsOK' /\ DialOK'
  BY UnchangedType DEF Groups, DialGivenUp
<1>2. Here \in Pool /\ sched \in Table
  BY HereType DEF Groups, TimersOK
<1>3. CASE /\ ArmHangup(sched, 0)
           /\ Switch("HANGUP_REQ", "ATH", l)
           /\ calls' = Here
           /\ UNCHANGED gsmcall
  <2>1. ModemOK'
    BY <1>3, SwitchType, Names DEF Groups
  <2>2. CallsOK'
    BY <1>2, <1>3 DEF Groups, CallsOK, DialGivenUp
  <2>3. TimersOK'
    BY <1>2, <1>3, ArmHangupType DEF Groups, TimersOK, DialGivenUp
  <2>4. QED
    BY <1>1, <2>1, <2>2, <2>3 DEF Groups
<1>4. CASE /\ state' = "READY"
           /\ lastSent' = "ATH"
           /\ registered' = Reg(l)
           /\ cme' = Cme(l)
           /\ \E s \in Slots :
                 /\ LowestFree(sched, s)
                 /\ hangupSched' = s
                 /\ EventHangup(Destroyed(Here, cref),
                                Orphaned([sched EXCEPT ![s] = Timer("hangup", NoCref)], cref))
  <2>1. ModemOK'
    BY <1>4, CmeType, RegType, Names DEF Groups, ModemOK
  <2>2. gsmcall' = NoCref /\ calls' \in Pool /\ sched' \in Table /\ hangupSched' \in Slots
    <3>1. PICK s \in Slots :
             /\ hangupSched' = s
             /\ EventHangup(Destroyed(Here, cref),
                            Orphaned([sched EXCEPT ![s] = Timer("hangup", NoCref)], cref))
      BY <1>4
    <3>2. [sched EXCEPT ![s] = Timer("hangup", NoCref)] \in Table
      BY <1>2, TimerType DEF Table
    <3>3. QED
      BY <1>2, <3>1, <3>2, EventHangupType, DestroyedType, OrphanedType DEF Groups
  <2>3. CallsOK'
    BY <2>2 DEF Groups, CallsOK, DialGivenUp
  <2>4. TimersOK'
    BY <2>2 DEF Groups, TimersOK, DialGivenUp
  <2>5. QED
    BY <1>1, <2>1, <2>3, <2>4 DEF Groups
<1>5. QED
  BY <1>3, <1>4 DEF DialGivenUp

LEMMA HangupEndsType == ASSUME Groups, NEW l, HangupEnds(l) PROVE Groups'
<1>1. ModemOK'
  BY AssignType, Names DEF Groups, HangupEnds
<1>3. gsmcall' = NoCref /\ calls' \in Pool /\ sched' \in Table
  <2>1. Deleted(sched, hangupSched) \in Table
    BY DeletedType DEF Groups, TimersOK
  <2>2. QED
    BY <2>1, EndedType, EventHangupType DEF Groups, HangupEnds
<1>2. TimersOK'
  BY <1>3 DEF Groups, TimersOK, HangupEnds
<1>4. CallsOK'
  BY <1>3 DEF Groups, CallsOK, HangupEnds
<1>5. QED
  BY <1>1, <1>2, <1>4, UnchangedType DEF Groups, HangupEnds

\* RING, PRE_ANSWER, a dial that proceeds, a refused second call: nothing but
\* the modem's state changes.
LEMMA PlainCallType ==
    ASSUME Groups, NEW l,
           RingRings(l) \/ PreAnswerOk(l) \/ ActiveWaiting(l) \/ Proceeds(l) \/ Ignores(l)
    PROVE  Groups'
<1>1. ReadsOnly
  BY DEF RingRings, PreAnswerOk, ActiveWaiting, Proceeds, Ignores
<1>2. ModemOK'
  <2>1. CASE RingRings(l) \/ PreAnswerOk(l)
    BY <2>1, AssignType, Names DEF Groups, RingRings, PreAnswerOk
  <2>2. CASE ActiveWaiting(l)
    BY <2>2, SwitchType, Names DEF Groups, ActiveWaiting
  <2>3. CASE Proceeds(l)
    <3>1. Switch("CALL_PROCEEDING", "", l) \/ Assign("CALL_PROGRESS", l) \/ Assign("CALL_ACTIVE", l)
      BY <2>3 DEF Proceeds
    <3>2. QED
      BY <3>1, SwitchType, AssignType, Names DEF Groups
  <2>4. CASE Ignores(l)
    <3>1. Assign(state, l) /\ state \in States
      BY <2>4 DEF Ignores, Groups, ModemOK
    <3>2. QED
      BY <3>1, AssignType DEF Groups
  <2>5. QED
    BY <2>1, <2>2, <2>3, <2>4
<1>3. QED
  BY <1>1, <1>2, ReadsOnlyType

LEMMA CallLineType == ASSUME Groups, NEW l, CallLine(l) PROVE Groups'
BY ReleaseType, ReadyCountsType, ReadyAnnouncesType, PlainCallType, PreAnswerFailsType,
   ActiveEndsType, DialGivenUpType, HangupEndsType DEF CallLine

(***************************************************************************)
(* Lines during a text.                                                    *)
(***************************************************************************)
LEMMA NextCommandType == ASSUME NEW c \in Commands PROVE NextCommand[c] \in Commands
BY Names DEF NextCommand

LEMMA SendingContinuesType == ASSUME Groups, NEW l, SendingContinues(l) PROVE Groups'
<1>1. CASE Switch("SMS_SENDING", NextCommand[lastSent], l)
  <2>1. NextCommand[lastSent] \in Commands
    BY NextCommandType DEF Groups, ModemOK
  <2>2. ModemOK'
    BY <1>1, <2>1, SwitchType, Names DEF Groups
  <2>3. QED
    BY <2>2, ReadsOnlyType DEF SendingContinues
<1>2. CASE Assign("SMS_SENDING", l)
  <2>1. ModemOK'
    BY <1>2, AssignType, Names DEF Groups
  <2>2. QED
    BY <2>1, ReadsOnlyType DEF SendingContinues
<1>3. QED
  BY <1>1, <1>2 DEF SendingContinues

LEMMA PromptedType == ASSUME Groups, NEW l, Prompted(l) PROVE Groups'
<1>1. ModemOK'
  BY SwitchType, Names DEF Groups, Prompted
<1>2. sends' \in 0..(SmsRetries + 2)
  <2>1. sends \in 0..(SmsRetries + 2)
        /\ sends' \in {sends} \cup (IF sends < SmsRetries + 2 THEN {sends + 1} ELSE {})
    BY DEF Groups, TextsOK, Prompted
  <2>2. QED
    BY <2>1, Bounds
<1>3. TextsOK'
  BY <1>2 DEF Groups, TextsOK, Prompted
<1>4. CallsOK' /\ TimersOK' /\ DialOK' /\ alive' \in BOOLEAN
  BY ReadsType, UnchangedType DEF Groups, Prompted
<1>5. QED
  BY <1>1, <1>3, <1>4 DEF Groups

LEMMA SmsNetworkType == ASSUME Groups, NEW l, SmsNetwork(l) PROVE Groups'
<1>1. ModemOK'
  <2>1. state \in States /\ (Switch("SMS_SENDING", "CMGF", l) \/ Assign(state, l))
    BY DEF Groups, ModemOK, SmsNetwork
  <2>2. QED
    BY <2>1, SwitchType, AssignType, Names DEF Groups
<1>2. stuck' \in BOOLEAN
  BY Zenon, RegType DEF SmsNetwork
<1>3. TextsOK'
  BY <1>2 DEF Groups, TextsOK, SmsNetwork
<1>4. CallsOK' /\ TimersOK' /\ DialOK' /\ alive' \in BOOLEAN
  BY ReadsType, UnchangedType DEF Groups, SmsNetwork
<1>5. QED
  BY <1>1, <1>3, <1>4 DEF Groups

\* The text gets its verdict and the modem is READY again.
LEMMA FiledType ==
    ASSUME Groups, NEW l, SendingFails(l) \/ SmsRing(l) \/ SentOk(l) \/ SentNoise(l)
    PROVE  Groups'
<1>1. PICK ok, event \in BOOLEAN, c \in Commands \cup {""} :
         /\ Files(ok, event)
         /\ Switch("READY", c, l)
         /\ Reads /\ UNCHANGED dialVars
  <2>1. CASE SendingFails(l)
    <3>1. (IF l = "BLANK" THEN "ELSE" ELSE "") \in Commands \cup {""}
      BY Names
    <3>2. QED
      BY <2>1, <3>1 DEF SendingFails
  <2>2. CASE SmsRing(l)
    <3>1. (IF state = "SMS_SENDING" THEN "ELSE" ELSE "") \in Commands \cup {""}
      BY Names
    <3>2. QED
      BY <2>2, <3>1 DEF SmsRing
  <2>3. CASE SentOk(l)
    BY <2>3 DEF SentOk
  <2>4. CASE SentNoise(l)
    BY <2>4, Names DEF SentNoise
  <2>5. QED
    BY <2>1, <2>2, <2>3, <2>4
<1>2. ModemOK'
  BY <1>1, SwitchType, Names DEF Groups
<1>3. alive' \in BOOLEAN /\ TimersOK' /\ TextsOK'
  BY <1>1, FilesType
<1>4. QED
  BY <1>1, <1>2, <1>3, ReadsType, UnchangedType DEF Groups

LEMMA SendingNoiseType == ASSUME Groups, NEW l, SendingNoise(l) PROVE Groups'
BY UnchangedType DEF Groups, SendingNoise

LEMMA TriesType ==
    ASSUME TextsOK
    PROVE  /\ Tries \in 0..(SmsRetries + 1)
           /\ Tries < SmsRetries => retry + 1 \in 0..(SmsRetries + 1)
<1>1. Tries = retry \/ Tries = SmsRetries + 1
  BY Zenon DEF Tries
<1>2. retry \in 0..(SmsRetries + 1)
  BY DEF TextsOK
<1>3. QED
  BY <1>1, <1>2, Bounds

LEMMA SentRetriesType == ASSUME Groups, NEW l, SentRetries(l) PROVE Groups'
<1>1. ModemOK'
  BY SwitchType, Names DEF Groups, SentRetries
<1>2. TextsOK'
  BY TriesType DEF Groups, TextsOK, SentRetries
<1>3. CallsOK' /\ TimersOK' /\ DialOK' /\ alive' \in BOOLEAN
  BY ReadsType, UnchangedType DEF Groups, SentRetries
<1>4. QED
  BY <1>1, <1>2, <1>3 DEF Groups

LEMMA SentFailsType == ASSUME Groups, NEW l, SentFails(l) PROVE Groups'
<1>1. ModemOK'
  <2>1. Switch("INIT", "WIND", l) \/ Switch("READY", "", l)
    BY DEF SentFails
  <2>2. QED
    BY <2>1, SwitchType, Names DEF Groups
<1>2. /\ alive' \in BOOLEAN /\ TimersOK'
      /\ good' \in SUBSET Texts /\ bad' \in SUBSET Texts /\ anonymous' = anonymous
  <2>1. sched \in Table /\ UpdateSmsStatus(sched, FALSE, TRUE)
    BY DEF Groups, TimersOK, SentFails
  <2>2. QED
    BY <2>1, UpdateSmsStatusType
<1>3. TextsOK'
  BY <1>2, TriesType DEF Groups, TextsOK, SentFails
<1>4. CallsOK' /\ DialOK'
  BY ReadsType, UnchangedType DEF Groups, SentFails
<1>5. QED
  BY <1>1, <1>2, <1>3, <1>4 DEF Groups

LEMMA SmsLineType == ASSUME Groups, NEW l, SmsLine(l) PROVE Groups'
BY SendingContinuesType, PromptedType, SmsNetworkType, FiledType, SendingNoiseType,
   SentRetriesType, SentFailsType DEF SmsLine

LEMMA LineType == ASSUME Typed, NEW l, Line(l) PROVE Typed'
<1>1. Groups'
  BY RebootType, InitReadsType, ReadyNetworkType, PlainCallType, CallLineType, SmsLineType
     DEF Typed, Line
<1>2. QED
  BY <1>1 DEF Typed, Line

(***************************************************************************)
(* Timers.                                                                 *)
(***************************************************************************)
LEMMA TimedOutTriesType ==
    ASSUME TextsOK
    PROVE  TimedOutTries \in 0..(SmsRetries + 1)
<1>1. TimedOutTries = retry \/ TimedOutTries = SmsRetries + 1
  BY Zenon DEF TimedOutTries
<1>2. retry \in 0..(SmsRetries + 1)
  BY DEF TextsOK
<1>3. QED
  BY <1>1, <1>2, Bounds

LEMMA SmsTimerType == ASSUME Typed, NEW s \in Slots, SmsTimer(s) PROVE Typed'
<1>1. Groups /\ Cleared(s) \in Table
  BY ClearedType DEF Typed, Groups
<1>2. CallsOK' /\ DialOK' /\ dialRetry' \in 0..DialLimit
  BY UnchangedType DEF Typed, Groups, SmsTimer
<1>3. CASE SmsTimerLate(s)
  <2>1. TimersOK' /\ alive' \in BOOLEAN
    BY <1>1, <1>3 DEF Groups, TimersOK, SmsTimerLate
  <2>2. ModemOK'
    BY <1>1, <1>3, UnchangedType DEF Groups, SmsTimerLate
  <2>3. TextsOK'
    BY <1>1, <1>3 DEF Groups, TextsOK, SmsTimerLate, SmsTimer
  <2>4. QED
    BY <1>2, <2>1, <2>2, <2>3 DEF Typed, Groups
<1>4. CASE SmsTimerRetries(s)
  <2>1. TimersOK' /\ alive' \in BOOLEAN
    BY <1>1, <1>4, ArmSmsType DEF Groups, TimersOK, SmsTimerRetries
  <2>2. ModemOK'
    BY <1>1, <1>4, SwitchType, Names DEF Groups, SmsTimerRetries
  <2>3. retry \in -1..(SmsRetries + 1)
    <3>1. retry \in 0..(SmsRetries + 1)
      BY <1>1 DEF Groups, TextsOK
    <3>2. QED
      BY <3>1, Bounds
  <2>4. TextsOK'
    BY <1>1, <1>4, <2>3 DEF Groups, TextsOK, SmsTimerRetries, SmsTimer
  <2>5. QED
    BY <1>2, <2>1, <2>2, <2>4 DEF Typed, Groups
<1>5. CASE SmsTimerGivesUp(s)
  <2>1. /\ alive' \in BOOLEAN /\ TimersOK'
        /\ good' \in SUBSET Texts /\ bad' \in SUBSET Texts /\ anonymous' = anonymous
    BY <1>1, <1>5, UpdateSmsStatusType DEF SmsTimerGivesUp
  <2>2. ModemOK'
    BY <1>1, <1>5, SwitchType, Names DEF Groups, SmsTimerGivesUp
  <2>3. retry' \in 0..(SmsRetries + 1)
    BY <1>1, <1>5, TimedOutTriesType DEF Groups, SmsTimerGivesUp
  <2>4. TextsOK'
    BY <1>1, <1>5, <2>1, <2>3 DEF Groups, TextsOK, SmsTimerGivesUp, SmsTimer
  <2>5. QED
    BY <1>2, <2>1, <2>2, <2>4 DEF Typed, Groups
<1>6. QED
  BY <1>3, <1>4, <1>5 DEF SmsTimer

LEMMA HangupTimerType == ASSUME Typed, NEW s \in Slots, HangupTimer(s) PROVE Typed'
<1>1. Groups /\ Cleared(s) \in Table
  BY ClearedType DEF Typed, Groups
<1>2. /\ CallsOK' /\ DialOK' /\ TextsOK'
      /\ dialRetry' \in 0..DialLimit /\ alive' \in BOOLEAN
  BY UnchangedType DEF Typed, Groups, HangupTimer
<1>3. CASE HangupRepeats(s)
  <2>1. TimersOK'
    BY <1>1, <1>3, ArmHangupType DEF Groups, TimersOK, HangupRepeats, HangupTimer
  <2>2. ModemOK'
    BY <1>1, <1>3, SwitchType, Names DEF Groups, HangupRepeats
  <2>3. QED
    BY <1>2, <2>1, <2>2 DEF Typed, Groups
<1>4. CASE /\ sched' = Cleared(s)
           /\ UNCHANGED <<modemVars, hangupSched>>
  <2>1. TimersOK'
    BY <1>1, <1>4 DEF Groups, TimersOK, HangupTimer
  <2>2. ModemOK'
    BY <1>1, <1>4, UnchangedType DEF Groups
  <2>3. QED
    BY <1>2, <2>1, <2>2 DEF Typed, Groups
<1>5. QED
  BY <1>3, <1>4 DEF HangupTimer

LEMMA ModuleDialType ==
    ASSUME ModemOK, DialOK, NEW sc \in Table, hangupSched \in Slots \cup {0}, ModuleDial(sc)
    PROVE  /\ ModemOK' /\ DialOK'
           /\ sched' \in Table /\ hangupSched' \in Slots \cup {0}
           /\ dialRetry' \in 0..DialLimit
<1>1. ModemOK'
  BY SwitchType, Names DEF ModuleDial
<1>2. DialOK'
  BY DEF ModuleDial, DialOK
<1>3. dialRetry' \in 0..DialLimit
  BY Zeros DEF ModuleDial
<1>4. QED
  BY <1>1, <1>2, <1>3 DEF ModuleDial

LEMMA DialCountType ==
    ASSUME dialRetry \in 0..DialLimit
    PROVE  (IF dialRetry < DialLimit THEN dialRetry + 1 ELSE dialRetry) \in 0..DialLimit
BY Bounds

\* allogsm_hangup called by the driver or by gsm_dial_retry.
LEMMA HangupCallType ==
    ASSUME Groups, NEW sc \in Table, NEW c,
           AllogsmHangup(sc, calls, c, HangsUp(NoLine), ModemStays)
    PROVE  /\ ModemOK' /\ DialOK'
           /\ sched' \in Table /\ hangupSched' \in Slots \cup {0}
           /\ calls' \in Pool
<1>1. calls \in Pool /\ TimersOK /\ DialOK /\ ModemOK
  BY DEF Groups, CallsOK
<1>2. /\ HangsUp(NoLine) \/ ModemStays
      /\ DialOK' /\ sched' \in Table /\ hangupSched' \in Slots \cup {0} /\ calls' \in Pool
  BY <1>1, AllogsmHangupType
<1>3. QED
  BY <1>1, <1>2, HangsUpType, UnchangedType DEF ModemStays

LEMMA DialWaitsType ==
    ASSUME Typed, NEW s \in Slots, NEW c \in Crefs \cup {NoCref}, DialWaits(s, c)
    PROVE  /\ ModemOK' /\ DialOK'
           /\ sched' \in Table /\ hangupSched' \in Slots \cup {0}
           /\ dialRetry' \in 0..DialLimit
           /\ calls' \in Pool /\ gsmcall' = gsmcall
<1>1. dialRetry' \in 0..DialLimit /\ gsmcall' = gsmcall
  BY DialCountType DEF Typed, DialWaits
<1>2. PICK r \in Slots :
         LET sc == [Cleared(s) EXCEPT ![r] = Timer("dial", c)]
         IN  \/ AllogsmHangup(sc, calls, c, HangsUp(NoLine), ModemStays)
             \/ /\ sched' = sc
                /\ UNCHANGED <<modemVars, hangupSched, calls, dialVars>>
  BY DEF DialWaits
<1> DEFINE sc == [Cleared(s) EXCEPT ![r] = Timer("dial", c)]
<1>3. sc \in Table
  BY ClearedType, TimerType DEF Typed, Groups, Table
<1>4. Groups /\ TimersOK /\ calls \in Pool
  BY DEF Typed, Groups, CallsOK
<1> HIDE DEF sc
<1>5. CASE AllogsmHangup(sc, calls, c, HangsUp(NoLine), ModemStays)
  BY <1>1, <1>3, <1>4, <1>5, HangupCallType
<1>6. CASE /\ sched' = sc
           /\ UNCHANGED <<modemVars, hangupSched, calls, dialVars>>
  <2>1. ModemOK' /\ DialOK'
    BY <1>4, <1>6, UnchangedType DEF Groups
  <2>2. QED
    BY <1>1, <1>3, <1>4, <1>6, <2>1 DEF TimersOK
<1>7. QED
  BY <1>2, <1>5, <1>6 DEF sc

LEMMA DialGoesOnType ==
    ASSUME Typed, NEW s \in Slots, NEW c \in Crefs \cup {NoCref}, DialGoesOn(s, c)
    PROVE  /\ ModemOK' /\ DialOK'
           /\ sched' \in Table /\ hangupSched' \in Slots \cup {0}
           /\ dialRetry' \in 0..DialLimit
           /\ calls' \in Pool /\ gsmcall' \in {gsmcall, Stale}
<1>1. /\ Groups /\ calls \in Pool /\ Cleared(s) \in Table
      /\ Dangling(Cleared(s), c) \in Table /\ hangupSched \in Slots \cup {0}
  BY ClearedType, DanglingType DEF Typed, Groups, CallsOK, TimersOK
<1>2. CASE ModuleDial(Cleared(s)) /\ UNCHANGED <<calls, gsmcall>>
  BY <1>1, <1>2, ModuleDialType DEF Groups
<1>3. ASSUME NEW sc \in Table, NEW gone, ModuleHangup(sc, gone, HangsUp(NoLine)),
             UNCHANGED dialRetry,
             calls' \in Pool, gsmcall' \in {gsmcall, Stale}
      PROVE  /\ ModemOK' /\ DialOK'
             /\ sched' \in Table /\ hangupSched' \in Slots \cup {0}
             /\ dialRetry' \in 0..DialLimit
  <2>1. HangsUp(NoLine) /\ DialOK' /\ sched' \in Table /\ hangupSched' \in Slots
    BY <1>1, <1>3, ModuleHangupType
  <2>2. ModemOK'
    BY <1>1, <2>1, HangsUpType DEF Groups
  <2>3. QED
    BY <1>3, <2>1, <2>2 DEF Typed
<1>4. CASE /\ c # NoCref
           /\ ModuleHangup(Dangling(Cleared(s), c), retrans, HangsUp(NoLine))
           /\ calls' = Destroyed(calls, c)
           /\ UNCHANGED <<gsmcall, dialRetry>>
  <2>1. calls' \in Pool /\ gsmcall' \in {gsmcall, Stale}
    BY <1>1, <1>4, DestroyedType
  <2>2. QED
    BY <1>1, <1>3, <1>4, <2>1
<1>5. CASE /\ ModuleHangup(Cleared(s), 0, HangsUp(NoLine))
           /\ UNCHANGED <<calls, gsmcall, dialRetry>>
  BY <1>1, <1>3, <1>5
<1>6. CASE /\ ModuleHangup(Dangling(Cleared(s), cref), retrans, HangsUp(NoLine))
           /\ calls' = Destroyed(calls, cref)
           /\ gsmcall' = IF gsmcall = cref THEN Stale ELSE gsmcall
           /\ UNCHANGED dialRetry
  <2>1. calls' \in Pool /\ gsmcall' \in {gsmcall, Stale}
    BY <1>1, <1>6, DestroyedType
  <2>2. Dangling(Cleared(s), cref) \in Table
    BY <1>1, DanglingType
  <2>3. QED
    BY <1>3, <1>6, <2>1, <2>2
<1>7. QED
  BY <1>2, <1>4, <1>5, <1>6 DEF DialGoesOn

LEMMA DialTimerType == ASSUME Typed, NEW s \in Slots, DialTimer(s) PROVE Typed'
<1>1. TextsOK' /\ smsSched' \in Slots \cup {0} /\ retrans' \in Slots \cup {0}
  BY UnchangedType DEF Typed, Groups, DialTimer, TimersOK
<1>2. CASE /\ DialWaits(s, sched[s].call) \/ DialGoesOn(s, sched[s].call)
           /\ UNCHANGED alive
  <2>1. sched[s].call \in Crefs \cup {NoCref}
    BY DEF Typed, Groups, TimersOK, Table, TimerRecords
  <2>2. /\ ModemOK' /\ DialOK'
        /\ sched' \in Table /\ hangupSched' \in Slots \cup {0}
        /\ dialRetry' \in 0..DialLimit
        /\ calls' \in Pool /\ gsmcall' \in {gsmcall, Stale}
    BY <1>2, <2>1, DialWaitsType, DialGoesOnType
  <2>3. CallsOK'
    BY <2>2 DEF Typed, Groups, CallsOK, DialTimer
  <2>4. QED
    BY <1>1, <1>2, <2>2, <2>3 DEF Typed, Groups, TimersOK
<1>3. CASE /\ alive' = FALSE
           /\ UNCHANGED <<modemVars, sched, hangupSched, calls, gsmcall, dialVars, dialRetry>>
  <2>1. ModemOK' /\ DialOK' /\ dialRetry' \in 0..DialLimit
    BY <1>3, UnchangedType DEF Typed, Groups
  <2>2. TimersOK'
    BY <1>1, <1>3 DEF Typed, Groups, TimersOK
  <2>3. CallsOK'
    BY <1>3 DEF Typed, Groups, CallsOK, DialTimer
  <2>4. QED
    BY <1>1, <1>3, <2>1, <2>2, <2>3 DEF Typed, Groups
<1>4. QED
  BY <1>2, <1>3 DEF DialTimer

LEMMA StartTimerType == ASSUME Typed, NEW s \in Slots, StartTimer(s) PROVE Typed'
<1>1. Groups /\ Cleared(s) \in Table
  BY ClearedType DEF Typed, Groups
<1>2. ModemOK' /\ alive' \in BOOLEAN
  <2>1. CASE Switch("INIT", "ELSE", NoLine) /\ UNCHANGED alive
    BY <1>1, <2>1, SwitchType, Names DEF Groups
  <2>2. CASE alive' = FALSE /\ UNCHANGED modemVars
    BY <1>1, <2>2, UnchangedType DEF Groups
  <2>3. QED
    BY <2>1, <2>2 DEF StartTimer
<1>3. TimersOK'
  BY <1>1 DEF Groups, TimersOK, StartTimer
<1>4. CallsOK' /\ DialOK' /\ TextsOK' /\ dialRetry' \in 0..DialLimit
  BY <1>1, UnchangedType DEF Groups, Typed, StartTimer
<1>5. QED
  BY <1>2, <1>3, <1>4 DEF Typed, Groups

LEMMA ReloadsType == ASSUME Typed, ReloadTimer \/ Reload PROVE Typed'
<1>1. ModemOK'
  <2>1. CASE ReloadTimer
    BY <2>1, Names DEF Typed, Groups, ModemOK, ReloadTimer
  <2>2. CASE Reload
    BY <2>2, Names, Zeros DEF Typed, Groups, ModemOK, Reload
  <2>3. QED
    BY <2>1, <2>2
<1>2. /\ TimersOK' /\ CallsOK' /\ DialOK' /\ TextsOK'
      /\ dialRetry' \in 0..DialLimit /\ alive' \in BOOLEAN
  BY UnchangedType DEF Typed, Groups, ReloadTimer, Reload
<1>3. QED
  BY <1>1, <1>2 DEF Typed, Groups

(***************************************************************************)
(* What the driver and the CLI call.                                       *)
(***************************************************************************)
LEMMA SendTextType == ASSUME Typed, SendText PROVE Typed'
<1>1. Groups /\ sched \in Table
  BY DEF Typed, Groups, TimersOK
<1>2. text' \in 0..MaxTexts /\ text' \in Texts
  <2>1. text \in 0..MaxTexts /\ text < MaxTexts /\ text' = text + 1
    BY <1>1 DEF Groups, TextsOK, SendText
  <2>2. QED
    BY <2>1, Bounds DEF Texts
<1>3. inSpan' \in BOOLEAN
  BY Zenon, SpanAssumption DEF SendText
<1>9. anonymous' \in SUBSET Texts
  <2>1. anonymous' \in {anonymous, anonymous \cup {text'}}
    BY Zenon DEF SendText
  <2>2. QED
    BY <1>1, <1>2, <2>1 DEF Groups, TextsOK
<1>4. TextsOK'
  BY <1>1, <1>2, <1>3, <1>9, Zeros DEF Groups, TextsOK, SendText
<1>5. ModemOK'
  BY <1>1, SwitchType, Names DEF Groups, SendText
<1>6. TimersOK'
  BY <1>1, ArmSmsType DEF Groups, TimersOK, SendText
<1>7. CallsOK' /\ DialOK' /\ alive' \in BOOLEAN /\ dialRetry' \in 0..DialLimit
  BY UnchangedType DEF Typed, Groups, SendText
<1>8. QED
  BY <1>4, <1>5, <1>6, <1>7 DEF Typed, Groups

LEMMA DialType == ASSUME Typed, Dial PROVE Typed'
<1>1. Groups /\ sched \in Table /\ hangupSched \in Slots \cup {0}
  BY DEF Typed, Groups, TimersOK
<1>2. cref + 1 \in Crefs
  <2>1. cref \in Crefs /\ cref < MaxCref
    BY <1>1 DEF Groups, CallsOK, Dial
  <2>2. QED
    BY <2>1, Bounds DEF Crefs
<1>3. [NoCall EXCEPT !.here = TRUE, !.live = TRUE] \in Records
  BY DEF NoCall, Records
<1>4. CallsOK'
  <2>1. calls' \in Pool
    BY <1>1, <1>3 DEF Groups, CallsOK, Pool, Dial
  <2>2. QED
    BY <1>1, <1>2, <2>1 DEF Groups, CallsOK, Dial
<1>5. alive' \in BOOLEAN /\ TextsOK'
  BY <1>1, UnchangedType DEF Groups, Dial
<1>6. CASE /\ ArmDial(sched, cref + 1)
           /\ dialInitiated' = TRUE
           /\ dialRetry' = 0
           /\ UNCHANGED <<modemVars, hangupSched, dialHangup>>
  <2>1. ModemOK'
    BY <1>1, <1>6, UnchangedType DEF Groups
  <2>2. DialOK' /\ dialRetry' \in 0..DialLimit
    BY <1>1, <1>6, Zeros DEF Groups, DialOK
  <2>3. sched' \in Table
    BY <1>1, <1>2, <1>6, ArmDialType
  <2>4. TimersOK'
    BY <1>1, <1>6, <2>3 DEF Groups, TimersOK, Dial
  <2>5. QED
    BY <1>4, <1>5, <2>1, <2>2, <2>4 DEF Typed, Groups
<1>7. CASE ModuleDial(sched)
  <2>1. /\ ModemOK' /\ DialOK'
        /\ sched' \in Table /\ hangupSched' \in Slots \cup {0}
        /\ dialRetry' \in 0..DialLimit
    BY <1>1, <1>7, ModuleDialType DEF Groups
  <2>2. TimersOK'
    BY <1>1, <2>1 DEF Groups, TimersOK, Dial
  <2>3. QED
    BY <1>4, <1>5, <2>1, <2>2 DEF Typed, Groups
<1>8. QED
  BY <1>6, <1>7 DEF Dial

LEMMA HangupType == ASSUME Typed, Hangup PROVE Typed'
<1>1. Groups /\ sched \in Table
  BY DEF Typed, Groups, TimersOK
<1>2. /\ ModemOK' /\ DialOK'
      /\ sched' \in Table /\ hangupSched' \in Slots \cup {0}
      /\ calls' \in Pool
  BY <1>1, HangupCallType DEF Hangup
<1>3. TimersOK' /\ CallsOK'
  BY <1>1, <1>2 DEF Groups, TimersOK, CallsOK, Hangup
<1>4. alive' \in BOOLEAN /\ TextsOK' /\ dialRetry' \in 0..DialLimit
  BY UnchangedType DEF Typed, Groups, Hangup
<1>5. QED
  BY <1>2, <1>3, <1>4 DEF Typed, Groups

LEMMA AnswerType == ASSUME Typed, Answer PROVE Typed'
<1>1. Groups
  BY DEF Typed
<1>2. ModemOK'
  BY <1>1, SwitchType, Names DEF Groups, Answer
<1>3. CallsOK'
  <2>1. calls' \in Pool
    BY <1>1 DEF Groups, CallsOK, Pool, Records, Answer
  <2>2. QED
    BY <1>1, <2>1, Zeros DEF Groups, CallsOK, Answer
<1>4. /\ DialOK' /\ TextsOK'
      /\ dialRetry' \in 0..DialLimit /\ alive' \in BOOLEAN
  BY UnchangedType DEF Typed, Groups, Answer
<1>5. TimersOK'
  BY <1>1, OrphanedType DEF Groups, TimersOK, Answer
<1>6. QED
  BY <1>2, <1>3, <1>4, <1>5 DEF Typed, Groups

LEMMA OtherCommandType == ASSUME Typed, OtherCommand PROVE Typed'
<1>1. ModemOK'
  BY Names DEF Typed, Groups, ModemOK, OtherCommand
<1>2. /\ TimersOK' /\ CallsOK' /\ DialOK' /\ TextsOK'
      /\ dialRetry' \in 0..DialLimit /\ alive' \in BOOLEAN
  BY UnchangedType DEF Typed, Groups, OtherCommand
<1>3. QED
  BY <1>1, <1>2 DEF Typed, Groups

LEMMA TypedStep == Typed /\ [Next]_vars => Typed'
<1> SUFFICES ASSUME Typed, [Next]_vars
             PROVE  Typed'
  OBVIOUS
<1>1. CASE \E l \in Lines : Line(l)
  BY <1>1, LineType
<1>2. CASE Timers
  BY <1>2, ReloadsType, SmsTimerType, HangupTimerType, DialTimerType, StartTimerType
     DEF Timers
<1>3. CASE Api
  BY <1>3, SendTextType, DialType, HangupType, AnswerType, OtherCommandType, ReloadsType DEF Api
<1>4. CASE UNCHANGED vars
  BY <1>4, UnchangedType DEF vars, Typed, Groups
<1>5. QED
  BY <1>1, <1>2, <1>3, <1>4 DEF Next

\* The variables of the span keep their types for every set of lines and every
\* bound: no counter leaves its range, no timer slot or call reference that is
\* used lies outside its table.
THEOREM SpanTyping == Spec => []TypeOK
<1>1. Spec => []Typed
  BY TypedInit, TypedStep, PTL DEF Spec
<1>2. QED
  BY <1>1, TypedIsTypeOK, PTL
------------------------------------------------------------------------------
(***************************************************************************)
(* The timers.  The three kinds share one table and are deleted by         *)
(* remembered slots that may be out of date, so the proof is about which   *)
(* slots a step leaves alone.                                              *)
(***************************************************************************)

(***************************************************************************)
(* Held is inductive.  A verdict deletes the slot that smsTimeoutSched     *)
(* remembers: DialElsewhere says that a deferred dial is not there, unless *)
(* retranstimer is that slot's number too.  Kept is what a step does to a  *)
(* deferred dial.                                                          *)
(***************************************************************************)
DialElsewhere ==
    dialInitiated => \A r \in Slots : sched[r].fn = "dial" => r # smsSched \/ r = retrans
Held == HangupHasTimer /\ SmsHasTimer /\ DialElsewhere
Kept ==
    \/ ~dialInitiated'
    \/ \E r \in Slots : sched'[r].fn = "dial"
    \/ dialInitiated /\ (retrans # 0 \/ \A r \in Slots : sched[r].fn # "dial")
Carried == Held' /\ Kept

\* The table tc has every timer of sc but the ones in the slots D, and no new dial.
Keeps(sc, tc, D) ==
    /\ \A r \in Slots \ D : sc[r].fn # "none" => tc[r].fn = sc[r].fn
    /\ \A r \in Slots : tc[r].fn = "dial" => sc[r].fn = "dial"

\* Slot r of the table tc has a timer of function fn, or retranstimer took it.
Armed(tc, r, fn) == r \in Slots /\ (tc[r].fn = fn \/ r = retrans)

\* The usual step: only the timer that retranstimer names may go, no text
\* begins, no dial is put off, and ATH is only sent with a timer.
Calm ==
    /\ Keeps(sched, sched', {retrans})
    /\ smsSched' = smsSched
    /\ retrans' = retrans
    /\ state' \in SmsStates => state \in SmsStates
    /\ dialInitiated' => dialInitiated
    /\ state' = "HANGUP_REQ" =>
          \/ Armed(sched', hangupSched', "hangup")
          \/ state = "HANGUP_REQ" /\ hangupSched' = hangupSched

LEMMA HeldInit == Init => Held
BY DEF Init, Held, HangupHasTimer, SmsHasTimer, DialElsewhere, SmsStates

LEMMA NotZero == 0 \notin Slots
BY Bounds DEF Slots

LEMMA CalmHolds == ASSUME Groups, Held, Calm PROVE Carried
<1>1. HangupHasTimer'
  BY DEF Held, Calm, HangupHasTimer, Keeps, Armed
<1>2. SmsHasTimer'
  BY DEF Held, Calm, SmsHasTimer, Keeps
<1>3. DialElsewhere'
  BY DEF Held, Calm, DialElsewhere, Keeps
<1>4. Kept
  BY NotZero DEF Calm, Kept, Keeps
<1>5. QED
  BY <1>1, <1>2, <1>3, <1>4 DEF Held, Carried

\* retranstimer is zeroed with the deletion, in a state that needs no timer.
LEMMA ZeroedHolds ==
    ASSUME Groups, Held, sched' = Swept(sched), retrans' = 0, smsSched' = smsSched,
           dialInitiated' = dialInitiated, state' \notin SmsStates \cup {"HANGUP_REQ"}
    PROVE  Carried
<1>1. \A r \in Slots : /\ r # retrans => sched'[r] = sched[r]
                       /\ r = retrans => sched'[r].fn = "none"
  BY DEF Swept, Deleted, Free, Timer
<1>2. HangupHasTimer' /\ SmsHasTimer'
  BY DEF HangupHasTimer, SmsHasTimer
<1>3. DialElsewhere'
  BY <1>1 DEF Held, DialElsewhere
<1>4. Kept
  BY <1>1, NotZero DEF Kept
<1>5. QED
  BY <1>2, <1>3, <1>4 DEF Held, Carried

(***************************************************************************)
(* What the helpers keep.                                                  *)
(***************************************************************************)
LEMMA KeepsSame == ASSUME NEW sc, NEW D PROVE Keeps(sc, sc, D)
BY DEF Keeps

LEMMA FreeIsNone == Free.fn = "none"
BY DEF Free, Timer

LEMMA DanglingKeeps ==
    ASSUME NEW sc \in Table, NEW c
    PROVE  \A r \in Slots : Dangling(sc, c)[r].fn = sc[r].fn
BY DEF Dangling, Timer

LEMMA DeletedKeeps ==
    ASSUME NEW sc \in Table, NEW id
    PROVE  \A r \in Slots : /\ r # id => Deleted(sc, id)[r] = sc[r]
                            /\ r = id => Deleted(sc, id)[r].fn = "none"
BY FreeIsNone DEF Deleted

LEMMA OrphanedKeeps ==
    ASSUME NEW sc \in Table, NEW c
    PROVE  /\ \A r \in Slots : /\ r # retrans => Orphaned(sc, c)[r].fn = sc[r].fn
                               /\ r = retrans => Orphaned(sc, c)[r].fn = "none"
           /\ Keeps(sc, Orphaned(sc, c), {retrans})
<1>1. Dangling(sc, c) \in Table
  BY DanglingType
<1>2. \A r \in Slots : /\ r # retrans => Orphaned(sc, c)[r].fn = sc[r].fn
                       /\ r = retrans => Orphaned(sc, c)[r].fn = "none"
  BY <1>1, DanglingKeeps, DeletedKeeps DEF Orphaned, Swept
<1>3. QED
  BY <1>2 DEF Keeps

LEMMA ClearedKeeps ==
    ASSUME sched \in Table, NEW s \in Slots
    PROVE  \A r \in Slots : /\ r # s => Cleared(s)[r] = sched[r]
                            /\ r = s => Cleared(s)[r].fn = "none"
BY FreeIsNone DEF Cleared, Table

LEMMA KeepsOnce ==
    ASSUME NEW sc, NEW tc, NEW uc, NEW D, NEW E, Keeps(sc, tc, D), Keeps(tc, uc, E)
    PROVE  Keeps(sc, uc, D \cup E)
BY DEF Keeps

LEMMA ArmHangupKeeps ==
    ASSUME NEW sc \in Table, NEW gone, ArmHangup(sc, gone)
    PROVE  /\ Keeps(sc, sched', {gone})
           /\ hangupSched' \in Slots
           /\ sched'[hangupSched'].fn = "hangup" \/ hangupSched' = gone
<1>1. PICK s \in Slots :
        /\ LowestFree(sc, s)
        /\ sched' = Deleted([sc EXCEPT ![s] = Timer("hangup", NoCref)], gone)
        /\ hangupSched' = s
  BY DEF ArmHangup
<1> DEFINE tc == [sc EXCEPT ![s] = Timer("hangup", NoCref)]
<1>2. /\ tc \in Table /\ tc[s].fn = "hangup" /\ sc[s].fn = "none"
      /\ \A r \in Slots : r # s => tc[r] = sc[r]
  BY <1>1, TimerType, FreeIsNone DEF LowestFree, Table
<1>0. sched' = Deleted(tc, gone)
  BY <1>1
<1> HIDE DEF tc
<1>3. /\ \A r \in Slots : /\ r # gone => sched'[r] = tc[r]
                          /\ r = gone => sched'[r].fn = "none"
  BY <1>0, <1>2, DeletedKeeps
<1>4. QED
  BY <1>1, <1>2, <1>3 DEF Keeps

LEMMA ArmSmsKeeps ==
    ASSUME NEW sc \in Table, ArmSms(sc)
    PROVE  /\ Keeps(sc, sched', {}) /\ smsSched' \in Slots /\ sched'[smsSched'].fn = "sms"
           /\ sc[smsSched'] = Free
BY FreeIsNone, TimerType DEF ArmSms, LowestFree, Keeps, Table

LEMMA ArmDialKeeps ==
    ASSUME NEW sc \in Table, NEW c \in Crefs \cup {NoCref}, ArmDial(sc, c)
    PROVE  /\ \A r \in Slots : sc[r].fn # "none" => sched'[r].fn = sc[r].fn
           /\ \E r \in Slots : sc[r] = Free /\ sched'[r].fn = "dial"
BY FreeIsNone, TimerType DEF ArmDial, LowestFree, Table

LEMMA AllogsmHangupKeeps ==
    ASSUME NEW sc \in Table, NEW cs \in Pool, NEW c,
           NEW ACTION Go, NEW ACTION Stay, AllogsmHangup(sc, cs, c, Go, Stay)
    PROVE  /\ Keeps(sc, sched', {retrans})
           /\ dialInitiated' => dialInitiated
           /\ \/ Stay /\ hangupSched' = hangupSched
              \/ Go /\ Armed(sched', hangupSched', "hangup")
<1>1. Orphaned(sc, c) \in Table /\ Keeps(sc, Orphaned(sc, c), {retrans})
  BY OrphanedType, OrphanedKeeps
<1>2. CASE Stay /\ sched' = sc /\ UNCHANGED <<hangupSched, dialInitiated>>
  BY <1>2, KeepsSame
<1>3. CASE Stay /\ sched' = Orphaned(sc, c) /\ UNCHANGED <<hangupSched, dialInitiated>>
  BY <1>1, <1>3
<1>4. CASE Stay /\ sched' = Swept(sc) /\ UNCHANGED <<hangupSched, dialInitiated>>
  BY <1>4, DeletedKeeps DEF Keeps, Swept
<1>5. ASSUME NEW gone \in {0, retrans}, ModuleHangup(Orphaned(sc, c), gone, Go)
      PROVE  /\ Keeps(sc, sched', {retrans}) /\ ~dialInitiated'
             /\ Go /\ Armed(sched', hangupSched', "hangup")
  <2>1. Go /\ ArmHangup(Orphaned(sc, c), gone) /\ dialInitiated' = FALSE
    BY <1>5 DEF ModuleHangup
  <2>2. /\ Keeps(Orphaned(sc, c), sched', {gone}) /\ hangupSched' \in Slots
        /\ sched'[hangupSched'].fn = "hangup" \/ hangupSched' = gone
    BY <1>1, <2>1, ArmHangupKeeps
  <2>3. Keeps(sc, sched', {retrans})
    BY <1>1, <2>2, NotZero DEF Keeps
  <2>4. Armed(sched', hangupSched', "hangup")
    BY <2>2, NotZero DEF Armed
  <2>5. QED
    BY <2>1, <2>3, <2>4
<1>6. (IF cs[c].live THEN retrans ELSE 0) \in {0, retrans}
  OBVIOUS
<1>7. QED
  BY <1>2, <1>3, <1>4, <1>5, <1>6 DEF AllogsmHangup, dialVars

LEMMA SwitchState ==
    ASSUME NEW s, NEW c, NEW l, Switch(s, c, l)
    PROVE  state' = s \/ (s = "READY" /\ state' = "INIT")
BY DEF Switch

LEMMA HangsUpState == ASSUME NEW l, HangsUp(l) PROVE state' = "HANGUP_REQ"
BY SwitchState DEF HangsUp

\* Where allogsm_hangup is a step of its own, the step is calm.
LEMMA AllogsmHangupCalm ==
    ASSUME Groups, NEW cs \in Pool, NEW c, NEW l, NEW ACTION Stay,
           AllogsmHangup(sched, cs, c, HangsUp(l), Stay),
           Stay => state' \notin SmsStates \cup {"HANGUP_REQ"},
           smsSched' = smsSched, retrans' = retrans
    PROVE  Calm
<1>1. sched \in Table
  BY DEF Groups, TimersOK
<1>2. /\ Keeps(sched, sched', {retrans})
      /\ dialInitiated' => dialInitiated
      /\ \/ Stay /\ hangupSched' = hangupSched
         \/ HangsUp(l) /\ Armed(sched', hangupSched', "hangup")
  BY <1>1, AllogsmHangupKeeps
<1>3. QED
  BY <1>2, HangsUpState DEF Calm, SmsStates

LEMMA QuietCalm ==
    ASSUME UNCHANGED timerVars, dialInitiated' = dialInitiated,
           state' \in SmsStates => state \in SmsStates,
           state' = "HANGUP_REQ" => state = "HANGUP_REQ"
    PROVE  Calm
BY KeepsSame DEF Calm, timerVars

(***************************************************************************)
(* The lines that are calm.                                                *)
(***************************************************************************)
LEMMA RebootCalm == ASSUME NEW l, Reboot(l) PROVE Calm
BY QuietCalm DEF Reboot, SmsStates, dialVars

LEMMA EventDownCalm ==
    ASSUME Groups, NEW l, NEW ACTION Stay, EventDown(l, Stay),
           Stay => state' \in InitStates
    PROVE  Calm
<1>1. sched \in Table /\ Here \in Pool
  BY HereType DEF Groups, TimersOK
<1>2. CASE Stay /\ UNCHANGED <<sched, hangupSched, dialVars>>
  BY <1>2, QuietCalm DEF EventDown, timerVars, dialVars, InitStates, SmsStates
<1>3. CASE /\ Stay /\ hangupSched' = hangupSched /\ dialInitiated' = dialInitiated
           /\ \E c \in Crefs : sched' = Orphaned(sched, c)
  <2>1. Keeps(sched, sched', {retrans})
    BY <1>1, <1>3, OrphanedKeeps
  <2>2. QED
    BY <1>3, <2>1 DEF EventDown, Calm, InitStates, SmsStates
<1>4. CASE gsmcall \in Crefs /\ AllogsmHangup(sched, Here, gsmcall, HangsUp(l), Stay)
  <2>1. Stay => state' \notin SmsStates \cup {"HANGUP_REQ"}
    BY DEF InitStates, SmsStates
  <2>2. QED
    BY <1>1, <1>4, <2>1, AllogsmHangupCalm DEF EventDown
<1>5. cref \in Crefs
  BY DEF Groups, CallsOK
<1>6. QED
  BY <1>2, <1>3, <1>4, <1>5 DEF EventDown, dialVars

LEMMA InitReadsHeld == ASSUME Groups, Held, NEW l, InitReads(l) PROVE Carried
<1>1. ASSUME NEW s \in InitStates, InitMoves(s, l)
      PROVE  state' \in InitStates
  BY <1>1 DEF InitMoves
<1>2. CASE EventDown(l, InitMoves("INIT", l))
  <2>1. InitMoves("INIT", l) => state' \in InitStates
    BY <1>1 DEF InitStates
  <2>2. QED
    BY <1>2, <2>1, EventDownCalm, CalmHolds
<1>3. CASE EventDown(l, \E s \in InitStates : InitMoves(s, l))
  <2>1. (\E s \in InitStates : InitMoves(s, l)) => state' \in InitStates
    BY <1>1
  <2>2. QED
    BY <1>3, <2>1, EventDownCalm, CalmHolds
<1>4. CASE UNCHANGED <<timerVars, dialVars>> /\ state' \in InitStates \cup {"READY"}
  BY <1>4, QuietCalm, CalmHolds DEF dialVars, InitStates, SmsStates
<1>5. ASSUME Switch("READY", "ELSE", l)
      PROVE  state' \in InitStates \cup {"READY"}
  BY <1>5, SwitchState DEF InitStates
<1>6. CASE /\ \E s \in InitStates : InitMoves(s, l)
           /\ sched' = Swept(sched) /\ retrans' = 0
           /\ UNCHANGED <<smsSched, hangupSched, dialVars>>
  <2>1. state' \notin SmsStates \cup {"HANGUP_REQ"}
    BY <1>1, <1>6 DEF InitStates, SmsStates
  <2>2. QED
    BY <1>6, <2>1, ZeroedHolds DEF dialVars
<1>7. CASE /\ Assign("INIT", l) /\ retrans = 0
           /\ \E s \in Slots : /\ LowestFree(sched, s)
                               /\ sched' = [sched EXCEPT ![s] = Timer("start", cref)]
                               /\ retrans' = s
           /\ UNCHANGED <<smsSched, hangupSched, dialVars>>
  <2>1. state' = "INIT" /\ smsSched' = smsSched /\ dialInitiated' = dialInitiated
    BY <1>7 DEF Assign, dialVars
  <2>2. PICK s \in Slots : /\ LowestFree(sched, s)
                          /\ sched' = [sched EXCEPT ![s] = Timer("start", cref)]
    BY <1>7
  <2>3. sched \in Table /\ Timer("start", cref).fn = "start"
    BY DEF Groups, TimersOK, Timer
  <2>4. /\ \A r \in Slots : r # s => sched'[r] = sched[r]
        /\ sched'[s].fn = "start" /\ sched[s].fn = "none"
    BY <2>2, <2>3, FreeIsNone DEF Table, LowestFree
  <2>5. DialElsewhere'
    BY <1>7, <2>1, <2>4, NotZero DEF Held, DialElsewhere
  <2>6. Kept
    BY <2>1, <2>4 DEF Kept
  <2>7. QED
    BY <2>1, <2>5, <2>6 DEF Carried, Held, HangupHasTimer, SmsHasTimer, SmsStates
<1>8. QED
  BY <1>1, <1>2, <1>3, <1>4, <1>5, <1>6, <1>7 DEF InitReads, InitStates

\* The start-up begins no text and puts no dial off.
LEMMA InitReadsEnds ==
    ASSUME Groups, NEW l, InitReads(l)
    PROVE  state' \notin SmsStates /\ (dialInitiated' => dialInitiated)
<1>1. ASSUME NEW s \in InitStates, InitMoves(s, l)
      PROVE  state' \in InitStates
  BY <1>1 DEF InitMoves
<1>2. ASSUME NEW ACTION Stay, EventDown(l, Stay), Stay => state' \in InitStates
      PROVE  (state' \in SmsStates => state \in SmsStates) /\ (dialInitiated' => dialInitiated)
  BY <1>2, EventDownCalm DEF Calm
<1>3. CASE EventDown(l, InitMoves("INIT", l))
  <2>1. InitMoves("INIT", l) => state' \in InitStates
    BY <1>1 DEF InitStates
  <2>2. QED
    BY <1>2, <1>3, <2>1 DEF InitReads, InitStates, SmsStates
<1>4. CASE EventDown(l, \E s \in InitStates : InitMoves(s, l))
  <2>1. (\E s \in InitStates : InitMoves(s, l)) => state' \in InitStates
    BY <1>1
  <2>2. QED
    BY <1>2, <1>4, <2>1 DEF InitReads, InitStates, SmsStates
<1>5. CASE state' \in InitStates \cup {"READY"} /\ UNCHANGED dialVars
  BY <1>5 DEF dialVars, InitStates, SmsStates
<1>6. Switch("READY", "ELSE", l) => state' \in InitStates \cup {"READY"}
  BY SwitchState DEF InitStates
<1>7. Assign("INIT", l) => state' \in InitStates
  BY DEF Assign, InitStates
<1>8. QED
  BY <1>1, <1>3, <1>4, <1>5, <1>6, <1>7 DEF InitReads, InitStates

LEMMA EventHangupKeeps ==
    ASSUME NEW cs, NEW sc \in Table, EventHangup(cs, sc)
    PROVE  Keeps(sc, sched', {retrans})
<1>1. sched' = sc \/ sched' = Orphaned(sc, cref)
  BY DEF EventHangup
<1>2. QED
  BY <1>1, KeepsSame, OrphanedKeeps

LEMMA ReleaseCalm == ASSUME Groups, NEW l, Release(l) PROVE Calm
<1>1. sched \in Table
  BY DEF Groups, TimersOK
<1>2. Keeps(sched, sched', {retrans})
  <2>1. /\ Orphaned(sched, cref) \in Table
        /\ Keeps(sched, Orphaned(sched, cref), {retrans})
    BY <1>1, OrphanedType, OrphanedKeeps
  <2>2. Keeps(Orphaned(sched, cref), sched', {retrans})
    BY <2>1, EventHangupKeeps DEF Release
  <2>3. Keeps(sched, sched', {retrans} \cup {retrans})
    BY <2>1, <2>2, KeepsOnce
  <2>4. QED
    BY <2>3
<1>3. QED
  BY <1>2 DEF Release, Assign, Calm, SmsStates, dialVars

LEMMA ReadyCountsCalm == ASSUME NEW l, ReadyCounts(l) PROVE Calm
BY QuietCalm DEF ReadyCounts, modemVars, dialVars

LEMMA ReadyAnnouncesCalm == ASSUME Groups, NEW l, ReadyAnnounces(l) PROVE Calm
<1>1. Announced \in Pool
  BY AnnouncedType DEF Groups
<1>2. Assign("RING", l) => state' \notin SmsStates \cup {"HANGUP_REQ"}
  BY DEF Assign, SmsStates
<1>3. CASE Assign("RING", l) /\ UNCHANGED <<sched, hangupSched, dialVars>>
  BY <1>2, <1>3, QuietCalm DEF ReadyAnnounces, timerVars, dialVars
<1>4. CASE AllogsmHangup(sched, Announced, cref, HangsUp(l), Assign("RING", l))
  BY <1>1, <1>2, <1>4, AllogsmHangupCalm DEF ReadyAnnounces
<1>5. QED
  BY <1>3, <1>4 DEF ReadyAnnounces

LEMMA ReadyNetworkCalm == ASSUME Groups, NEW l, ReadyNetwork(l) PROVE Calm
<1>1. CASE EventDown(l, Assign("INIT", l))
  <2>1. Assign("INIT", l) => state' \in InitStates
    BY DEF Assign, InitStates
  <2>2. QED
    BY <1>1, <2>1, EventDownCalm
<1>2. CASE EventDown(l, InitMoves("INIT", l))
  <2>1. InitMoves("INIT", l) => state' \in InitStates
    BY DEF InitMoves, InitStates
  <2>2. QED
    BY <1>2, <2>1, EventDownCalm
<1>3. CASE /\ IF l = "CSQ_1" THEN Switch("READY", "", l) ELSE Assign("READY", l)
           /\ UNCHANGED <<timerVars, dialVars>>
  <2>1. state' \in {"READY", "INIT"}
    BY <1>3, SwitchState DEF Assign
  <2>2. QED
    BY <1>3, <2>1, QuietCalm DEF dialVars, SmsStates
<1>4. QED
  BY <1>1, <1>2, <1>3 DEF ReadyNetwork

LEMMA PreAnswerFailsCalm == ASSUME Groups, NEW l, PreAnswerFails(l) PROVE Calm
<1>1. Here \in Pool
  BY HereType DEF Groups
<1>2. CASE Switch("PRE_ANSWER", "ATA", l) /\ UNCHANGED <<sched, hangupSched, dialVars>>
  BY <1>2, SwitchState, QuietCalm DEF PreAnswerFails, timerVars, dialVars, SmsStates
<1>3. CASE AllogsmHangup(sched, Here, cref, HangsUp(l), Assign("PRE_ANSWER", l))
  <2>1. Assign("PRE_ANSWER", l) => state' \notin SmsStates \cup {"HANGUP_REQ"}
    BY DEF Assign, SmsStates
  <2>2. QED
    BY <1>1, <1>3, <2>1, AllogsmHangupCalm DEF PreAnswerFails
<1>4. QED
  BY <1>2, <1>3 DEF PreAnswerFails

LEMMA ActiveEndsCalm == ASSUME Groups, NEW l, ActiveEnds(l) PROVE Calm
<1>1. sched \in Table /\ Ended \in Pool
  BY EndedType DEF Groups, TimersOK
<1>2. /\ Keeps(sched, sched', {retrans})
      /\ dialInitiated' => dialInitiated
      /\ \/ Switch("READY", "ELSE", l) /\ hangupSched' = hangupSched
         \/ ReadyThenHangsUp(l) /\ Armed(sched', hangupSched', "hangup")
  BY <1>1, AllogsmHangupKeeps DEF ActiveEnds
<1>3. smsSched' = smsSched /\ retrans' = retrans
  BY DEF ActiveEnds
<1>4. QED
  BY <1>2, <1>3, SwitchState DEF Calm, ReadyThenHangsUp, SmsStates

LEMMA DialGivenUpCalm == ASSUME Groups, NEW l, DialGivenUp(l) PROVE Calm
<1>1. sched \in Table
  BY DEF Groups, TimersOK
<1>2. smsSched' = smsSched /\ retrans' = retrans /\ dialInitiated' = dialInitiated
  BY DEF DialGivenUp, dialVars
<1>3. CASE ArmHangup(sched, 0) /\ Switch("HANGUP_REQ", "ATH", l)
  <2>1. /\ Keeps(sched, sched', {0}) /\ hangupSched' \in Slots
        /\ sched'[hangupSched'].fn = "hangup" \/ hangupSched' = 0
    BY <1>1, <1>3, ArmHangupKeeps
  <2>2. Keeps(sched, sched', {retrans}) /\ Armed(sched', hangupSched', "hangup")
    BY <2>1, NotZero DEF Keeps, Armed
  <2>3. state' = "HANGUP_REQ"
    BY <1>3, SwitchState
  <2>4. QED
    BY <1>2, <2>2, <2>3 DEF Calm, SmsStates
<1>4. CASE /\ state' = "READY"
           /\ \E s \in Slots :
                 /\ LowestFree(sched, s)
                 /\ EventHangup(Destroyed(Here, cref),
                                Orphaned([sched EXCEPT ![s] = Timer("hangup", NoCref)], cref))
  <2>1. PICK s \in Slots :
                 /\ LowestFree(sched, s)
                 /\ EventHangup(Destroyed(Here, cref),
                                Orphaned([sched EXCEPT ![s] = Timer("hangup", NoCref)], cref))
    BY <1>4
  <2> DEFINE sc == [sched EXCEPT ![s] = Timer("hangup", NoCref)]
  <2>2. sc \in Table /\ Keeps(sched, sc, {})
    BY <1>1, <2>1, TimerType, FreeIsNone DEF LowestFree, Table, Keeps
  <2> HIDE DEF sc
  <2>3. Orphaned(sc, cref) \in Table /\ Keeps(sc, Orphaned(sc, cref), {retrans})
    BY <2>2, OrphanedType, OrphanedKeeps
  <2>4. Keeps(Orphaned(sc, cref), sched', {retrans})
    BY <2>1, <2>3, EventHangupKeeps DEF sc
  <2>5. Keeps(sched, sched', {retrans})
    BY <2>2, <2>3, <2>4 DEF Keeps
  <2>6. QED
    BY <1>2, <1>4, <2>5 DEF Calm, SmsStates
<1>5. QED
  BY <1>3, <1>4 DEF DialGivenUp

LEMMA PlainCallCalm ==
    ASSUME NEW l, RingRings(l) \/ PreAnswerOk(l) \/ ActiveWaiting(l) \/ Proceeds(l) \/ Ignores(l)
    PROVE  Calm
<1>1. UNCHANGED timerVars /\ dialInitiated' = dialInitiated
  BY DEF RingRings, PreAnswerOk, ActiveWaiting, Proceeds, Ignores, ReadsOnly, dialVars
<1>2. state' = state \/ state' \notin SmsStates \cup {"HANGUP_REQ"}
  BY SwitchState
     DEF RingRings, PreAnswerOk, ActiveWaiting, Proceeds, Ignores, Assign, SmsStates
<1>3. QED
  BY <1>1, <1>2, QuietCalm

LEMMA PlainSmsCalm ==
    ASSUME NEW l,
           SendingContinues(l) \/ Prompted(l) \/ SmsNetwork(l) \/ SendingNoise(l) \/ SentRetries(l)
    PROVE  Calm
<1>1. UNCHANGED timerVars /\ dialInitiated' = dialInitiated
  BY DEF SendingContinues, Prompted, SmsNetwork, SendingNoise, SentRetries, ReadsOnly, dialVars
<1>2. state \in SmsStates
  BY DEF SendingContinues, Prompted, SmsNetwork, SendingNoise, SentRetries, SmsStates,
         Progress
<1>3. state' \in SmsStates
  BY <1>2, SwitchState DEF SendingContinues, Prompted, SmsNetwork, SendingNoise, SentRetries,
         SmsStates, Assign, modemVars
<1>4. QED
  BY <1>1, <1>2, <1>3, QuietCalm DEF SmsStates

(***************************************************************************)
(* The lines that delete a timer.                                          *)
(***************************************************************************)
\* The hangup timer is deleted on the way to READY: the slot held it, or is
\* the one of retranstimer.
LEMMA HangupEndsHeld == ASSUME Groups, Held, NEW l, HangupEnds(l) PROVE Carried
<1>1. sched \in Table /\ (sched[hangupSched].fn = "hangup" \/ hangupSched = retrans)
  BY DEF Groups, TimersOK, Held, HangupHasTimer, HangupEnds
<1>2. /\ state' = "READY" /\ smsSched' = smsSched /\ dialInitiated' = dialInitiated
      /\ retrans' = retrans
  BY DEF HangupEnds, Assign, dialVars
<1>3. Keeps(sched, sched', {hangupSched, retrans})
  <2>1. /\ Deleted(sched, hangupSched) \in Table
        /\ Keeps(sched, Deleted(sched, hangupSched), {hangupSched})
    BY <1>1, DeletedType, DeletedKeeps DEF Keeps
  <2>2. Keeps(Deleted(sched, hangupSched), sched', {retrans})
    BY <2>1, EventHangupKeeps DEF HangupEnds
  <2>3. QED
    BY <2>1, <2>2 DEF Keeps
<1>4. DialElsewhere'
  BY <1>2, <1>3 DEF Held, DialElsewhere, Keeps
<1>5. Kept
  BY <1>1, <1>2, <1>3, NotZero DEF Kept, Keeps
<1>6. QED
  BY <1>2, <1>4, <1>5 DEF Carried, Held, HangupHasTimer, SmsHasTimer, SmsStates

\* The slot a verdict deletes is not the one of a deferred dial.
LEMMA VerdictHeld ==
    ASSUME Held, NEW sc \in Table, NEW ok, NEW event, UpdateSmsStatus(sc, ok, event),
           \A r \in Slots : (sched[r].fn = "dial" \/ sc[r].fn = "dial") => sc[r] = sched[r],
           state' \in {"READY", "INIT"}, dialInitiated' = dialInitiated
    PROVE  Carried
<1>1. smsSched' = smsSched /\ retrans' = retrans
  BY DEF UpdateSmsStatus
<1>2. \A r \in Slots : /\ r # smsSched => sched'[r] = sc[r]
                       /\ r = smsSched => sched'[r].fn = "none"
  BY DeletedKeeps DEF UpdateSmsStatus
<1>3. DialElsewhere'
  BY <1>1, <1>2 DEF Held, DialElsewhere
<1>4. Kept
  BY <1>1, <1>2, NotZero DEF Held, DialElsewhere, Kept
<1>5. QED
  BY <1>3, <1>4 DEF Carried, Held, HangupHasTimer, SmsHasTimer, SmsStates

LEMMA FiledHeld ==
    ASSUME Groups, Held, NEW l,
           SendingFails(l) \/ SmsRing(l) \/ SentOk(l) \/ SentNoise(l) \/ SentFails(l)
    PROVE  Carried
<1>1. sched \in Table
  BY DEF Groups, TimersOK
<1>2. dialInitiated' = dialInitiated
  BY DEF SendingFails, SmsRing, SentOk, SentNoise, SentFails, dialVars
<1>3. state' \in {"READY", "INIT"}
  BY SwitchState DEF SendingFails, SmsRing, SentOk, SentNoise, SentFails
<1>4. PICK ok, event \in BOOLEAN : UpdateSmsStatus(sched, ok, event)
  BY DEF SendingFails, SmsRing, SentOk, SentNoise, SentFails, Files
<1>5. QED
  BY <1>1, <1>2, <1>3, <1>4, VerdictHeld

LEMMA LineHeld == ASSUME Groups, Held, NEW l, Line(l) PROVE Carried
<1>1. CASE Reboot(l) \/ InitReads(l) \/ ReadyNetwork(l) \/ Ignores(l)
  BY <1>1, RebootCalm, InitReadsHeld, ReadyNetworkCalm, PlainCallCalm, CalmHolds
<1>2. CASE CallLine(l)
  BY <1>2, ReleaseCalm, ReadyCountsCalm, ReadyAnnouncesCalm, PlainCallCalm,
     PreAnswerFailsCalm, ActiveEndsCalm, DialGivenUpCalm, CalmHolds, HangupEndsHeld
     DEF CallLine
<1>3. CASE SmsLine(l)
  BY <1>3, PlainSmsCalm, CalmHolds, FiledHeld DEF SmsLine
<1>4. QED
  BY <1>1, <1>2, <1>3 DEF Line

(***************************************************************************)
(* The timers.                                                             *)
(***************************************************************************)
\* While a text is with the modem its slot is no dial's, or retranstimer's.
LEMMA SmsElsewhere == SmsHasTimer /\ state \in SmsStates => DialElsewhere
BY DEF SmsHasTimer, DialElsewhere

LEMMA SmsTimerHeld == ASSUME Groups, Held, NEW s \in Slots, SmsTimer(s) PROVE Carried
<1>1. sched \in Table /\ Cleared(s) \in Table
  BY ClearedType DEF Groups, TimersOK
<1>2. \A r \in Slots : /\ sched[r].fn # "sms" => Cleared(s)[r] = sched[r]
                       /\ Cleared(s)[r].fn # "none" => Cleared(s)[r] = sched[r]
  BY <1>1, ClearedKeeps DEF SmsTimer, Fires
<1>3. dialInitiated' = dialInitiated
  BY DEF SmsTimer, dialVars
<1>4. CASE SmsTimerLate(s)
  <2>1. /\ sched' = Cleared(s) /\ state' \in {"INIT", "READY"} /\ smsSched' = smsSched
        /\ retrans' = retrans
    BY <1>4 DEF SmsTimerLate, modemVars
  <2>2. DialElsewhere' /\ Kept
    BY <1>2, <1>3, <2>1 DEF Held, DialElsewhere, Kept
  <2>3. QED
    BY <2>1, <2>2 DEF Carried, Held, HangupHasTimer, SmsHasTimer, SmsStates
<1>5. CASE SmsTimerRetries(s)
  <2>1. state' = "SMS_SENT" /\ retrans' = retrans
    BY <1>5, SwitchState DEF SmsTimerRetries
  <2>2. Keeps(Cleared(s), sched', {}) /\ smsSched' \in Slots /\ sched'[smsSched'].fn = "sms"
    BY <1>1, <1>5, ArmSmsKeeps DEF SmsTimerRetries
  <2>3. Kept
    BY <1>2, <1>3, <2>2 DEF Kept, Keeps
  <2>4. SmsHasTimer' /\ HangupHasTimer'
    BY <2>1, <2>2 DEF HangupHasTimer, SmsHasTimer
  <2>5. DialElsewhere'
    BY <2>1, <2>4 DEF SmsHasTimer, DialElsewhere, SmsStates
  <2>6. QED
    BY <2>3, <2>4, <2>5 DEF Held, Carried
<1>6. CASE SmsTimerGivesUp(s)
  <2>1. state' \in {"READY", "INIT"}
    BY <1>6, SwitchState DEF SmsTimerGivesUp
  <2>2. \A r \in Slots : (sched[r].fn = "dial" \/ Cleared(s)[r].fn = "dial")
                            => Cleared(s)[r] = sched[r]
    BY <1>2
  <2>3. UpdateSmsStatus(Cleared(s), FALSE, FALSE)
    BY <1>6 DEF SmsTimerGivesUp
  <2>4. QED
    BY <1>1, <1>3, <2>1, <2>2, <2>3, VerdictHeld
<1>7. QED
  BY <1>4, <1>5, <1>6 DEF SmsTimer

LEMMA HangupTimerHeld == ASSUME Groups, Held, NEW s \in Slots, HangupTimer(s) PROVE Carried
<1>1. sched \in Table /\ Cleared(s) \in Table
  BY ClearedType DEF Groups, TimersOK
<1>2. \A r \in Slots : /\ sched[r].fn # "hangup" => Cleared(s)[r] = sched[r]
                       /\ Cleared(s)[r].fn # "none" => Cleared(s)[r] = sched[r]
  BY <1>1, ClearedKeeps DEF HangupTimer, Fires
<1>3. dialInitiated' = dialInitiated /\ smsSched' = smsSched /\ retrans' = retrans
  BY DEF HangupTimer, dialVars
<1>4. CASE HangupRepeats(s)
  <2>1. state' = "HANGUP_REQ"
    BY <1>4, SwitchState DEF HangupRepeats
  <2>2. /\ Keeps(Cleared(s), sched', {0}) /\ hangupSched' \in Slots
        /\ sched'[hangupSched'].fn = "hangup" \/ hangupSched' = 0
    BY <1>1, <1>4, ArmHangupKeeps DEF HangupRepeats
  <2>3. DialElsewhere' /\ Kept
    BY <1>2, <1>3, <2>2, NotZero DEF Held, DialElsewhere, Kept, Keeps
  <2>4. QED
    BY <2>1, <2>2, <2>3, NotZero DEF Carried, Held, HangupHasTimer, SmsHasTimer, SmsStates
<1>5. CASE /\ state # "HANGUP_REQ"
           /\ sched' = Cleared(s)
           /\ UNCHANGED <<modemVars, hangupSched>>
  <2>1. state' = state
    BY <1>5 DEF modemVars
  <2>2. DialElsewhere' /\ Kept
    BY <1>2, <1>3, <1>5 DEF Held, DialElsewhere, Kept
  <2>3. SmsHasTimer'
    BY <1>2, <1>3, <1>5, <2>1 DEF Held, SmsHasTimer
  <2>4. QED
    BY <1>5, <2>1, <2>2, <2>3 DEF Carried, Held, HangupHasTimer
<1>6. QED
  BY <1>4, <1>5 DEF HangupTimer

LEMMA StartTimerHeld == ASSUME Groups, Held, NEW s \in Slots, StartTimer(s) PROVE Carried
<1>1. sched \in Table
  BY DEF Groups, TimersOK
<1>2. \A r \in Slots : /\ sched[r].fn # "start" => sched'[r] = sched[r]
                       /\ sched'[r].fn # "none" => sched'[r] = sched[r]
  BY <1>1, ClearedKeeps DEF StartTimer, Fires
<1>3. /\ dialInitiated' = dialInitiated /\ smsSched' = smsSched /\ retrans' = retrans
      /\ hangupSched' = hangupSched
  BY DEF StartTimer, dialVars
<1>4. state' \in {"INIT", state}
  BY SwitchState DEF StartTimer, modemVars
<1>5. DialElsewhere' /\ Kept
  BY <1>2, <1>3 DEF Held, DialElsewhere, Kept
<1>6. HangupHasTimer' /\ SmsHasTimer'
  BY <1>2, <1>3, <1>4 DEF Held, HangupHasTimer, SmsHasTimer, SmsStates
<1>7. QED
  BY <1>5, <1>6 DEF Carried, Held

\* A dial that waits takes a free slot, so not the one of the text it waits for.
LEMMA DialWaitsHeld ==
    ASSUME Groups, Held, NEW s \in Slots, NEW c \in Crefs \cup {NoCref}, Fires(s, "dial"),
           DialWaits(s, c), smsSched' = smsSched, retrans' = retrans
    PROVE  Carried
<1>1. sched \in Table /\ Cleared(s) \in Table /\ calls \in Pool
  BY ClearedType DEF Groups, TimersOK, CallsOK
<1>2. PICK r \in Slots :
          /\ LowestFree(Cleared(s), r)
          /\ LET sc == [Cleared(s) EXCEPT ![r] = Timer("dial", c)]
             IN  IF dialRetry' = DialLimit /\ dialHangup /\ c # NoCref
                 THEN AllogsmHangup(sc, calls, c, HangsUp(NoLine), ModemStays)
                 ELSE /\ sched' = sc
                      /\ UNCHANGED <<modemVars, hangupSched, calls, dialVars>>
  BY DEF DialWaits
<1> DEFINE sc == [Cleared(s) EXCEPT ![r] = Timer("dial", c)]
<1>3. sc \in Table /\ sc[r].fn = "dial"
  BY <1>1, TimerType DEF Table
<1>4. smsSched \in Slots /\ state \in SmsStates /\ (sched[smsSched].fn = "sms" \/ smsSched = retrans)
  BY DEF Held, SmsHasTimer, DialWaits
<1>7. sc[smsSched].fn = "sms" \/ smsSched = retrans
  <2>1. CASE sched[smsSched].fn = "sms"
    <3>1. Cleared(s)[smsSched] = sched[smsSched]
      BY <1>1, <1>4, <2>1, ClearedKeeps DEF Fires
    <3>2. r # smsSched
      BY <1>2, <2>1, <3>1, FreeIsNone DEF LowestFree
    <3>3. QED
      BY <1>1, <1>4, <2>1, <3>1, <3>2 DEF Table
  <2>2. QED
    BY <1>4, <2>1
<1> HIDE DEF sc
<1>8. ASSUME Keeps(sc, sched', {retrans}), dialInitiated' => dialInitiated
      PROVE  SmsHasTimer' /\ DialElsewhere' /\ Kept
  <2>1. SmsHasTimer'
    BY <1>4, <1>7, <1>8 DEF SmsHasTimer, Keeps
  <2>2. DialElsewhere'
    BY <1>4, <1>7, <1>8 DEF DialElsewhere, Keeps
  <2>3. Kept
    BY <1>3, <1>8, NotZero DEF Kept, Keeps
  <2>4. QED
    BY <2>1, <2>2, <2>3
<1>9. CASE AllogsmHangup(sc, calls, c, HangsUp(NoLine), ModemStays)
  <2>1. /\ Keeps(sc, sched', {retrans})
        /\ dialInitiated' => dialInitiated
        /\ \/ ModemStays /\ hangupSched' = hangupSched
           \/ HangsUp(NoLine) /\ Armed(sched', hangupSched', "hangup")
    BY <1>1, <1>3, <1>9, AllogsmHangupKeeps
  <2>2. HangupHasTimer'
    BY <1>4, <2>1 DEF HangupHasTimer, Armed, ModemStays, modemVars, SmsStates
  <2>3. QED
    BY <1>8, <2>1, <2>2 DEF Held, Carried
<1>10. CASE /\ sched' = sc
            /\ UNCHANGED <<modemVars, hangupSched, calls, dialVars>>
  <2>1. Keeps(sc, sched', {retrans}) /\ (dialInitiated' => dialInitiated)
    BY <1>10, KeepsSame DEF dialVars
  <2>2. HangupHasTimer'
    BY <1>4, <1>10 DEF HangupHasTimer, modemVars, SmsStates
  <2>3. QED
    BY <1>8, <2>1, <2>2 DEF Held, Carried
<1>11. QED
  BY <1>2, <1>9, <1>10 DEF sc

LEMMA DialGoesOnHeld ==
    ASSUME Groups, NEW s \in Slots, NEW c \in Crefs \cup {NoCref}, DialGoesOn(s, c),
           retrans' = retrans
    PROVE  Carried
<1>1. /\ Cleared(s) \in Table /\ Dangling(Cleared(s), c) \in Table
      /\ Dangling(Cleared(s), cref) \in Table
  BY ClearedType, DanglingType DEF Groups
<1>2. CASE ModuleDial(Cleared(s))
  <2>1. dialInitiated' = FALSE /\ state' = "CALL_INIT"
    BY <1>2, SwitchState DEF ModuleDial
  <2>2. QED
    BY <2>1 DEF Carried, Kept, Held, HangupHasTimer, SmsHasTimer, DialElsewhere, SmsStates
<1>3. ASSUME NEW sc \in Table, NEW gone \in {0, retrans}, ModuleHangup(sc, gone, HangsUp(NoLine))
      PROVE  Carried
  <2>1. dialInitiated' = FALSE /\ state' = "HANGUP_REQ"
    BY <1>3, HangsUpState DEF ModuleHangup
  <2>2. /\ hangupSched' \in Slots
        /\ sched'[hangupSched'].fn = "hangup" \/ hangupSched' = gone
    BY <1>3, ArmHangupKeeps DEF ModuleHangup
  <2>3. HangupHasTimer'
    BY <1>3, <2>2, NotZero DEF HangupHasTimer
  <2>4. QED
    BY <2>1, <2>3 DEF Carried, Kept, Held, SmsHasTimer, DialElsewhere, SmsStates
<1>4. QED
  BY <1>1, <1>2, <1>3 DEF DialGoesOn

LEMMA DialTimerHeld == ASSUME Groups, Held, NEW s \in Slots, DialTimer(s) PROVE Carried
<1>1. sched[s].call \in Crefs \cup {NoCref}
  BY DEF Groups, TimersOK, Table, TimerRecords
<1>2. Fires(s, "dial") /\ smsSched' = smsSched /\ retrans' = retrans
  BY DEF DialTimer
<1>3. CASE DialWaits(s, sched[s].call) \/ DialGoesOn(s, sched[s].call)
  BY <1>1, <1>2, <1>3, DialWaitsHeld, DialGoesOnHeld
<1>4. CASE UNCHANGED <<modemVars, sched, hangupSched, calls, gsmcall, dialVars, dialRetry>>
  BY <1>2, <1>4, QuietCalm, CalmHolds DEF modemVars, dialVars, timerVars
<1>5. QED
  BY <1>3, <1>4 DEF DialTimer

(***************************************************************************)
(* What the driver and the CLI call.                                       *)
(***************************************************************************)
LEMMA ReloadsHeld == ASSUME Groups, Held, ReloadTimer \/ Reload PROVE Carried
<1>1. UNCHANGED timerVars /\ dialInitiated' = dialInitiated
  BY DEF ReloadTimer, Reload, dialVars
<1>2. state' \in {state, "INIT"}
  BY DEF ReloadTimer, Reload
<1>3. QED
  BY <1>1, <1>2, QuietCalm, CalmHolds DEF SmsStates

\* A text starts only while no dial is put off.
LEMMA SendTextHeld == ASSUME Groups, Held, SendText PROVE Carried
<1>1. sched \in Table
  BY DEF Groups, TimersOK
<1>2. state' = "SMS_SENDING" /\ ~dialInitiated'
  BY SwitchState DEF SendText, dialVars
<1>3. smsSched' \in Slots /\ sched'[smsSched'].fn = "sms"
  BY <1>1, ArmSmsKeeps DEF SendText
<1>4. QED
  BY <1>2, <1>3 DEF Carried, Kept, Held, HangupHasTimer, SmsHasTimer, DialElsewhere

LEMMA DialStepHeld == ASSUME Groups, Held, Dial PROVE Carried
<1>1. sched \in Table /\ smsSched' = smsSched /\ retrans' = retrans
  BY DEF Groups, TimersOK, Dial
<1>2. cref + 1 \in Crefs
  <2>1. cref \in Crefs /\ cref < MaxCref
    BY DEF Groups, CallsOK, Dial
  <2>2. QED
    BY <2>1, Bounds DEF Crefs
<1>3. CASE state \in SmsStates /\ ArmDial(sched, cref + 1) /\ UNCHANGED <<modemVars, hangupSched>>
  <2>1. smsSched \in Slots /\ (sched[smsSched].fn = "sms" \/ smsSched = retrans)
    BY <1>3 DEF Held, SmsHasTimer
  <2>2. /\ \A r \in Slots : sched[r].fn # "none" => sched'[r].fn = sched[r].fn
        /\ \E r \in Slots : sched[r] = Free /\ sched'[r].fn = "dial"
    BY <1>1, <1>2, <1>3, ArmDialKeeps
  <2>3. SmsHasTimer' /\ HangupHasTimer'
    BY <1>1, <1>3, <2>1, <2>2 DEF SmsHasTimer, HangupHasTimer, modemVars, SmsStates
  <2>4. DialElsewhere'
    BY <1>1, <1>3, <2>3 DEF SmsHasTimer, DialElsewhere, modemVars
  <2>5. Kept
    BY <2>2 DEF Kept
  <2>6. QED
    BY <2>3, <2>4, <2>5 DEF Held, Carried
<1>4. CASE ModuleDial(sched)
  <2>1. dialInitiated' = FALSE /\ state' = "CALL_INIT"
    BY <1>4, SwitchState DEF ModuleDial
  <2>2. QED
    BY <2>1 DEF Carried, Kept, Held, HangupHasTimer, SmsHasTimer, DialElsewhere, SmsStates
<1>5. QED
  BY <1>3, <1>4 DEF Dial

LEMMA HangupHeld == ASSUME Groups, Held, Hangup PROVE Carried
<1>1. sched \in Table /\ calls \in Pool /\ smsSched' = smsSched /\ retrans' = retrans
  BY DEF Groups, TimersOK, CallsOK, Hangup
<1>2. /\ Keeps(sched, sched', {retrans})
      /\ dialInitiated' => dialInitiated
      /\ \/ ModemStays /\ hangupSched' = hangupSched
         \/ HangsUp(NoLine) /\ Armed(sched', hangupSched', "hangup")
  BY <1>1, AllogsmHangupKeeps DEF Hangup
<1>3. Calm
  BY <1>1, <1>2, HangsUpState DEF Calm, ModemStays, modemVars, SmsStates
<1>4. QED
  BY <1>3, CalmHolds

LEMMA AnswerHeld == ASSUME Groups, Held, Answer PROVE Carried
<1>1. state' = "PRE_ANSWER"
  BY SwitchState DEF Answer
<1>2. QED
  BY <1>1, ZeroedHolds DEF Answer, dialVars, SmsStates

LEMMA OtherCommandHeld == ASSUME Groups, Held, OtherCommand PROVE Carried
BY QuietCalm, CalmHolds DEF OtherCommand, dialVars

LEMMA HeldStep == Typed /\ Held /\ [Next]_vars => Carried
<1> SUFFICES ASSUME Groups, Held, [Next]_vars
             PROVE  Carried
  BY DEF Typed
<1>1. CASE \E l \in Lines : Line(l)
  BY <1>1, LineHeld
<1>2. CASE Timers
  BY <1>2, ReloadsHeld, SmsTimerHeld, HangupTimerHeld, DialTimerHeld, StartTimerHeld DEF Timers
<1>3. CASE Api
  BY <1>3, SendTextHeld, DialStepHeld, HangupHeld, AnswerHeld, OtherCommandHeld, ReloadsHeld DEF Api
<1>4. CASE UNCHANGED vars
  BY <1>4, QuietCalm, CalmHolds DEF vars, modemVars, dialVars
<1>5. QED
  BY <1>1, <1>2, <1>3, <1>4 DEF Next

LEMMA AlwaysHeld == Spec => [](Typed /\ Held)
BY TypedInit, TypedStep, HeldInit, HeldStep, PTL DEF Spec, Carried

\* While ATH waits for its OK (GSM_STATE_HANGUP_REQ) the timer in
\* hangupTimeoutSched that repeats it is pending: no deletion through another
\* remembered slot and no second hangup takes it away, but for the end of a
\* call while retranstimer is this slot's number.
THEOREM HangupTimerIsHeld == Spec => []HangupHasTimer
BY AlwaysHeld, PTL DEF Held

\* While a text is with the modem its send timeout is pending in
\* smsTimeoutSched, also after reloads and releases that left an earlier
\* text's timer in the table, with the same exception.
THEOREM SmsTimerIsHeld == Spec => []SmsHasTimer
BY AlwaysHeld, PTL DEF Held

\* While dial_initiated is set no step removes the last gsm_dial_retry that
\* will clear it, but a deletion through a retranstimer that is not 0.
THEOREM DeferredDialIsHeld == Spec => DeferredDialKept
<1>1. Typed /\ Held /\ [Next]_vars
        => [dialInitiated' /\ DialTimers' = {} =>
                dialInitiated /\ (DialTimers = {} \/ retrans # 0)]_vars
  BY HeldStep DEF Carried, Kept, DialTimers
<1>2. QED
  BY <1>1, AlwaysHeld, PTL DEF DeferredDialKept, Spec
------------------------------------------------------------------------------
(***************************************************************************)
(* Calls and texts.                                                        *)
(*                                                                         *)
(* A dial put off during a text leaves two things behind: the timer, with  *)
(* a pointer to the call record, and the flags dial_initiated and          *)
(* dial_initiated_hangup.  Own says how they, the record and the driver's  *)
(* pointer hang together while the dial waits, and that nothing of it is   *)
(* left when it does not.  A text has its number, its tries and its        *)
(* timeout: Counted and Filed say what is known of them in each state.     *)
(*                                                                         *)
(* What the modem may do to break this is a premise of the theorems, a     *)
(* property of the behaviour (DialHasCall, SmsTimerInText, ~stuck); the    *)
(* last part shows where the premises hold: for a quiet modem, on a span   *)
(* that only sends texts, on a span that only makes calls.                 *)
(***************************************************************************)
(***************************************************************************)
(* The premise on calls: a dial that waits has its channel and its timer.  *)
(* Lines that end the call, a lost network or a restart of the modem take  *)
(* the call from the driver and leave the timer behind; what then goes     *)
(* wrong is what DialOwnsRecord is about.  The end of a call can delete    *)
(* the timer through retranstimer (README, section 3).                     *)
(***************************************************************************)
DialHasCall == (DialTimers # {} => gsmcall # NoCref) /\ (dialInitiated => DialTimers # {})

Idle == SmsStates \cup InitStates \cup {"READY"}
Calling == {"CALL_INIT", "CALL_PROCEEDING", "CALL_PROGRESS", "PRE_ANSWER", "CALL_ACTIVE"}

\* A dial waits: one timer, which has the record of the current reference; the
\* record is the dial's own; the driver has it, or has hung it up.
Waiting ==
    /\ state \in Idle
    /\ \E s \in Slots : DialTimers = {s} /\ sched[s].call = cref
    /\ calls[cref].here /\ calls[cref].live
    /\ ~calls[cref].new /\ ~calls[cref].unanswered
    /\ dialHangup => gsmcall = Stale /\ calls[cref].hung
    /\ ~dialHangup => gsmcall = cref
DialInv ==
    /\ dialInitiated => Waiting
    /\ ~dialInitiated => DialTimers = {} /\ ~dialHangup

\* A record that was hung up and kept is the one of a dial that waits.
HungWaits == \A c \in Crefs : calls[c].hung => dialHangup /\ c = cref
InitHasCall == state = "CALL_INIT" => gsmcall = cref /\ calls[cref].live
CallInv == OneReference /\ HungWaits /\ InitHasCall /\ CallHasChannel

Own == DialInv /\ CallInv

LEMMA OwnInit == Init => Own
<1> SUFFICES ASSUME Init
             PROVE  Own
  OBVIOUS
<1>1. DialTimers = {}
  BY FreeIsNone DEF Init, DialTimers
<1>2. DialInv
  BY <1>1 DEF Init, DialInv
<1>3. HungWaits
  BY DEF Init, HungWaits, NoCall
<1>4. OneReference /\ InitHasCall /\ CallHasChannel
  BY DEF Init, OneReference, InitHasCall, CallHasChannel, Crefs, NoCref
<1>5. QED
  BY <1>2, <1>3, <1>4 DEF Own, CallInv

LEMMA OwnIsSafe ==
    Groups /\ Own => OneReference /\ DialOwnsRecord /\ DialsForChannel /\ CallHasChannel
<1> SUFFICES ASSUME Groups, Own
             PROVE  OneReference /\ DialOwnsRecord /\ DialsForChannel /\ CallHasChannel
  OBVIOUS
<1>1. cref \in Crefs /\ NoCref \notin Crefs
  BY Bounds DEF Groups, CallsOK, Crefs, NoCref
<1>2. DialOwnsRecord
  BY <1>1 DEF Own, DialInv, Waiting, DialOwnsRecord
<1>3. DialsForChannel
  BY <1>1 DEF Own, CallInv, InitHasCall, DialsForChannel
<1>4. QED
  BY <1>2, <1>3 DEF Own, CallInv

(***************************************************************************)
(* Tables without a dial and pools without a record that is hung up.       *)
(***************************************************************************)
NoDial(tc) == \A s \in Slots : tc[s].fn # "dial"
NoHung(cs) == \A c \in Crefs : ~cs[c].hung

LEMMA NoDialKept ==
    ASSUME NEW sc \in Table, NoDial(sc), NEW c, NEW id
    PROVE  NoDial(Dangling(sc, c)) /\ NoDial(Deleted(sc, id))
BY DanglingKeeps, FreeIsNone DEF NoDial, Deleted

LEMMA NoDialOrphaned ==
    ASSUME NEW sc \in Table, NoDial(sc), NEW c
    PROVE  /\ Orphaned(sc, c) \in Table /\ NoDial(Orphaned(sc, c))
           /\ Swept(sc) \in Table /\ NoDial(Swept(sc))
BY OrphanedType, DeletedType, OrphanedKeeps, DeletedKeeps DEF NoDial, Keeps, Swept

LEMMA NoDialCleared == ASSUME sched \in Table, NoDial(sched), NEW s \in Slots PROVE NoDial(Cleared(s))
BY FreeIsNone DEF NoDial, Cleared, Table

LEMMA NoDialArmed ==
    ASSUME NEW sc \in Table, NoDial(sc), NEW gone, ArmHangup(sc, gone) \/ ArmSms(sc)
    PROVE  NoDial(sched')
BY ArmHangupKeeps, ArmSmsKeeps DEF NoDial, Keeps

LEMMA NoHungKept ==
    ASSUME NEW cs \in Pool, NoHung(cs), NEW c
    PROVE  NoHung(Destroyed(cs, c))
BY DEF NoHung, Destroyed, NoCall, Pool

LEMMA HereKept ==
    ASSUME CallsOK
    PROVE  /\ Here[cref].here
           /\ calls[cref].here => Here = calls
           /\ \A c \in Crefs : Here[c].hung => calls[c].hung
           /\ \A c \in Crefs : calls[c].here => Here[c] = calls[c]
BY DEF CallsOK, Here, Pool, NewCall, NoCall

\* While no dial waits.
LEMMA AtEase ==
    ASSUME Groups, Own, ~dialInitiated
    PROVE  /\ sched \in Table /\ NoDial(sched) /\ ~dialHangup
           /\ Here \in Pool /\ NoHung(Here) /\ calls \in Pool /\ NoHung(calls)
           /\ Ended \in Pool /\ NoHung(Ended) /\ Announced \in Pool /\ NoHung(Announced)
           /\ cref \in Crefs
<1>1. sched \in Table /\ Here \in Pool /\ calls \in Pool /\ cref \in Crefs
  BY HereType DEF Groups, TimersOK, CallsOK
<1>2. NoDial(sched) /\ ~dialHangup
  BY DEF Own, DialInv, DialTimers, NoDial
<1>3. NoHung(calls)
  BY <1>2 DEF Own, CallInv, HungWaits, NoHung
<1>4. NoHung(Here)
  BY <1>3, HereKept DEF Groups, NoHung
<1>5. Ended \in Pool /\ Announced \in Pool
  BY EndedType, AnnouncedType DEF Groups
<1>6. NoHung(Ended) /\ NoHung(Announced)
  BY <1>1, <1>4 DEF Ended, Announced, NoHung, Pool
<1>7. QED
  BY <1>1, <1>2, <1>3, <1>4, <1>5, <1>6

\* allogsm_hangup while no dial waits sends ATH, or frees a record without a
\* state of its own.
LEMMA AllogsmHangupEase ==
    ASSUME NEW sc \in Table, NoDial(sc), NEW cs \in Pool, NoHung(cs), NEW c \in Crefs,
           ~dialInitiated, ~dialHangup,
           NEW ACTION Go, NEW ACTION Stay, AllogsmHangup(sc, cs, c, Go, Stay)
    PROVE  /\ NoDial(sched') /\ NoHung(calls')
           /\ ~dialInitiated' /\ ~dialHangup'
           /\ Go \/ (Stay /\ ~cs[c].live)
<1>1. Orphaned(sc, c) \in Table /\ NoDial(Orphaned(sc, c)) /\ NoHung(Destroyed(cs, c))
  BY NoDialOrphaned, NoHungKept
<1>2. CASE /\ calls' = Destroyed(cs, c)
           /\ ModuleHangup(Orphaned(sc, c), IF cs[c].live THEN retrans ELSE 0, Go)
  BY <1>1, <1>2, NoDialArmed DEF ModuleHangup
<1>3. CASE /\ ~cs[c].live
           /\ Stay
           /\ calls' = Destroyed(cs, c)
           /\ dialHangup' \in {dialHangup, dialHangup \/ dialInitiated}
           /\ sched' = Orphaned(sc, c)
           /\ UNCHANGED <<hangupSched, dialInitiated>>
  <2>1. ~dialHangup' /\ ~dialInitiated'
    BY Zenon, <1>3
  <2>2. QED
    BY <1>1, <1>3, <2>1
<1>4. ~cs[c].hung
  BY DEF NoHung
<1>5. QED
  BY <1>2, <1>3, <1>4 DEF AllogsmHangup

(***************************************************************************)
(* Three ways a step keeps Own.                                            *)
(***************************************************************************)
DialsStay == \A s \in Slots : sched[s].fn = "dial" \/ sched'[s].fn = "dial" => sched'[s] = sched[s]
FewerDials == \A s \in Slots : sched'[s].fn = "dial" => sched'[s] = sched[s]

\* Calls and dials are not touched; the state may move where a call may.
Steady ==
    /\ UNCHANGED <<cref, gsmcall, dialVars>>
    /\ calls' \in {calls, Here}
    /\ DialsStay \/ (FewerDials /\ (dialInitiated => DialTimers' # {}))
    /\ \/ state' = state \/ state' \in Idle
       \/ state \notin Idle /\ state' \in {"RINGING", "HANGUP_REQ"}
       \/ state \in Calling /\ state' \in Calling \ {"CALL_INIT"}

LEMMA SteadyOwns == ASSUME Groups, Own, Steady PROVE Own'
<1>1. cref' = cref /\ gsmcall' = gsmcall /\ dialInitiated' = dialInitiated /\ dialHangup' = dialHangup
  BY DEF Steady, dialVars
<1>2. /\ DialTimers' \subseteq DialTimers /\ \A s \in DialTimers' : sched'[s] = sched[s]
      /\ DialTimers # {} => DialTimers' # {}
  <2>1. CASE DialsStay
    BY <2>1 DEF DialsStay, DialTimers
  <2>2. CASE FewerDials /\ (dialInitiated => DialTimers' # {})
    BY <2>2 DEF FewerDials, DialTimers, Own, DialInv
  <2>3. QED
    BY <2>1, <2>2 DEF Steady
<1>3. /\ cref \in Crefs
      /\ \A c \in Crefs : calls'[c].hung => calls[c].hung
      /\ \A c \in Crefs : calls[c].here => calls'[c] = calls[c]
  BY HereKept DEF Steady, Groups, CallsOK
<1>4. ASSUME dialInitiated
      PROVE  Waiting'
  <2>1. Waiting
    BY <1>4 DEF Own, DialInv
  <2>2. calls'[cref] = calls[cref]
    BY <1>3, <2>1 DEF Waiting
  <2>3. state' \in Idle
    BY <2>1 DEF Waiting, Steady, Calling, Idle, SmsStates, InitStates
  <2>4. PICK s \in Slots : DialTimers = {s} /\ sched[s].call = cref
    BY <2>1 DEF Waiting
  <2>5. DialTimers' = {s} /\ sched'[s].call = cref
    BY <1>2, <2>4
  <2>6. QED
    BY <1>1, <2>1, <2>2, <2>3, <2>5 DEF Waiting
<1>5. DialInv'
  BY <1>1, <1>2, <1>4 DEF Own, DialInv
<1>6. HungWaits'
  BY <1>1, <1>3 DEF Own, CallInv, HungWaits
<1>7. OneReference'
  BY <1>1, <1>3 DEF Own, CallInv, OneReference
<1>8. InitHasCall'
  <2>1. state' = "CALL_INIT" => state = "CALL_INIT"
    BY DEF Steady, Idle, SmsStates, InitStates
  <2>2. state = "CALL_INIT" => calls'[cref] = calls[cref]
    BY <1>3 DEF Own, CallInv, InitHasCall, OneReference
  <2>3. QED
    BY <1>1, <2>1, <2>2 DEF Own, CallInv, InitHasCall
<1>9. CallHasChannel'
  BY <1>1 DEF Steady, Own, CallInv, CallHasChannel, Calling, Idle, SmsStates, InitStates
<1>10. QED
  BY <1>5, <1>6, <1>7, <1>8, <1>9 DEF Own, CallInv

\* No dial waits, and the driver has no call afterwards.
LEMMA Dropped ==
    ASSUME ~dialInitiated', ~dialHangup', NoDial(sched'), NoHung(calls'),
           gsmcall' \in {NoCref, Stale}, state' # "CALL_INIT",
           state' \in Calling => gsmcall' # NoCref
    PROVE  Own'
<1>1. DialInv'
  BY DEF DialInv, DialTimers, NoDial
<1>2. gsmcall' \notin Crefs
  BY Bounds DEF Crefs, NoCref, Stale
<1>3. QED
  BY <1>1, <1>2 DEF Own, CallInv, OneReference, HungWaits, NoHung, InitHasCall, CallHasChannel, Calling

\* The step takes neither the call nor the timer of a dial that waits on.
Spared == DialHasCall' \/ (dialInitiated => gsmcall' # NoCref /\ retrans = 0)

LEMMA NotTaken ==
    ASSUME Spared, dialInitiated, dialInitiated', gsmcall' = NoCref
    PROVE  FALSE
BY DEF Spared, DialHasCall

LEMMA DialStays ==
    ASSUME Own, Spared, dialInitiated, dialInitiated', Keeps(sched, sched', {retrans})
    PROVE  DialTimers' # {}
<1>1. PICK s \in Slots : sched[s].fn = "dial"
  BY DEF Own, DialInv, Waiting, DialTimers
<1>2. CASE retrans = 0
  BY <1>1, <1>2, NotZero DEF Keeps, DialTimers
<1>3. QED
  BY <1>2 DEF Spared, DialHasCall

\* While a dial waits allogsm_hangup does not touch its flag.
LEMMA AllogsmHangupWaits ==
    ASSUME NEW sc, NEW cs, NEW c, dialInitiated, NEW ACTION Go, NEW ACTION Stay,
           AllogsmHangup(sc, cs, c, Go, Stay)
    PROVE  dialInitiated'
BY DEF AllogsmHangup, dialVars

(***************************************************************************)
(* The lines the modem sends.                                              *)
(***************************************************************************)
\* Lines that only read: the slots stay, and the record is looked up.
LEMMA ReadsSteady ==
    ASSUME Groups, Own, Reads, UNCHANGED <<timerVars, dialVars>>,
           \/ state' = state \/ state' \in Idle
           \/ state \notin Idle /\ state' \in {"RINGING", "HANGUP_REQ"}
           \/ state \in Calling /\ state' \in Calling \ {"CALL_INIT"}
    PROVE  Own'
BY SteadyOwns DEF Reads, Steady, timerVars, DialsStay

LEMMA RebootOwns == ASSUME Groups, Own, NEW l, Reboot(l) PROVE Own'
<1>1. state' = "INIT" /\ UNCHANGED <<timerVars, cref, gsmcall, dialVars>>
  BY DEF Reboot
<1>2. CASE calls' = Here
  BY <1>1, <1>2, SteadyOwns DEF Steady, Idle, InitStates, timerVars, DialsStay
<1>3. CASE state = "CALL_ACTIVE" /\ calls' = Ended
  <2>1. ~dialInitiated
    BY <1>3 DEF Own, DialInv, Waiting, Idle, SmsStates, InitStates
  <2>2. NoDial(sched) /\ ~dialHangup /\ NoHung(Ended) /\ Ended \in Pool
    BY <2>1, AtEase
  <2>3. DialInv'
    BY <1>1, <2>1, <2>2 DEF DialInv, DialTimers, NoDial, timerVars, dialVars
  <2>4. HungWaits'
    BY <1>3, <2>2 DEF HungWaits, NoHung
  <2>5. OneReference'
    BY <1>1, <1>3, HereKept, HereType DEF Groups, OneReference, Own, CallInv, Ended, Pool
  <2>6. InitHasCall' /\ CallHasChannel'
    BY <1>1 DEF InitHasCall, CallHasChannel
  <2>7. QED
    BY <2>3, <2>4, <2>5, <2>6 DEF Own, CallInv
<1>4. QED
  BY <1>2, <1>3 DEF Reboot, Ended

LEMMA EventDownOwns ==
    ASSUME Groups, Own, Spared, NEW l, NEW ACTION Stay, EventDown(l, Stay),
           Stay => state' \in InitStates
    PROVE  Own'
<1>1. gsmcall' = NoCref
  BY DEF EventDown
<1>2. CASE dialInitiated
  <2>1. dialInitiated'
    BY <1>2, AllogsmHangupWaits DEF EventDown, dialVars
  <2>2. QED
    BY <1>1, <1>2, <2>1, NotTaken
<1>3. CASE ~dialInitiated
  <2>1. /\ sched \in Table /\ NoDial(sched) /\ ~dialHangup
        /\ Here \in Pool /\ NoHung(Here) /\ cref \in Crefs
    BY <1>3, AtEase
  <2>2. NoHung(Destroyed(Here, cref)) /\ NoDial(Orphaned(sched, cref))
    BY <2>1, NoHungKept, NoDialOrphaned
  <2>3. CASE /\ Stay
             /\ calls' = Here
             /\ UNCHANGED <<sched, hangupSched, dialVars>>
    BY <1>1, <1>3, <2>1, <2>3, Dropped DEF dialVars, InitStates, Calling
  <2>4. CASE /\ Stay
             /\ calls' = Destroyed(Here, cref)
             /\ sched' = Orphaned(sched, cref)
             /\ UNCHANGED <<hangupSched, dialVars>>
    BY <1>1, <1>3, <2>1, <2>2, <2>4, Dropped DEF dialVars, InitStates, Calling
  <2>5. CASE gsmcall \in Crefs /\ AllogsmHangup(sched, Here, gsmcall, HangsUp(l), Stay)
    <3>1. /\ NoDial(sched') /\ NoHung(calls')
          /\ ~dialInitiated' /\ ~dialHangup'
          /\ HangsUp(l) \/ Stay
      BY <1>3, <2>1, <2>5, AllogsmHangupEase
    <3>2. state' \in InitStates \cup {"HANGUP_REQ"}
      BY <3>1, HangsUpState
    <3>3. QED
      BY <1>1, <3>1, <3>2, Dropped DEF InitStates, Calling
  <2>6. QED
    BY <1>3, <2>3, <2>4, <2>5 DEF EventDown
<1>4. QED
  BY <1>2, <1>3

LEMMA InitReadsOwns == ASSUME Groups, Own, Spared, NEW l, InitReads(l) PROVE Own'
<1>1. ASSUME NEW s \in InitStates, InitMoves(s, l)
      PROVE  state' \in InitStates
  BY <1>1 DEF InitMoves
<1>2. CASE EventDown(l, InitMoves("INIT", l))
  <2>1. InitMoves("INIT", l) => state' \in InitStates
    BY <1>1 DEF InitStates
  <2>2. QED
    BY <1>2, <2>1, EventDownOwns
<1>3. CASE EventDown(l, \E s \in InitStates : InitMoves(s, l))
  <2>1. (\E s \in InitStates : InitMoves(s, l)) => state' \in InitStates
    BY <1>1
  <2>2. QED
    BY <1>3, <2>1, EventDownOwns
<1>4. CASE /\ calls' = Here /\ UNCHANGED <<cref, gsmcall, timerVars, dialVars>>
           /\ state' \in InitStates \cup {"READY"}
  BY <1>4, SteadyOwns DEF Steady, Idle, timerVars, DialsStay
<1>5. ASSUME Switch("READY", "ELSE", l)
      PROVE  state' \in InitStates \cup {"READY"}
  BY <1>5, SwitchState DEF InitStates
<1>6. CASE /\ \E s \in InitStates : InitMoves(s, l)
           /\ calls' = Here
           /\ sched' = Swept(sched)
           /\ UNCHANGED <<cref, gsmcall, dialVars>>
  <2>1. Keeps(sched, sched', {retrans}) /\ FewerDials
    BY <1>6, DeletedKeeps DEF Keeps, Swept, FewerDials, Groups, TimersOK
  <2>2. dialInitiated => DialTimers' # {}
    BY <1>6, <2>1, DialStays DEF dialVars
  <2>3. QED
    BY <1>1, <1>6, <2>1, <2>2, SteadyOwns DEF Steady, Idle
<1>7. CASE /\ Assign("INIT", l)
           /\ \E s \in Slots : /\ LowestFree(sched, s)
                               /\ sched' = [sched EXCEPT ![s] = Timer("start", cref)]
           /\ Reads /\ UNCHANGED dialVars
  <2>1. DialsStay
    BY <1>7, FreeIsNone DEF DialsStay, LowestFree, Timer, Groups, TimersOK, Table
  <2>2. QED
    BY <1>7, <2>1, SteadyOwns DEF Steady, Assign, Reads, Idle, InitStates
<1>8. CASE UNCHANGED <<timerVars, dialVars>> /\ Reads /\ state' \in InitStates \cup {"READY"}
  BY <1>4, <1>8 DEF Reads
<1>9. QED
  <2>1. CASE EventDown(l, InitMoves("INIT", l)) \/ EventDown(l, \E s \in InitStates : InitMoves(s, l))
    BY <1>2, <1>3, <2>1
  <2>2. CASE state' = "INIT" /\ Reads /\ UNCHANGED <<timerVars, dialVars>>
    BY <1>8, <2>2 DEF InitStates
  <2>3. CASE (\E s \in InitStates : InitMoves(s, l)) /\ Reads /\ UNCHANGED <<timerVars, dialVars>>
    BY <1>1, <1>8, <2>3
  <2>4. CASE Switch("READY", "ELSE", l) /\ Reads /\ UNCHANGED <<timerVars, dialVars>>
    BY <1>5, <1>8, <2>4
  <2>5. QED
    BY <1>6, <1>7, <2>1, <2>2, <2>3, <2>4 DEF InitReads

LEMMA EventHangupDrops ==
    ASSUME NEW cs \in Pool, NoHung(cs), NEW sc \in Table, NoDial(sc), EventHangup(cs, sc)
    PROVE  gsmcall' = NoCref /\ NoHung(calls') /\ NoDial(sched')
BY NoHungKept, NoDialOrphaned DEF EventHangup

LEMMA ReleaseOwns == ASSUME Groups, Own, Spared, NEW l, Release(l) PROVE Own'
<1>1. gsmcall' = NoCref /\ state' = "READY" /\ UNCHANGED dialVars
  BY DEF Release, EventHangup, Assign
<1>2. CASE dialInitiated
  BY <1>1, <1>2, NotTaken DEF dialVars
<1>3. CASE ~dialInitiated
  <2>1. /\ sched \in Table /\ NoDial(sched) /\ ~dialHangup
        /\ Here \in Pool /\ NoHung(Here)
    BY <1>3, AtEase
  <2>2. /\ Orphaned(sched, cref) \in Table /\ NoDial(Orphaned(sched, cref))
        /\ NoHung(Destroyed(Here, cref)) /\ Destroyed(Here, cref) \in Pool
    BY <2>1, NoDialOrphaned, NoHungKept, DestroyedType
  <2>3. NoHung(calls') /\ NoDial(sched')
    BY <2>2, EventHangupDrops DEF Release
  <2>4. QED
    BY <1>1, <1>3, <2>1, <2>3, Dropped DEF dialVars, Calling
<1>4. QED
  BY <1>2, <1>3

LEMMA ReadyCountsOwns == ASSUME Groups, Own, NEW l, ReadyCounts(l) PROVE Own'
<1>1. /\ calls' = [Here EXCEPT ![cref].rung = TRUE] /\ Here[cref].new
      /\ UNCHANGED <<modemVars, timerVars, cref, gsmcall, dialVars>>
  BY DEF ReadyCounts
<1>2. ~dialInitiated
  BY <1>1, HereKept DEF Groups, Own, DialInv, Waiting
<1>3. NoDial(sched) /\ ~dialHangup /\ NoHung(Here) /\ Here \in Pool /\ cref \in Crefs
  BY <1>2, AtEase
<1>4. DialInv'
  BY <1>1, <1>2, <1>3 DEF DialInv, DialTimers, NoDial, timerVars, dialVars
<1>5. HungWaits'
  BY <1>1, <1>3 DEF HungWaits, NoHung, Pool
<1>6. OneReference'
  BY <1>1, <1>3, HereKept DEF Groups, OneReference, Own, CallInv, Pool
<1>7. InitHasCall' /\ CallHasChannel'
  BY <1>1 DEF InitHasCall, CallHasChannel, Own, CallInv, ReadyCounts, modemVars
<1>8. QED
  BY <1>4, <1>5, <1>6, <1>7 DEF Own, CallInv

\* Only a record that is not a dial's is announced.
LEMMA ReadyAnnouncesOwns == ASSUME Groups, Own, NEW l, ReadyAnnounces(l) PROVE Own'
<1>1. cref' = cref
  BY DEF ReadyAnnounces
<1>2. ~dialInitiated
  BY HereKept DEF Groups, Own, DialInv, Waiting, ReadyAnnounces, Announces
<1>3. /\ sched \in Table /\ NoDial(sched) /\ ~dialHangup
      /\ Announced \in Pool /\ NoHung(Announced) /\ cref \in Crefs
  BY <1>2, AtEase
<1>4. Assign("RING", l) => state' = "RING"
  BY DEF Assign
<1>5. CASE /\ Assign("RING", l)
           /\ calls' = Announced
           /\ gsmcall' = cref
           /\ UNCHANGED <<sched, hangupSched, dialVars>>
  <2>1. DialInv'
    BY <1>2, <1>3, <1>5 DEF DialInv, DialTimers, NoDial, dialVars
  <2>2. HungWaits'
    BY <1>3, <1>5 DEF HungWaits, NoHung
  <2>3. OneReference'
    BY <1>1, <1>3, <1>5, HereKept, HereType DEF Groups, OneReference, Announced, Pool
  <2>4. InitHasCall' /\ CallHasChannel'
    BY <1>4, <1>5 DEF InitHasCall, CallHasChannel
  <2>5. QED
    BY <2>1, <2>2, <2>3, <2>4 DEF Own, CallInv
<1>6. CASE /\ AllogsmHangup(sched, Announced, cref, HangsUp(l), Assign("RING", l))
           /\ gsmcall' = NoCref
  <2>1. /\ NoDial(sched') /\ NoHung(calls')
        /\ ~dialInitiated' /\ ~dialHangup'
        /\ HangsUp(l) \/ Assign("RING", l)
    BY <1>2, <1>3, <1>6, AllogsmHangupEase
  <2>2. state' \in {"RING", "HANGUP_REQ"}
    BY <1>4, <2>1, HangsUpState
  <2>3. QED
    BY <1>6, <2>1, <2>2, Dropped DEF Calling
<1>7. QED
  BY <1>5, <1>6 DEF ReadyAnnounces

LEMMA ReadyNetworkOwns == ASSUME Groups, Own, Spared, NEW l, ReadyNetwork(l) PROVE Own'
<1>1. CASE EventDown(l, Assign("INIT", l))
  <2>1. Assign("INIT", l) => state' \in InitStates
    BY DEF Assign, InitStates
  <2>2. QED
    BY <1>1, <2>1, EventDownOwns
<1>2. CASE EventDown(l, InitMoves("INIT", l))
  <2>1. InitMoves("INIT", l) => state' \in InitStates
    BY DEF InitMoves, InitStates
  <2>2. QED
    BY <1>2, <2>1, EventDownOwns
<1>3. CASE /\ IF l = "CSQ_1" THEN Switch("READY", "", l) ELSE Assign("READY", l)
           /\ calls' = Here
           /\ UNCHANGED <<timerVars, cref, gsmcall, answerRetry, dialVars>>
  <2>1. state' \in {"READY", "INIT"}
    BY <1>3, SwitchState DEF Assign
  <2>2. QED
    BY <1>3, <2>1, SteadyOwns DEF Steady, timerVars, DialsStay, Idle, InitStates
<1>4. QED
  BY <1>1, <1>2, <1>3 DEF ReadyNetwork

LEMMA PreAnswerFailsOwns == ASSUME Groups, Own, NEW l, PreAnswerFails(l) PROVE Own'
<1>1. state = "PRE_ANSWER" /\ cref' = cref
  BY DEF PreAnswerFails
<1>2. ~dialInitiated
  BY <1>1 DEF Own, DialInv, Waiting, Idle, SmsStates, InitStates
<1>3. sched \in Table /\ NoDial(sched) /\ ~dialHangup /\ Here \in Pool /\ NoHung(Here) /\ cref \in Crefs
  BY <1>2, AtEase
<1>4. CASE /\ Switch("PRE_ANSWER", "ATA", l)
           /\ calls' = Here
           /\ UNCHANGED <<gsmcall, sched, hangupSched, dialVars>>
  <2>1. state' = state
    BY <1>1, <1>4, SwitchState
  <2>2. QED
    BY <1>1, <1>4, <2>1, SteadyOwns DEF Steady, DialsStay
<1>5. CASE /\ AllogsmHangup(sched, Here, cref, HangsUp(l), Assign("PRE_ANSWER", l))
           /\ gsmcall' = IF gsmcall = NoCref THEN NoCref ELSE Stale
  <2>1. /\ NoDial(sched') /\ NoHung(calls')
        /\ ~dialInitiated' /\ ~dialHangup'
        /\ HangsUp(l) \/ Assign("PRE_ANSWER", l)
    BY <1>2, <1>3, <1>5, AllogsmHangupEase
  <2>2. state' \in {"PRE_ANSWER", "HANGUP_REQ"}
    BY <2>1, HangsUpState DEF Assign
  <2>3. gsmcall' = Stale
    BY <1>1, <1>5 DEF Own, CallInv, CallHasChannel
  <2>4. QED
    BY <2>1, <2>2, <2>3, Dropped DEF NoCref, Stale
<1>6. QED
  BY <1>4, <1>5 DEF PreAnswerFails

LEMMA ActiveEndsOwns == ASSUME Groups, Own, NEW l, ActiveEnds(l) PROVE Own'
<1>1. state = "CALL_ACTIVE" /\ gsmcall' = NoCref
  BY DEF ActiveEnds
<1>2. ~dialInitiated
  BY <1>1 DEF Own, DialInv, Waiting, Idle, SmsStates, InitStates
<1>3. sched \in Table /\ NoDial(sched) /\ ~dialHangup /\ Ended \in Pool /\ NoHung(Ended) /\ cref \in Crefs
  BY <1>2, AtEase
<1>4. /\ NoDial(sched') /\ NoHung(calls')
      /\ ~dialInitiated' /\ ~dialHangup'
      /\ ReadyThenHangsUp(l) \/ Switch("READY", "ELSE", l)
  BY <1>2, <1>3, AllogsmHangupEase DEF ActiveEnds
<1>5. state' \in {"READY", "INIT", "HANGUP_REQ"}
  BY <1>4, SwitchState DEF ReadyThenHangsUp
<1>6. QED
  BY <1>1, <1>4, <1>5, Dropped DEF Calling

LEMMA PlainCallOwns ==
    ASSUME Groups, Own, NEW l,
           RingRings(l) \/ PreAnswerOk(l) \/ ActiveWaiting(l) \/ Proceeds(l) \/ Ignores(l)
    PROVE  Own'
<1>1. ReadsOnly
  BY DEF RingRings, PreAnswerOk, ActiveWaiting, Proceeds, Ignores
<1>2. \/ state' = state
      \/ state = "RING" /\ state' = "RINGING"
      \/ state \in Calling /\ state' \in Calling \ {"CALL_INIT"}
  <2>1. CASE RingRings(l) \/ PreAnswerOk(l) \/ Ignores(l)
    BY <2>1 DEF RingRings, PreAnswerOk, Ignores, Assign, Calling
  <2>2. CASE ActiveWaiting(l)
    BY <2>2, SwitchState DEF ActiveWaiting
  <2>3. CASE Proceeds(l)
    <3>1. Switch("CALL_PROCEEDING", "", l) => state' = "CALL_PROCEEDING"
      BY DEF Switch
    <3>2. QED
      BY <2>3, <3>1 DEF Proceeds, Assign, Calling
  <2>4. QED
    BY <2>1, <2>2, <2>3
<1>3. "RING" \notin Idle
  BY DEF Idle, SmsStates, InitStates
<1>4. QED
  BY <1>1, <1>2, <1>3, ReadsSteady DEF ReadsOnly

LEMMA DialGivenUpOwns == ASSUME Groups, Own, NEW l, DialGivenUp(l) PROVE Own'
<1>1. state \in Calling /\ state \notin Idle
  BY DEF DialGivenUp, Unexpected, Calling, Idle, SmsStates, InitStates
<1>2. ~dialInitiated
  BY <1>1 DEF Own, DialInv, Waiting
<1>3. sched \in Table /\ NoDial(sched) /\ ~dialHangup /\ Here \in Pool /\ NoHung(Here) /\ cref \in Crefs
  BY <1>2, AtEase
<1>4. cref' = cref /\ UNCHANGED dialVars
  BY DEF DialGivenUp
<1>5. CASE /\ ArmHangup(sched, 0)
           /\ Switch("HANGUP_REQ", "ATH", l)
           /\ calls' = Here
           /\ UNCHANGED gsmcall
  <2>1. NoDial(sched') /\ state' = "HANGUP_REQ"
    BY <1>3, <1>5, NoDialArmed, SwitchState
  <2>2. QED
    BY <1>1, <1>3, <1>4, <1>5, <2>1, SteadyOwns DEF Steady, NoDial, DialsStay
<1>6. ASSUME state' = "READY", NEW s \in Slots, LowestFree(sched, s),
             EventHangup(Destroyed(Here, cref),
                         Orphaned([sched EXCEPT ![s] = Timer("hangup", NoCref)], cref))
      PROVE  Own'
  <2> DEFINE tc == [sched EXCEPT ![s] = Timer("hangup", NoCref)]
  <2>1. tc \in Table /\ NoDial(tc)
    BY <1>3, TimerType DEF NoDial, Table, Timer
  <2>2. EventHangup(Destroyed(Here, cref), Orphaned(tc, cref))
    BY <1>6
  <2> HIDE DEF tc
  <2>3. /\ Orphaned(tc, cref) \in Table /\ NoDial(Orphaned(tc, cref))
        /\ NoHung(Destroyed(Here, cref)) /\ Destroyed(Here, cref) \in Pool
    BY <1>3, <2>1, NoDialOrphaned, NoHungKept, DestroyedType
  <2>4. NoDial(sched') /\ gsmcall' = NoCref /\ NoHung(calls')
    BY <2>2, <2>3, EventHangupDrops
  <2>5. QED
    BY <1>2, <1>3, <1>4, <1>6, <2>4, Dropped DEF dialVars, Calling
<1>7. QED
  BY <1>5, <1>6 DEF DialGivenUp

LEMMA HangupEndsOwns == ASSUME Groups, Own, NEW l, HangupEnds(l) PROVE Own'
<1>1. state = "HANGUP_REQ" /\ state' = "READY" /\ UNCHANGED dialVars
  BY DEF HangupEnds, Assign
<1>2. ~dialInitiated
  BY <1>1 DEF Own, DialInv, Waiting, Idle, SmsStates, InitStates
<1>3. sched \in Table /\ NoDial(sched) /\ ~dialHangup /\ Ended \in Pool /\ NoHung(Ended)
  BY <1>2, AtEase
<1>4. gsmcall' = NoCref /\ NoHung(calls') /\ NoDial(sched')
  BY <1>3, EventHangupDrops, NoDialKept, DeletedType DEF HangupEnds
<1>5. QED
  BY <1>1, <1>2, <1>3, <1>4, Dropped DEF dialVars, Calling

LEMMA CallLineOwns == ASSUME Groups, Own, Spared, NEW l, CallLine(l) PROVE Own'
BY ReleaseOwns, ReadyCountsOwns, ReadyAnnouncesOwns, PlainCallOwns, PreAnswerFailsOwns,
   ActiveEndsOwns, DialGivenUpOwns, HangupEndsOwns DEF CallLine

LEMMA PlainSmsOwns ==
    ASSUME Groups, Own, NEW l,
           SendingContinues(l) \/ Prompted(l) \/ SmsNetwork(l) \/ SentRetries(l)
    PROVE  Own'
<1>1. Reads /\ UNCHANGED <<timerVars, dialVars>>
  BY DEF SendingContinues, Prompted, SmsNetwork, SentRetries, ReadsOnly
<1>2. state' \in Idle
  BY SwitchState DEF SendingContinues, Prompted, SmsNetwork, SentRetries, Assign, Idle, SmsStates
<1>3. QED
  BY <1>1, <1>2, ReadsSteady

\* The slot a verdict deletes does not hold the dial, unless it is the slot of
\* retranstimer too.
LEMMA VerdictSpares ==
    ASSUME Groups, Own, Held, NEW sc \in Table, NEW ok, NEW event, UpdateSmsStatus(sc, ok, event),
           \A s \in Slots : sched[s].fn = "dial" \/ sc[s].fn = "dial" => sc[s] = sched[s]
    PROVE  /\ FewerDials
           /\ dialInitiated => \A s \in Slots \ {retrans} : sched[s].fn = "dial" => sched'[s].fn = "dial"
<1>1. \A s \in Slots : /\ s # smsSched => sched'[s] = sc[s]
                       /\ s = smsSched => sched'[s].fn = "none"
  BY DeletedKeeps DEF UpdateSmsStatus
<1>2. FewerDials
  BY <1>1 DEF FewerDials
<1>3. ASSUME dialInitiated, NEW s \in Slots \ {retrans}, sched[s].fn = "dial"
      PROVE  sched'[s].fn = "dial"
  BY <1>1, <1>3 DEF Held, DialElsewhere
<1>4. QED
  BY <1>2, <1>3

LEMMA VerdictDials ==
    ASSUME Groups, Own, Spared, FewerDials, dialInitiated' = dialInitiated,
           dialInitiated => \A s \in Slots \ {retrans} : sched[s].fn = "dial" => sched'[s].fn = "dial"
    PROVE  dialInitiated => DialTimers' # {}
<1> SUFFICES ASSUME dialInitiated
             PROVE  DialTimers' # {}
  OBVIOUS
<1>1. PICK s \in Slots : sched[s].fn = "dial"
  BY DEF Own, DialInv, Waiting, DialTimers
<1>2. CASE retrans = 0
  BY <1>1, <1>2, NotZero DEF DialTimers
<1>3. QED
  BY <1>2 DEF Spared, DialHasCall

LEMMA FiledOwns ==
    ASSUME Groups, Own, Held, Spared, NEW l,
           SendingFails(l) \/ SmsRing(l) \/ SentOk(l) \/ SentNoise(l) \/ SentFails(l)
    PROVE  Own'
<1>1. sched \in Table
  BY DEF Groups, TimersOK
<1>2. Reads /\ UNCHANGED dialVars
  BY DEF SendingFails, SmsRing, SentOk, SentNoise, SentFails
<1>3. state' \in {"READY", "INIT"}
  BY SwitchState DEF SendingFails, SmsRing, SentOk, SentNoise, SentFails
<1>4. PICK ok, event \in BOOLEAN : UpdateSmsStatus(sched, ok, event)
  BY DEF SendingFails, SmsRing, SentOk, SentNoise, SentFails, Files
<1>5. FewerDials /\ (dialInitiated => DialTimers' # {})
  BY <1>1, <1>2, <1>4, VerdictSpares, VerdictDials DEF dialVars
<1>6. QED
  BY <1>2, <1>3, <1>5, SteadyOwns DEF Steady, Reads, Idle, InitStates

\* A process that ends on a line leaves the rest as it is.
LEMMA SendingNoiseOwns == ASSUME Groups, Own, NEW l, SendingNoise(l) PROVE Own'
BY SteadyOwns DEF SendingNoise, Steady, DialsStay, modemVars, timerVars, callVars

LEMMA LineOwns == ASSUME Groups, Own, Held, Spared, NEW l, Line(l) PROVE Own'
<1>1. CASE SmsLine(l)
  BY <1>1, PlainSmsOwns, FiledOwns, SendingNoiseOwns DEF SmsLine
<1>2. QED
  BY <1>1, RebootOwns, InitReadsOwns, ReadyNetworkOwns, PlainCallOwns, CallLineOwns DEF Line

(***************************************************************************)
(* The timers.                                                             *)
(***************************************************************************)
LEMMA ArmSmsSpares ==
    ASSUME NEW sc \in Table, ArmSms(sc)
    PROVE  \A s \in Slots : sc[s].fn = "dial" \/ sched'[s].fn = "dial" => sched'[s] = sc[s]
BY FreeIsNone, TimerType DEF ArmSms, LowestFree, Table

LEMMA ArmHangupSpares ==
    ASSUME NEW sc \in Table, ArmHangup(sc, 0)
    PROVE  \A s \in Slots : sc[s].fn = "dial" \/ sched'[s].fn = "dial" => sched'[s] = sc[s]
<1>1. PICK s \in Slots : /\ LowestFree(sc, s)
                         /\ sched' = Deleted([sc EXCEPT ![s] = Timer("hangup", NoCref)], 0)
  BY DEF ArmHangup
<1> DEFINE tc == [sc EXCEPT ![s] = Timer("hangup", NoCref)]
<1>2. /\ tc \in Table /\ tc[s].fn = "hangup" /\ sc[s].fn = "none"
      /\ \A r \in Slots : r # s => tc[r] = sc[r]
  BY <1>1, TimerType, FreeIsNone DEF LowestFree, Table, Timer
<1>3. sched' = Deleted(tc, 0)
  BY <1>1
<1> HIDE DEF tc
<1>4. \A r \in Slots : sched'[r] = tc[r]
  BY <1>2, <1>3, DeletedKeeps, NotZero
<1>5. QED
  BY <1>2, <1>4

LEMMA ClearedSpares ==
    ASSUME sched \in Table, NEW s \in Slots, sched[s].fn # "dial"
    PROVE  \A r \in Slots : sched[r].fn = "dial" \/ Cleared(s)[r].fn = "dial" => Cleared(s)[r] = sched[r]
BY FreeIsNone DEF Cleared, Table

LEMMA SmsTimerOwns == ASSUME Groups, Own, Held, Spared, NEW s \in Slots, SmsTimer(s) PROVE Own'
<1>1. UNCHANGED callVars /\ UNCHANGED dialVars
  BY DEF SmsTimer
<1>2. sched \in Table /\ Cleared(s) \in Table /\ sched[s].fn # "dial"
  BY ClearedType DEF Groups, TimersOK, SmsTimer, Fires
<1>3. \A r \in Slots : sched[r].fn = "dial" \/ Cleared(s)[r].fn = "dial" => Cleared(s)[r] = sched[r]
  BY <1>2, ClearedSpares
<1>4. state' \in Idle
  BY SwitchState DEF SmsTimer, SmsTimerLate, SmsTimerRetries, SmsTimerGivesUp, modemVars,
         Idle, SmsStates, InitStates
<1>5. DialsStay \/ (FewerDials /\ (dialInitiated => DialTimers' # {}))
  <2>1. CASE SmsTimerLate(s)
    BY <1>3, <2>1 DEF SmsTimerLate, DialsStay
  <2>2. CASE SmsTimerRetries(s)
    BY <1>2, <1>3, <2>2, ArmSmsSpares DEF SmsTimerRetries, DialsStay
  <2>3. CASE SmsTimerGivesUp(s)
    BY <1>1, <1>2, <1>3, <2>3, VerdictSpares, VerdictDials DEF SmsTimerGivesUp, dialVars
  <2>4. QED
    BY <2>1, <2>2, <2>3 DEF SmsTimer
<1>6. QED
  BY <1>1, <1>4, <1>5, SteadyOwns DEF Steady, callVars

LEMMA HangupTimerOwns == ASSUME Groups, Own, NEW s \in Slots, HangupTimer(s) PROVE Own'
<1>1. UNCHANGED callVars /\ UNCHANGED dialVars
  BY DEF HangupTimer
<1>2. sched \in Table /\ Cleared(s) \in Table /\ sched[s].fn # "dial"
  BY ClearedType DEF Groups, TimersOK, HangupTimer, Fires
<1>3. \A r \in Slots : sched[r].fn = "dial" \/ Cleared(s)[r].fn = "dial" => Cleared(s)[r] = sched[r]
  BY <1>2, ClearedSpares
<1>4. state' = state
  BY SwitchState DEF HangupTimer, HangupRepeats, modemVars
<1>5. \A r \in Slots : sched[r].fn = "dial" \/ sched'[r].fn = "dial" => sched'[r] = sched[r]
  <2>1. CASE HangupRepeats(s)
    BY <1>2, <1>3, <2>1, ArmHangupSpares DEF HangupRepeats
  <2>2. CASE sched' = Cleared(s)
    BY <1>3, <2>2
  <2>3. QED
    BY <2>1, <2>2 DEF HangupTimer
<1>6. QED
  BY <1>1, <1>4, <1>5, SteadyOwns DEF Steady, DialsStay, callVars

LEMMA StartTimerOwns == ASSUME Groups, Own, NEW s \in Slots, StartTimer(s) PROVE Own'
<1>1. UNCHANGED callVars /\ UNCHANGED dialVars /\ sched' = Cleared(s)
  BY DEF StartTimer
<1>2. sched \in Table /\ sched[s].fn # "dial"
  BY DEF Groups, TimersOK, StartTimer, Fires
<1>3. DialsStay
  BY <1>1, <1>2, ClearedSpares DEF DialsStay
<1>4. state' \in {state, "INIT"}
  BY SwitchState DEF StartTimer, modemVars
<1>5. QED
  BY <1>1, <1>3, <1>4, SteadyOwns DEF Steady, callVars, Idle, InitStates

\* The timer that fires is the one dial that waits.
LEMMA DialFires ==
    ASSUME Groups, Own, NEW s \in Slots, Fires(s, "dial")
    PROVE  /\ dialInitiated /\ Waiting
           /\ DialTimers = {s} /\ sched[s].call = cref
           /\ cref \in Crefs /\ cref # NoCref
           /\ Cleared(s) \in Table /\ NoDial(Cleared(s))
<1>1. s \in DialTimers
  BY DEF Fires, DialTimers
<1>2. dialInitiated /\ Waiting
  BY <1>1 DEF Own, DialInv
<1>3. DialTimers = {s} /\ sched[s].call = cref
  BY <1>1, <1>2 DEF Waiting
<1>4. cref \in Crefs /\ cref # NoCref /\ sched \in Table /\ Cleared(s) \in Table
  BY Bounds, ClearedType DEF Groups, CallsOK, TimersOK, Crefs, NoCref
<1>5. NoDial(Cleared(s))
  BY <1>3, <1>4, FreeIsNone DEF NoDial, DialTimers, Cleared, Table
<1>6. QED
  BY <1>2, <1>3, <1>4, <1>5

\* A dial that waits takes another slot and changes nothing else: at the limit
\* gsm_dial_retry hangs a record up that is hung up already.
LEMMA DialWaitsOn ==
    ASSUME Groups, Own, NEW s \in Slots, Fires(s, "dial"), DialWaits(s, cref)
    PROVE  /\ \E r \in Slots : sched' = [Cleared(s) EXCEPT ![r] = Timer("dial", cref)]
           /\ calls' = calls /\ UNCHANGED dialVars /\ state' = state
<1>1. Waiting /\ cref # NoCref
  BY DialFires
<1>2. PICK r \in Slots :
          LET sc == [Cleared(s) EXCEPT ![r] = Timer("dial", cref)]
          IN  IF dialRetry' = DialLimit /\ dialHangup /\ cref # NoCref
              THEN AllogsmHangup(sc, calls, cref, HangsUp(NoLine), ModemStays)
              ELSE /\ sched' = sc
                   /\ UNCHANGED <<modemVars, hangupSched, calls, dialVars>>
  BY DEF DialWaits
<1> DEFINE sc == [Cleared(s) EXCEPT ![r] = Timer("dial", cref)]
<1>3. CASE dialHangup /\ AllogsmHangup(sc, calls, cref, HangsUp(NoLine), ModemStays)
  <2>1. calls[cref].hung
    BY <1>1, <1>3 DEF Waiting
  <2>2. QED
    BY <1>3, <2>1 DEF AllogsmHangup, ModemStays, modemVars
<1>4. CASE sched' = sc /\ UNCHANGED <<modemVars, hangupSched, calls, dialVars>>
  BY <1>4 DEF modemVars
<1>5. QED
  BY <1>2, <1>3, <1>4

LEMMA DialWaitsOwns ==
    ASSUME Groups, Own, NEW s \in Slots, Fires(s, "dial"), DialWaits(s, cref), cref' = cref
    PROVE  Own'
<1>1. /\ dialInitiated /\ Waiting /\ DialTimers = {s} /\ cref \in Crefs /\ cref # NoCref
      /\ Cleared(s) \in Table /\ NoDial(Cleared(s))
  BY DialFires
<1>2. PICK r \in Slots : sched' = [Cleared(s) EXCEPT ![r] = Timer("dial", cref)]
  BY DialWaitsOn
<1>3. calls' = calls /\ UNCHANGED dialVars /\ state' = state
  BY DialWaitsOn
<1>4. gsmcall' = gsmcall
  BY DEF DialWaits
<1>5. DialTimers' = {r} /\ sched'[r].call = cref
  BY <1>1, <1>2, TimerType DEF DialTimers, NoDial, Table
<1>6. Waiting'
  BY <1>1, <1>3, <1>4, <1>5 DEF Waiting, dialVars
<1>7. DialInv'
  BY <1>1, <1>3, <1>6 DEF DialInv, dialVars
<1>8. CallInv'
  BY <1>3, <1>4 DEF Own, CallInv, OneReference, HungWaits, InitHasCall, CallHasChannel, dialVars
<1>9. QED
  BY <1>7, <1>8 DEF Own

\* Otherwise it dials for a channel that still wants the call, or frees the
\* record of one that does not.
LEMMA DialGoesOnOwns ==
    ASSUME Groups, Own, NEW s \in Slots, Fires(s, "dial"), DialGoesOn(s, cref), cref' = cref
    PROVE  Own'
<1>1. /\ dialInitiated /\ Waiting /\ cref \in Crefs /\ cref # NoCref
      /\ Cleared(s) \in Table /\ NoDial(Cleared(s)) /\ calls \in Pool
  BY DialFires DEF Groups, CallsOK
<1>2. CASE ~dialHangup /\ ModuleDial(Cleared(s)) /\ UNCHANGED <<calls, gsmcall>>
  <2>1. ~dialInitiated' /\ ~dialHangup' /\ NoDial(sched') /\ state' = "CALL_INIT"
    BY <1>1, <1>2, SwitchState DEF ModuleDial
  <2>2. gsmcall = cref /\ calls[cref].live /\ NoHung(calls)
    BY <1>1, <1>2 DEF Waiting, Own, CallInv, HungWaits, NoHung
  <2>3. DialInv'
    BY <2>1 DEF DialInv, DialTimers, NoDial
  <2>4. OneReference' /\ HungWaits' /\ InitHasCall'
    BY <1>1, <1>2, <2>2 DEF OneReference, HungWaits, InitHasCall, NoHung, Waiting
  <2>5. CallHasChannel'
    BY <1>1, <1>2, <2>2 DEF CallHasChannel
  <2>6. QED
    BY <2>3, <2>4, <2>5 DEF Own, CallInv
<1>3. CASE /\ dialHangup
           /\ ModuleHangup(Dangling(Cleared(s), cref), retrans, HangsUp(NoLine))
           /\ calls' = Destroyed(calls, cref) /\ UNCHANGED gsmcall
  <2>1. Dangling(Cleared(s), cref) \in Table /\ NoDial(Dangling(Cleared(s), cref))
    BY <1>1, DanglingType, NoDialKept
  <2>2. ~dialInitiated' /\ ~dialHangup' /\ NoDial(sched') /\ state' = "HANGUP_REQ"
    BY <1>3, <2>1, NoDialArmed, HangsUpState DEF ModuleHangup
  <2>3. gsmcall' = Stale
    BY <1>1, <1>3 DEF Waiting
  <2>4. NoHung(calls')
    BY <1>1, <1>3 DEF Own, CallInv, HungWaits, NoHung, Destroyed, Pool, NoCall
  <2>5. QED
    BY <2>2, <2>3, <2>4, Dropped DEF Calling
<1>4. QED
  BY <1>1, <1>2, <1>3 DEF DialGoesOn

LEMMA DialTimerOwns == ASSUME Groups, Own, NEW s \in Slots, DialTimer(s) PROVE Own'
<1>1. Fires(s, "dial") /\ cref' = cref
  BY DEF DialTimer
<1>2. sched[s].call = cref /\ cref # NoCref
  BY <1>1, DialFires
<1>3. QED
  BY <1>1, <1>2, DialWaitsOwns, DialGoesOnOwns DEF DialTimer

(***************************************************************************)
(* What the driver and the CLI call.                                       *)
(***************************************************************************)
LEMMA SendTextOwns == ASSUME Groups, Own, SendText PROVE Own'
<1>1. sched \in Table /\ UNCHANGED callVars /\ UNCHANGED dialVars
  BY DEF Groups, TimersOK, SendText
<1>2. state' \in Idle
  BY SwitchState DEF SendText, Idle, SmsStates
<1>3. \A s \in Slots : sched[s].fn = "dial" \/ sched'[s].fn = "dial" => sched'[s] = sched[s]
  BY <1>1, ArmSmsSpares DEF SendText
<1>4. QED
  BY <1>1, <1>2, <1>3, SteadyOwns DEF Steady, DialsStay, callVars

LEMMA DialOwns == ASSUME Groups, Own, Dial PROVE Own'
<1>1. ~dialInitiated
  BY Bounds DEF Own, DialInv, Waiting, Dial, Groups, CallsOK, Crefs, Stale, NoCref
<1>2. sched \in Table /\ NoDial(sched) /\ ~dialHangup /\ calls \in Pool /\ NoHung(calls)
  BY <1>1, AtEase
<1>3. cref + 1 \in Crefs /\ cref + 1 # NoCref
  <2>1. cref \in Crefs /\ cref < MaxCref
    BY DEF Groups, CallsOK, Dial
  <2>2. QED
    BY <2>1, Bounds DEF Crefs, NoCref
<1>4. /\ cref' = cref + 1 /\ gsmcall' = cref + 1
      /\ calls' = [calls EXCEPT ![cref + 1] = [NoCall EXCEPT !.here = TRUE, !.live = TRUE]]
  BY DEF Dial
<1>5. /\ calls'[cref + 1].here /\ calls'[cref + 1].live /\ ~calls'[cref + 1].new
      /\ ~calls'[cref + 1].unanswered /\ NoHung(calls')
  BY <1>2, <1>3, <1>4 DEF NoCall, NoHung, Pool
<1>6. OneReference' /\ HungWaits' /\ InitHasCall' /\ CallHasChannel'
  BY <1>3, <1>4, <1>5 DEF OneReference, HungWaits, InitHasCall, CallHasChannel, NoHung
<1>7. CASE /\ state \in SmsStates
           /\ ArmDial(sched, cref + 1)
           /\ dialInitiated' = TRUE
           /\ UNCHANGED <<modemVars, hangupSched, dialHangup>>
  <2>1. PICK s \in Slots : sched' = [sched EXCEPT ![s] = Timer("dial", cref + 1)]
    BY <1>7 DEF ArmDial
  <2>2. DialTimers' = {s} /\ sched'[s].call = cref'
    BY <1>2, <1>3, <1>4, <2>1, TimerType DEF DialTimers, NoDial, Table
  <2>3. Waiting'
    BY <1>2, <1>4, <1>5, <1>7, <2>2 DEF Waiting, modemVars, Idle
  <2>4. DialInv'
    BY <1>7, <2>3 DEF DialInv
  <2>5. QED
    BY <1>6, <2>4 DEF Own, CallInv
<1>8. CASE ModuleDial(sched)
  <2>1. ~dialInitiated' /\ ~dialHangup' /\ NoDial(sched')
    BY <1>2, <1>8 DEF ModuleDial
  <2>2. DialInv'
    BY <2>1 DEF DialInv, DialTimers, NoDial
  <2>3. QED
    BY <1>6, <2>2 DEF Own, CallInv
<1>9. QED
  BY <1>7, <1>8 DEF Dial

\* While a dial waits its record is marked and kept; otherwise ATH goes out, or
\* the call has no state that would keep the modem dialling.
LEMMA HangupOwns == ASSUME Groups, Own, Spared, Hangup PROVE Own'
<1>1. /\ gsmcall \in Crefs /\ gsmcall' = Stale /\ cref' = cref
      /\ AllogsmHangup(sched, calls, gsmcall, HangsUp(NoLine), ModemStays)
  BY DEF Hangup
<1>2. gsmcall = cref /\ calls[cref].here /\ calls \in Pool
  BY <1>1 DEF Own, CallInv, OneReference, Groups, CallsOK
<1>3. Stale \notin Crefs /\ Stale # NoCref
  BY Bounds DEF Crefs, Stale, NoCref
<1>4. CASE dialInitiated
  <2>1. Waiting /\ gsmcall # Stale
    BY <1>1, <1>3, <1>4 DEF Own, DialInv
  <2>2. ~dialHangup /\ ~calls[cref].hung /\ calls[cref].live
    BY <1>1, <1>2, <2>1 DEF Waiting, Own, CallInv, HungWaits
  <2>3. /\ ModemStays /\ calls' = [calls EXCEPT ![cref].hung = TRUE]
        /\ dialHangup' = TRUE /\ sched' = Swept(sched) /\ UNCHANGED dialInitiated
    BY <1>1, <1>2, <1>4, <2>2 DEF AllogsmHangup
  <2>4. /\ calls'[cref].here = calls[cref].here /\ calls'[cref].live = calls[cref].live
        /\ calls'[cref].new = calls[cref].new
        /\ calls'[cref].unanswered = calls[cref].unanswered
        /\ calls'[cref].hung
        /\ \A c \in Crefs : c # cref => calls'[c] = calls[c]
    BY <1>1, <1>2, <2>3 DEF Pool, Records
  <2>5. \E s \in Slots : DialTimers' = {s} /\ sched'[s].call = cref
    <3>1. Keeps(sched, sched', {retrans}) /\ FewerDials
      BY <2>3, DeletedKeeps DEF Keeps, Swept, FewerDials, Groups, TimersOK
    <3>2. DialTimers' # {}
      BY <1>4, <2>3, <3>1, DialStays
    <3>3. QED
      BY <2>1, <3>1, <3>2 DEF FewerDials, DialTimers, Waiting
  <2>6. Waiting'
    BY <1>1, <2>1, <2>3, <2>4, <2>5 DEF Waiting, ModemStays, modemVars
  <2>7. DialInv'
    BY <1>4, <2>3, <2>6 DEF DialInv
  <2>8. HungWaits'
    BY <1>1, <2>2, <2>3, <2>4 DEF HungWaits, Own, CallInv
  <2>9. state' \in Idle
    BY <2>6 DEF Waiting
  <2>10. OneReference' /\ InitHasCall' /\ CallHasChannel'
    BY <1>1, <1>3, <2>9
       DEF OneReference, InitHasCall, CallHasChannel, Idle, SmsStates, InitStates
  <2>11. QED
    BY <2>7, <2>8, <2>10 DEF Own, CallInv
<1>5. CASE ~dialInitiated
  <2>1. sched \in Table /\ NoDial(sched) /\ ~dialHangup /\ NoHung(calls)
    BY <1>5, AtEase
  <2>2. /\ NoDial(sched') /\ NoHung(calls')
        /\ ~dialInitiated' /\ ~dialHangup'
        /\ HangsUp(NoLine) \/ (ModemStays /\ ~calls[gsmcall].live)
    BY <1>1, <1>2, <1>5, <2>1, AllogsmHangupEase
  <2>3. state' # "CALL_INIT"
    BY <1>2, <2>2, HangsUpState DEF Own, CallInv, InitHasCall, ModemStays, modemVars
  <2>4. QED
    BY <1>1, <1>3, <2>2, <2>3, Dropped
<1>6. QED
  BY <1>4, <1>5

\* Only an incoming call can be answered, and for it no dial waits.
LEMMA AnswerOwns == ASSUME Groups, Own, Answer PROVE Own'
<1>1. /\ gsmcall \in Crefs /\ calls[gsmcall].unanswered
      /\ calls' = [calls EXCEPT ![gsmcall] = [@ EXCEPT !.live = TRUE, !.unanswered = FALSE]]
      /\ UNCHANGED <<cref, gsmcall, dialVars>> /\ sched' = Swept(sched)
  BY DEF Answer
<1>2. gsmcall = cref /\ calls[cref].here
  BY <1>1 DEF Own, CallInv, OneReference
<1>3. ~dialInitiated
  BY <1>1, <1>2 DEF Own, DialInv, Waiting
<1>4. NoDial(sched') /\ ~dialHangup /\ calls \in Pool /\ NoHung(calls)
  BY <1>1, <1>3, AtEase, NoDialOrphaned
<1>5. state' = "PRE_ANSWER"
  BY SwitchState DEF Answer
<1>6. DialInv'
  BY <1>1, <1>3, <1>4 DEF DialInv, DialTimers, NoDial, dialVars
<1>7. HungWaits' /\ OneReference'
  BY <1>1, <1>2, <1>4 DEF HungWaits, OneReference, NoHung, Pool
<1>8. InitHasCall' /\ CallHasChannel'
  BY <1>1, <1>5, Bounds DEF InitHasCall, CallHasChannel, Crefs, NoCref
<1>9. QED
  BY <1>6, <1>7, <1>8 DEF Own, CallInv

LEMMA OthersOwn == ASSUME Groups, Own, OtherCommand \/ ReloadTimer \/ Reload PROVE Own'
<1>1. UNCHANGED <<timerVars, callVars, dialVars>> /\ state' \in {state, "INIT"}
  BY DEF OtherCommand, ReloadTimer, Reload
<1>2. QED
  BY <1>1, SteadyOwns DEF Steady, DialsStay, timerVars, callVars, Idle, InitStates

LEMMA OwnStep ==
    Typed /\ Held /\ Own /\ Spared /\ [Next]_vars => Own'
<1> SUFFICES ASSUME Groups, Held, Own, Spared, [Next]_vars
             PROVE  Own'
  BY DEF Typed
<1>1. CASE \E l \in Lines : Line(l)
  BY <1>1, LineOwns
<1>2. CASE Timers
  BY <1>2, OthersOwn, SmsTimerOwns, HangupTimerOwns, DialTimerOwns, StartTimerOwns DEF Timers
<1>3. CASE Api
  BY <1>3, SendTextOwns, DialOwns, HangupOwns, AnswerOwns, OthersOwn DEF Api
<1>4. CASE UNCHANGED vars
  BY <1>4, SteadyOwns DEF vars, Steady, DialsStay, modemVars, timerVars, callVars
<1>5. QED
  BY <1>1, <1>2, <1>3, <1>4 DEF Next

LEMMA AlwaysOwn == Spec /\ []DialHasCall => [](Groups /\ Own)
<1>1. DialHasCall' => Spared
  BY DEF Spared
<1>2. Typed => Groups
  BY DEF Typed
<1>3. QED
  BY <1>1, <1>2, TypedInit, TypedStep, AlwaysHeld, OwnInit, OwnStep, PTL DEF Spec

\* As long as every dial that waits has its channel and its timer, the driver's record is the
\* one module_receive works on (allogsm_getcall), and it is allocated.
THEOREM RecordShared == Spec /\ []DialHasCall => []OneReference
BY AlwaysOwn, OwnIsSafe, PTL

\* Under the same premise at most one gsm_dial_retry is pending, and its record
\* has not been freed: no number is dialled twice or out of freed memory.
THEOREM DialOwned == Spec /\ []DialHasCall => []DialOwnsRecord
BY AlwaysOwn, OwnIsSafe, PTL

\* Under the same premise ATD goes out only for a channel that still wants the
\* call: dial_initiated_hangup never survives the dial it was set for.
THEOREM DialWanted == Spec /\ []DialHasCall => []DialsForChannel
BY AlwaysOwn, OwnIsSafe, PTL

\* Under the same premise no call goes on at the modem without a channel that
\* can hang it up.
THEOREM CallOwned == Spec /\ []DialHasCall => []CallHasChannel
BY AlwaysOwn, OwnIsSafe, PTL

(***************************************************************************)
(* Timers that are added: send timeouts by a text, start timeouts by noise *)
(* at the start-up, and by nothing else.                                   *)
(***************************************************************************)
\* The table tc has no timer of function fn that sc has not.
NoNew(sc, tc, fn) == \A s \in Slots : tc[s].fn = fn => sc[s].fn = fn
Rare == {"sms", "start"}

LEMMA NewOnce ==
    ASSUME NEW sc, NEW tc, NEW uc, NEW fn, NoNew(sc, tc, fn), NoNew(tc, uc, fn)
    PROVE  NoNew(sc, uc, fn)
BY DEF NoNew

LEMMA TablesAlone ==
    ASSUME NEW sc \in Table, NEW fn \in Rare
    PROVE  /\ NoNew(sc, sc, fn)
           /\ \A c : NoNew(sc, Dangling(sc, c), fn) /\ NoNew(sc, Orphaned(sc, c), fn)
           /\ \A id : NoNew(sc, Deleted(sc, id), fn)
           /\ NoNew(sc, Swept(sc), fn)
           /\ \A s \in Slots : \A c : NoNew(sc, [sc EXCEPT ![s] = Timer("hangup", c)], fn)
           /\ \A s \in Slots : \A c : NoNew(sc, [sc EXCEPT ![s] = Timer("dial", c)], fn)
<1>1. \A tc \in Table : \A c : NoNew(tc, Dangling(tc, c), fn)
  BY DanglingKeeps DEF NoNew
<1>2. \A tc \in Table : \A id : NoNew(tc, Deleted(tc, id), fn)
  BY DeletedKeeps DEF NoNew, Rare
<1>3. \A c : NoNew(sc, Orphaned(sc, c), fn)
  BY <1>1, <1>2, DanglingType DEF Orphaned, Swept, NoNew
<1>4. \A s \in Slots : \A c :
          /\ NoNew(sc, [sc EXCEPT ![s] = Timer("hangup", c)], fn)
          /\ NoNew(sc, [sc EXCEPT ![s] = Timer("dial", c)], fn)
  BY DEF NoNew, Timer, Table, Rare
<1>5. QED
  BY <1>1, <1>2, <1>3, <1>4 DEF NoNew, Swept

LEMMA ArmsAlone ==
    ASSUME NEW sc \in Table, NEW fn \in Rare
    PROVE  /\ \A gone : ArmHangup(sc, gone) => NoNew(sc, sched', fn)
           /\ \A c : ArmDial(sc, c) => NoNew(sc, sched', fn)
<1>1. ASSUME NEW gone, ArmHangup(sc, gone)
      PROVE  NoNew(sc, sched', fn)
  <2>1. PICK s \in Slots : sched' = Deleted([sc EXCEPT ![s] = Timer("hangup", NoCref)], gone)
    BY <1>1 DEF ArmHangup
  <2> DEFINE tc == [sc EXCEPT ![s] = Timer("hangup", NoCref)]
  <2>2. tc \in Table /\ NoNew(sc, tc, fn)
    BY TablesAlone, TimerType DEF Table
  <2>3. sched' = Deleted(tc, gone)
    BY <2>1
  <2> HIDE DEF tc
  <2>4. NoNew(tc, sched', fn)
    BY <2>2, <2>3, TablesAlone
  <2>5. QED
    BY <2>2, <2>4, NewOnce
<1>2. ASSUME NEW c, ArmDial(sc, c)
      PROVE  NoNew(sc, sched', fn)
  BY <1>2, TablesAlone DEF ArmDial
<1>3. QED
  BY <1>1, <1>2

LEMMA ClearedAlone ==
    ASSUME sched \in Table, NEW s \in Slots, NEW fn \in Rare PROVE NoNew(sched, Cleared(s), fn)
BY ClearedKeeps, FreeIsNone DEF NoNew, Rare

LEMMA AllogsmHangupAlone ==
    ASSUME NEW sc \in Table, NEW cs \in Pool, NEW c, NEW fn \in Rare,
           NEW ACTION Go, NEW ACTION Stay, AllogsmHangup(sc, cs, c, Go, Stay)
    PROVE  NoNew(sc, sched', fn)
<1>1. /\ Orphaned(sc, c) \in Table /\ NoNew(sc, Orphaned(sc, c), fn)
      /\ NoNew(sc, sc, fn) /\ NoNew(sc, Swept(sc), fn)
  BY OrphanedType, TablesAlone
<1>2. ASSUME NEW gone, ArmHangup(Orphaned(sc, c), gone)
      PROVE  NoNew(sc, sched', fn)
  <2>1. NoNew(Orphaned(sc, c), sched', fn)
    BY <1>1, <1>2, ArmsAlone
  <2>2. QED
    BY <1>1, <2>1, NewOnce
<1>3. CASE sched' = sc \/ sched' = Orphaned(sc, c) \/ sched' = Swept(sc)
  BY <1>1, <1>3
<1>4. QED
  BY <1>2, <1>3 DEF AllogsmHangup, ModuleHangup

LEMMA EventHangupAlone ==
    ASSUME NEW cs, NEW sc \in Table, NEW fn \in Rare, EventHangup(cs, sc)
    PROVE  NoNew(sc, sched', fn)
BY TablesAlone DEF EventHangup

LEMMA EventDownAlone ==
    ASSUME Groups, NEW l, NEW fn \in Rare, NEW ACTION Stay, EventDown(l, Stay)
    PROVE  /\ NoNew(sched, sched', fn) /\ smsSched' = smsSched /\ gsmcall' = NoCref
           /\ retrans' = retrans
<1>1. sched \in Table /\ Here \in Pool
  BY HereType DEF Groups, TimersOK
<1>2. CASE AllogsmHangup(sched, Here, gsmcall, HangsUp(l), Stay)
  BY <1>1, <1>2, AllogsmHangupAlone DEF EventDown
<1>3. CASE sched' = sched \/ sched' = Orphaned(sched, cref) \/ sched' = Orphaned(sched, gsmcall)
  BY <1>1, <1>3, TablesAlone DEF EventDown
<1>4. QED
  BY <1>2, <1>3 DEF EventDown

LEMMA CallLineAddsNone ==
    ASSUME Groups, NEW l, NEW fn \in Rare, CallLine(l)
    PROVE  NoNew(sched, sched', fn) /\ smsSched' = smsSched /\ retrans' = retrans
<1>1. /\ sched \in Table /\ Here \in Pool /\ Ended \in Pool /\ Announced \in Pool
      /\ Orphaned(sched, cref) \in Table /\ Deleted(sched, hangupSched) \in Table
  BY HereType, EndedType, AnnouncedType, OrphanedType, DeletedType DEF Groups, TimersOK
<1>2. /\ NoNew(sched, sched, fn) /\ NoNew(sched, Orphaned(sched, cref), fn)
      /\ NoNew(sched, Deleted(sched, hangupSched), fn)
  BY <1>1, TablesAlone
<1>3. CASE Release(l) \/ HangupEnds(l)
  <2>1. \/ NoNew(Orphaned(sched, cref), sched', fn)
        \/ NoNew(Deleted(sched, hangupSched), sched', fn)
    BY <1>1, <1>3, EventHangupAlone DEF Release, HangupEnds
  <2>2. QED
    BY <1>2, <1>3, <2>1, NewOnce DEF Release, HangupEnds
<1>4. CASE ReadyCounts(l) \/ RingRings(l) \/ PreAnswerOk(l) \/ ActiveWaiting(l) \/ Proceeds(l)
  BY <1>2, <1>4 DEF ReadyCounts, RingRings, PreAnswerOk, ActiveWaiting, Proceeds, ReadsOnly, timerVars
<1>5. CASE ReadyAnnounces(l) \/ PreAnswerFails(l) \/ ActiveEnds(l)
  BY <1>1, <1>2, <1>5, AllogsmHangupAlone DEF ReadyAnnounces, PreAnswerFails, ActiveEnds
<1>6. CASE DialGivenUp(l)
  <2>1. CASE ArmHangup(sched, 0)
    BY <1>1, <1>6, <2>1, ArmsAlone DEF DialGivenUp
  <2>2. ASSUME NEW s \in Slots,
               EventHangup(Destroyed(Here, cref),
                           Orphaned([sched EXCEPT ![s] = Timer("hangup", NoCref)], cref))
        PROVE  NoNew(sched, sched', fn)
    <3> DEFINE tc == [sched EXCEPT ![s] = Timer("hangup", NoCref)]
    <3>1. tc \in Table /\ NoNew(sched, tc, fn)
      BY <1>1, TablesAlone, TimerType DEF Table
    <3>2. EventHangup(Destroyed(Here, cref), Orphaned(tc, cref))
      BY <2>2
    <3> HIDE DEF tc
    <3>3. NoNew(tc, Orphaned(tc, cref), fn) /\ Orphaned(tc, cref) \in Table
      BY <3>1, TablesAlone, OrphanedType
    <3>4. NoNew(Orphaned(tc, cref), sched', fn)
      BY <3>2, <3>3, EventHangupAlone
    <3>5. QED
      BY <3>1, <3>3, <3>4, NewOnce
  <2>3. QED
    BY <1>6, <2>1, <2>2 DEF DialGivenUp
<1>7. QED
  BY <1>3, <1>4, <1>5, <1>6 DEF CallLine

LEMMA OtherLineAddsNone ==
    ASSUME Groups, NEW l, NEW fn \in Rare, fn = "sms" \/ ~Retrans,
           Reboot(l) \/ InitReads(l) \/ ReadyNetwork(l) \/ Ignores(l)
    PROVE  /\ NoNew(sched, sched', fn) /\ smsSched' = smsSched
           /\ ~Retrans => retrans' \in {retrans, 0}
<1>1. NoNew(sched, sched, fn) /\ sched \in Table
  BY DEF NoNew, Groups, TimersOK
<1>2. CASE Reboot(l) \/ Ignores(l)
  BY <1>1, <1>2 DEF Reboot, Ignores, ReadsOnly, timerVars
<1>3. CASE InitReads(l)
  <2>1. CASE sched' = Swept(sched) /\ retrans' = 0 /\ smsSched' = smsSched
    BY <1>1, <2>1, TablesAlone
  <2>2. CASE /\ Retrans /\ smsSched' = smsSched
             /\ \E s \in Slots : sched' = [sched EXCEPT ![s] = Timer("start", cref)]
    BY <1>1, <2>2 DEF NoNew, Timer, Table
  <2>3. QED
    BY <1>1, <1>3, <2>1, <2>2, EventDownAlone DEF InitReads, timerVars
<1>4. CASE ReadyNetwork(l)
  BY <1>1, <1>4, EventDownAlone DEF ReadyNetwork, timerVars
<1>5. QED
  BY <1>2, <1>3, <1>4

LEMMA SmsLineAddsNone ==
    ASSUME Groups, NEW l, NEW fn \in Rare, SmsLine(l)
    PROVE  NoNew(sched, sched', fn) /\ retrans' = retrans
<1>1. sched \in Table /\ NoNew(sched, sched, fn) /\ NoNew(sched, Deleted(sched, smsSched), fn)
  BY TablesAlone DEF Groups, TimersOK
<1>2. CASE SendingContinues(l) \/ Prompted(l) \/ SmsNetwork(l) \/ SendingNoise(l) \/ SentRetries(l)
  BY <1>1, <1>2
     DEF SendingContinues, Prompted, SmsNetwork, SendingNoise, SentRetries, ReadsOnly, timerVars
<1>3. CASE SendingFails(l) \/ SmsRing(l) \/ SentOk(l) \/ SentNoise(l) \/ SentFails(l)
  BY <1>1, <1>3
     DEF SendingFails, SmsRing, SentOk, SentNoise, SentFails, Files, UpdateSmsStatus
<1>4. QED
  BY <1>2, <1>3 DEF SmsLine

LEMMA DialTimerAddsNone ==
    ASSUME Groups, NEW s \in Slots, NEW fn \in Rare, DialTimer(s)
    PROVE  NoNew(sched, sched', fn) /\ retrans' = retrans
<1> SUFFICES NoNew(sched, sched', fn)
  BY DEF DialTimer
<1>1. /\ sched \in Table /\ Cleared(s) \in Table /\ calls \in Pool
      /\ sched[s].call \in Crefs \cup {NoCref}
      /\ NoNew(sched, sched, fn) /\ NoNew(sched, Cleared(s), fn)
  BY ClearedType, ClearedAlone, TablesAlone DEF Groups, TimersOK, CallsOK, Table, TimerRecords
<1> DEFINE c == sched[s].call
<1>2. \A d : /\ Dangling(Cleared(s), d) \in Table
             /\ NoNew(Cleared(s), Dangling(Cleared(s), d), fn)
  BY <1>1, DanglingType, TablesAlone
<1>3. ASSUME NEW d, NEW gone, ArmHangup(Dangling(Cleared(s), d), gone)
      PROVE  NoNew(sched, sched', fn)
  <2>1. NoNew(Dangling(Cleared(s), d), sched', fn)
    BY <1>2, <1>3, ArmsAlone
  <2>2. NoNew(Cleared(s), sched', fn)
    BY <1>2, <2>1, NewOnce
  <2>3. QED
    BY <1>1, <2>2, NewOnce
<1>4. ASSUME NEW gone, ArmHangup(Cleared(s), gone)
      PROVE  NoNew(sched, sched', fn)
  BY <1>1, <1>4, ArmsAlone, NewOnce
<1>5. CASE DialGoesOn(s, c)
  <2>1. \/ sched' = Cleared(s)
        \/ ArmHangup(Cleared(s), 0)
        \/ ArmHangup(Dangling(Cleared(s), c), retrans)
        \/ ArmHangup(Dangling(Cleared(s), cref), retrans)
    BY <1>5 DEF DialGoesOn, ModuleDial, ModuleHangup
  <2>2. CASE sched' = Cleared(s)
    BY <1>1, <2>2
  <2>3. QED
    BY <1>3, <1>4, <2>1, <2>2
<1>6. CASE DialWaits(s, c)
  <2>1. PICK r \in Slots :
            LET sc == [Cleared(s) EXCEPT ![r] = Timer("dial", c)]
            IN  IF dialRetry' = DialLimit /\ dialHangup /\ c # NoCref
                THEN AllogsmHangup(sc, calls, c, HangsUp(NoLine), ModemStays)
                ELSE /\ sched' = sc
                     /\ UNCHANGED <<modemVars, hangupSched, calls, dialVars>>
    BY <1>6 DEF DialWaits
  <2> DEFINE sc == [Cleared(s) EXCEPT ![r] = Timer("dial", c)]
  <2>2. sc \in Table /\ NoNew(Cleared(s), sc, fn)
    BY <1>1, TablesAlone, TimerType DEF Table
  <2>3. sched' = sc \/ AllogsmHangup(sc, calls, c, HangsUp(NoLine), ModemStays)
    BY <2>1
  <2> HIDE DEF sc
  <2>4. NoNew(sc, sched', fn)
    <3>1. CASE sched' = sc
      BY <2>2, <3>1, TablesAlone
    <3>2. CASE AllogsmHangup(sc, calls, c, HangsUp(NoLine), ModemStays)
      BY <1>1, <2>2, <3>2, AllogsmHangupAlone
    <3>3. QED
      BY <2>3, <3>1, <3>2
  <2>5. NoNew(Cleared(s), sched', fn)
    BY <1>1, <2>2, <2>4, NewOnce
  <2>6. QED
    BY <1>1, <2>5, NewOnce
<1>7. QED
  BY <1>1, <1>5, <1>6 DEF DialTimer

LEMMA OtherTimersAddNone ==
    ASSUME Groups, NEW fn \in Rare, ReloadTimer \/ \E s \in Slots : HangupTimer(s) \/ StartTimer(s)
    PROVE  NoNew(sched, sched', fn) /\ smsSched' = smsSched /\ retrans' = retrans
<1>1. sched \in Table /\ NoNew(sched, sched, fn)
  BY TablesAlone DEF Groups, TimersOK
<1>2. ASSUME NEW s \in Slots, HangupTimer(s) \/ StartTimer(s)
      PROVE  NoNew(sched, sched', fn) /\ smsSched' = smsSched /\ retrans' = retrans
  <2>1. Cleared(s) \in Table /\ NoNew(sched, Cleared(s), fn)
    BY <1>1, ClearedAlone, ClearedType DEF Groups
  <2>2. ArmHangup(Cleared(s), 0) => NoNew(sched, sched', fn)
    BY <2>1, ArmsAlone, NewOnce
  <2>3. QED
    BY <1>2, <2>1, <2>2 DEF HangupTimer, HangupRepeats, StartTimer
<1>3. QED
  BY <1>1, <1>2 DEF ReloadTimer, timerVars

LEMMA ApiAddsNone ==
    ASSUME Groups, NEW fn \in Rare, Dial \/ Hangup \/ Answer \/ OtherCommand \/ Reload
    PROVE  NoNew(sched, sched', fn) /\ smsSched' = smsSched /\ retrans' \in {retrans, 0}
<1>1. /\ sched \in Table /\ calls \in Pool
      /\ NoNew(sched, sched, fn) /\ NoNew(sched, Swept(sched), fn)
  BY TablesAlone DEF Groups, TimersOK, CallsOK
<1>2. CASE Dial
  BY <1>1, <1>2, ArmsAlone DEF Dial, ModuleDial
<1>3. CASE Hangup
  BY <1>1, <1>3, AllogsmHangupAlone DEF Hangup
<1>4. CASE Answer \/ OtherCommand \/ Reload
  BY <1>1, <1>4 DEF Answer, OtherCommand, Reload, timerVars
<1>5. QED
  BY <1>2, <1>3, <1>4

\* Where noise does not arm gsm_start_timeout, retranstimer names no slot.
Unarmed == retrans = 0 /\ \A s \in Slots : sched[s].fn # "start"

LEMMA UnarmedStep == ~Retrans /\ Typed /\ Unarmed /\ [Next]_vars => Unarmed'
<1> SUFFICES ASSUME ~Retrans, Groups, Unarmed, [Next]_vars
             PROVE  Unarmed'
  BY DEF Typed
<1>1. "start" \in Rare /\ sched \in Table
  BY DEF Rare, Groups, TimersOK
<1>2. NoNew(sched, sched', "start") /\ retrans' \in {retrans, 0} => Unarmed'
  BY DEF NoNew, Unarmed
<1>3. CASE \E l \in Lines : Line(l)
  BY <1>1, <1>2, <1>3, CallLineAddsNone, OtherLineAddsNone, SmsLineAddsNone DEF Line
<1>4. ASSUME NEW s \in Slots, SmsTimer(s)
      PROVE  Unarmed'
  <2>1. Cleared(s) \in Table /\ NoNew(sched, Cleared(s), "start")
    BY <1>1, ClearedAlone, ClearedType DEF Groups
  <2>2. ArmSms(Cleared(s)) => NoNew(Cleared(s), sched', "start")
    BY <2>1, TimerType DEF ArmSms, NoNew, Timer, Table
  <2>3. NoNew(Cleared(s), Deleted(Cleared(s), smsSched), "start")
    BY <1>1, <2>1, TablesAlone
  <2>4. NoNew(sched, sched', "start")
    BY <1>4, <2>1, <2>2, <2>3, NewOnce
       DEF SmsTimer, SmsTimerLate, SmsTimerRetries, SmsTimerGivesUp, UpdateSmsStatus
  <2>5. retrans' = retrans
    BY <1>4 DEF SmsTimer, SmsTimerLate, SmsTimerRetries, SmsTimerGivesUp, UpdateSmsStatus
  <2>6. QED
    BY <1>2, <2>4, <2>5
<1>5. CASE Timers
  BY <1>1, <1>2, <1>4, <1>5, DialTimerAddsNone, OtherTimersAddNone DEF Timers
<1>6. CASE SendText
  <2>1. NoNew(sched, sched', "start") /\ retrans' = retrans
    BY <1>1, <1>6 DEF SendText, ArmSms, NoNew, Timer, Table
  <2>2. QED
    BY <1>2, <2>1
<1>7. CASE Api
  BY <1>1, <1>2, <1>6, <1>7, ApiAddsNone DEF Api
<1>8. CASE UNCHANGED vars
  BY <1>8 DEF vars, timerVars, Unarmed
<1>9. QED
  BY <1>3, <1>5, <1>7, <1>8 DEF Next

LEMMA AlwaysUnarmed ==
    ASSUME ~Retrans
    PROVE  Spec => []Unarmed
<1>1. Init => Unarmed
  BY FreeIsNone DEF Init, Unarmed
<1>2. QED
  BY <1>1, ~Retrans, UnarmedStep, TypedInit, TypedStep, PTL DEF Spec

(***************************************************************************)
(* Where the premise holds.  Nobody restarts the modem, noise at the       *)
(* start-up arms no timer, and the modem does not lose the network,        *)
(* release a call or give up a text with 512 or 515.                       *)
(***************************************************************************)
Disturbing == Released \cup Reboots \cup {"CSQ_0", "CREG_0", "CMS_512", "CME_515"}
QuietModem == ~Reloads /\ ~Retrans /\ Lines \cap Disturbing = {}

\* The modem stays up while a dial waits.
StaysUp == cme = 0 /\ (dialInitiated => state \notin InitStates)

LEMMA CmeStays ==
    ASSUME Groups, cme = 0, NEW l, l # "CME_515"
    PROVE  /\ Cme(l) = 0
           /\ \A s, c : Switch(s, c, l) => cme' = 0 /\ state' = s
           /\ \A s : Assign(s, l) \/ InitMoves(s, l) => cme' = 0 /\ state' = s
           /\ HangsUp(l) \/ ReadyThenHangsUp(l) => cme' = 0
<1>1. Cme(l) = 0 /\ ~(Cme(l) > CmeLimit)
  BY Bounds DEF Cme
<1>2. \A s, c : Switch(s, c, l) => cme' = 0 /\ state' = s
  BY <1>1 DEF Switch
<1>3. \A s : Assign(s, l) \/ InitMoves(s, l) => cme' = 0 /\ state' = s
  BY <1>1 DEF Assign, InitMoves
<1>4. HangsUp(l) \/ ReadyThenHangsUp(l) => cme' = 0
  BY <1>1, <1>2 DEF HangsUp, ReadyThenHangsUp
<1>5. QED
  BY <1>1, <1>2, <1>3, <1>4

LEMMA EventDownCme ==
    ASSUME Groups, cme = 0, NEW l, l # "CME_515", NEW ACTION Stay, EventDown(l, Stay),
           Stay => cme' = 0
    PROVE  cme' = 0
<1>1. sched \in Table /\ Here \in Pool
  BY HereType DEF Groups, TimersOK
<1>2. CASE AllogsmHangup(sched, Here, gsmcall, HangsUp(l), Stay)
  BY <1>1, <1>2, AllogsmHangupKeeps, CmeStays
<1>3. QED
  BY <1>2 DEF EventDown

\* No line but those of Disturbing brings the counter of 515 up.
LEMMA CallLineCme == ASSUME Groups, cme = 0, NEW l, l # "CME_515", CallLine(l) PROVE cme' = 0
<1>1. sched \in Table /\ Here \in Pool /\ Ended \in Pool /\ Announced \in Pool
  BY HereType, EndedType, AnnouncedType DEF Groups, TimersOK
<1>2. CASE Release(l) \/ ReadyCounts(l) \/ RingRings(l) \/ PreAnswerOk(l) \/ HangupEnds(l)
  BY <1>2, CmeStays DEF Release, ReadyCounts, RingRings, PreAnswerOk, HangupEnds, modemVars
<1>3. CASE ReadyAnnounces(l)
  <2>1. CASE AllogsmHangup(sched, Announced, cref, HangsUp(l), Assign("RING", l))
    BY <1>1, <2>1, AllogsmHangupKeeps, CmeStays
  <2>2. QED
    BY <1>3, <2>1, CmeStays DEF ReadyAnnounces
<1>4. CASE PreAnswerFails(l)
  BY <1>4 DEF PreAnswerFails
<1>5. CASE ActiveEnds(l)
  BY <1>1, <1>5, AllogsmHangupKeeps, CmeStays DEF ActiveEnds
<1>6. CASE ActiveWaiting(l) \/ Proceeds(l)
  BY <1>6, CmeStays DEF ActiveWaiting, Proceeds
<1>7. CASE DialGivenUp(l)
  BY <1>7, CmeStays DEF DialGivenUp
<1>8. QED
  BY <1>2, <1>3, <1>4, <1>5, <1>6, <1>7 DEF CallLine

LEMMA SmsLineCme == ASSUME Groups, cme = 0, NEW l, l # "CME_515", SmsLine(l) PROVE cme' = 0
<1>1. CASE SendingContinues(l) \/ Prompted(l) \/ SmsNetwork(l) \/ SendingNoise(l) \/ SentRetries(l)
  BY <1>1, CmeStays
     DEF SendingContinues, Prompted, SmsNetwork, SendingNoise, SentRetries, modemVars
<1>2. CASE SendingFails(l) \/ SmsRing(l) \/ SentOk(l) \/ SentNoise(l) \/ SentFails(l)
  BY <1>2, CmeStays DEF SendingFails, SmsRing, SentOk, SentNoise, SentFails
<1>3. QED
  BY <1>1, <1>2 DEF SmsLine

LEMMA LineCme == ASSUME Groups, cme = 0, NEW l, l # "CME_515", Line(l) PROVE cme' = 0
<1>1. CASE Reboot(l) \/ Ignores(l)
  BY <1>1, CmeStays DEF Reboot, Ignores
<1>2. \A s : InitMoves(s, l) => cme' = 0
  BY CmeStays
<1>3. CASE InitReads(l)
  <2>1. CASE EventDown(l, InitMoves("INIT", l))
    BY <1>2, <2>1, EventDownCme
  <2>2. CASE EventDown(l, \E s \in InitStates : InitMoves(s, l))
    <3>1. (\E s \in InitStates : InitMoves(s, l)) => cme' = 0
      BY <1>2
    <3>2. QED
      BY <2>2, <3>1, EventDownCme
  <2>3. QED
    BY <1>2, <1>3, <2>1, <2>2, CmeStays DEF InitReads
<1>4. CASE ReadyNetwork(l)
  <2>1. CASE EventDown(l, InitMoves("INIT", l))
    BY <1>2, <2>1, EventDownCme
  <2>2. CASE EventDown(l, Assign("INIT", l))
    <3>1. Assign("INIT", l) => cme' = 0
      BY CmeStays
    <3>2. QED
      BY <2>2, <3>1, EventDownCme
  <2>3. QED
    BY <1>4, <2>1, <2>2, CmeStays DEF ReadyNetwork
<1>5. QED
  BY <1>1, <1>3, <1>4, CallLineCme, SmsLineCme DEF Line

\* While a dial waits: the state stays one of a modem that is up, and the
\* driver keeps its call.
LEMMA LineUp ==
    ASSUME Groups, Own, StaysUp, dialInitiated, NEW l, l \notin Disturbing, Line(l)
    PROVE  gsmcall' = gsmcall /\ state' \notin InitStates
<1>1. Waiting /\ state \in SmsStates \cup {"READY"}
  BY DEF Own, DialInv, Waiting, StaysUp, Idle
<1>2. Here = calls /\ ~Here[cref].new
  BY <1>1, HereKept DEF Groups, Waiting
<1>3. l \notin Released \cup Reboots /\ l \notin {"CSQ_0", "CREG_0", "CMS_512", "CME_515"} /\ cme = 0
  BY DEF Disturbing, StaysUp
<1>4. ~Reboot(l) /\ ~InitReads(l)
  BY <1>1, <1>3 DEF Reboot, InitReads, InitStates, SmsStates
<1>5. ~CallLine(l)
  <2>1. ~Release(l)
    BY <1>1, <1>3 DEF Release, ReleasedBy, SmsStates
  <2>2. ~ReadyCounts(l) /\ ~ReadyAnnounces(l)
    BY <1>2 DEF ReadyCounts, ReadyAnnounces, Announces
  <2>3. QED
    BY <1>1, <2>1, <2>2 DEF CallLine, RingRings, PreAnswerOk, PreAnswerFails, ActiveEnds,
           ActiveWaiting, Proceeds, DialGivenUp, Unexpected, HangupEnds, SmsStates
<1>6. CASE Ignores(l)
  BY <1>1, <1>3, <1>6, CmeStays DEF Groups, Ignores, ReadsOnly, Reads, SmsStates, InitStates
<1>7. CASE ReadyNetwork(l)
  <2>1. Switch("READY", "", l) \/ Assign("READY", l) => state' = "READY"
    BY <1>3, CmeStays DEF Groups
  <2>2. QED
    BY <1>3, <1>7, <2>1 DEF ReadyNetwork, InitStates
<1>8. CASE SmsLine(l)
  <2>1. gsmcall' = gsmcall
    BY <1>8 DEF SmsLine, SendingContinues, Prompted, SmsNetwork, SendingFails, SendingNoise,
           SmsRing, SentOk, SentRetries, SentFails, SentNoise, ReadsOnly, Reads, callVars
  <2>2. CASE SendingNoise(l)
    BY <1>1, <2>1, <2>2 DEF SendingNoise, modemVars, SmsStates, InitStates
  <2>3. state' \in SmsStates \cup {"READY"} \/ SendingNoise(l)
    <3>1. \A c : Switch("SMS_SENDING", c, l) => state' = "SMS_SENDING"
      BY <1>3, CmeStays DEF Groups
    <3>2. \A c : Switch("SMS_SENT", c, l) => state' = "SMS_SENT"
      BY <1>3, CmeStays DEF Groups
    <3>3. \A c : Switch("READY", c, l) => state' = "READY"
      BY <1>3, CmeStays DEF Groups
    <3>4. \A t : Assign(t, l) => state' = t
      BY DEF Assign
    <3>5. CASE SendingContinues(l) \/ Prompted(l) \/ SmsNetwork(l) \/ SentRetries(l)
      BY <1>1, <3>1, <3>2, <3>4, <3>5
         DEF SendingContinues, Prompted, SmsNetwork, SentRetries, SmsStates
    <3>6. CASE SendingFails(l) \/ SmsRing(l) \/ SentOk(l) \/ SentNoise(l)
      BY <3>3, <3>6 DEF SendingFails, SmsRing, SentOk, SentNoise
    <3>7. CASE SentFails(l)
      BY <1>3, <3>3, <3>7 DEF SentFails
    <3>8. QED
      BY <1>8, <3>5, <3>6, <3>7 DEF SmsLine
  <2>4. QED
    BY <2>1, <2>2, <2>3 DEF SmsStates, InitStates
<1>9. QED
  BY <1>4, <1>5, <1>6, <1>7, <1>8 DEF Line

\* A dial that waits on leaves the modem alone, or sends ATH.
LEMMA DialWaitsModem ==
    ASSUME Groups, NEW s \in Slots, NEW c \in Crefs \cup {NoCref}, DialWaits(s, c)
    PROVE  state \in SmsStates /\ (ModemStays \/ HangsUp(NoLine))
<1>1. PICK r \in Slots :
          LET sc == [Cleared(s) EXCEPT ![r] = Timer("dial", c)]
          IN  IF dialRetry' = DialLimit /\ dialHangup /\ c # NoCref
              THEN AllogsmHangup(sc, calls, c, HangsUp(NoLine), ModemStays)
              ELSE /\ sched' = sc
                   /\ UNCHANGED <<modemVars, hangupSched, calls, dialVars>>
  BY DEF DialWaits
<1> DEFINE sc == [Cleared(s) EXCEPT ![r] = Timer("dial", c)]
<1>2. sc \in Table /\ calls \in Pool
  BY ClearedType, TimerType DEF Groups, CallsOK, Table
<1>3. CASE AllogsmHangup(sc, calls, c, HangsUp(NoLine), ModemStays)
  <2> HIDE DEF sc
  <2>1. ModemStays \/ HangsUp(NoLine)
    BY <1>2, <1>3, AllogsmHangupKeeps
  <2>2. QED
    BY <2>1 DEF DialWaits
<1>4. CASE UNCHANGED <<modemVars, hangupSched, calls, dialVars>>
  BY <1>4 DEF DialWaits, ModemStays, modemVars
<1>5. QED
  BY <1>1, <1>3, <1>4

\* The other steps keep the counter at 0.
LEMMA TimersCme == ASSUME Groups, Own, cme = 0, Timers PROVE cme' = 0
<1>1. NoLine # "CME_515"
  BY DEF NoLine
<1>2. CASE \E s \in Slots : SmsTimer(s) \/ HangupTimer(s) \/ StartTimer(s)
  BY <1>1, <1>2, CmeStays
     DEF SmsTimer, SmsTimerLate, SmsTimerRetries, SmsTimerGivesUp, HangupTimer, HangupRepeats,
         StartTimer, modemVars
<1>3. ASSUME NEW s \in Slots, DialTimer(s)
      PROVE  cme' = 0
  <2>1. Fires(s, "dial")
    BY <1>3 DEF DialTimer
  <2>2. /\ Waiting /\ sched[s].call = cref /\ cref # NoCref
        /\ Cleared(s) \in Table /\ calls \in Pool /\ cref \in Crefs
    BY <2>1, DialFires DEF Groups, CallsOK
  <2>3. HangsUp(NoLine) \/ ModemStays => cme' = 0
    BY <1>1, CmeStays DEF ModemStays, modemVars
  <2>4. CASE DialWaits(s, cref)
    BY <2>2, <2>3, <2>4, DialWaitsModem
  <2>5. CASE DialGoesOn(s, cref)
    BY <1>1, <2>3, <2>5, CmeStays DEF DialGoesOn, ModuleDial, ModuleHangup
  <2>6. QED
    BY <1>3, <2>2, <2>4, <2>5 DEF DialTimer
<1>4. QED
  BY <1>2, <1>3 DEF Timers, ReloadTimer

LEMMA ApiCme == ASSUME Groups, cme = 0, Api PROVE cme' = 0
<1>1. NoLine # "CME_515"
  BY DEF NoLine
<1>2. CASE Hangup
  <2>1. sched \in Table /\ calls \in Pool
    BY DEF Groups, TimersOK, CallsOK
  <2>2. ModemStays \/ HangsUp(NoLine)
    BY <1>2, <2>1, AllogsmHangupKeeps DEF Hangup
  <2>3. QED
    BY <1>1, <2>2, CmeStays DEF ModemStays, modemVars
<1>3. \A t, c : Switch(t, c, NoLine) => cme' = 0
  BY <1>1, CmeStays
<1>4. CASE SendText \/ Answer
  BY <1>3, <1>4 DEF SendText, Answer
<1>5. CASE Dial
  BY <1>3, <1>5 DEF Dial, ModuleDial, modemVars
<1>6. CASE OtherCommand \/ Reload
  BY <1>6 DEF OtherCommand, Reload
<1>7. QED
  BY <1>2, <1>4, <1>5, <1>6 DEF Api

LEMMA TimersUp ==
    ASSUME Groups, Own, StaysUp, Unarmed, dialInitiated, Timers
    PROVE  gsmcall' = gsmcall /\ (dialInitiated' => state' \notin InitStates)
<1>1. Waiting /\ state \in SmsStates \cup {"READY"} /\ cme = 0
  BY DEF Own, DialInv, Waiting, StaysUp, Idle
<1>2. NoLine # "CME_515"
  BY DEF NoLine
<1>3. CASE ReloadTimer
  BY <1>1, <1>3 DEF ReloadTimer, SmsStates
<1>4. ASSUME NEW s \in Slots, SmsTimer(s) \/ HangupTimer(s)
      PROVE  gsmcall' = gsmcall /\ state' \in SmsStates \cup {"READY", "HANGUP_REQ"}
  <2>1. gsmcall' = gsmcall
    BY <1>4 DEF SmsTimer, HangupTimer, callVars
  <2>2. \A c : /\ Switch("READY", c, NoLine) => state' = "READY"
               /\ Switch("SMS_SENT", c, NoLine) => state' = "SMS_SENT"
               /\ Switch("HANGUP_REQ", c, NoLine) => state' = "HANGUP_REQ"
    BY <1>1, <1>2, CmeStays
  <2>3. QED
    BY <1>1, <1>4, <2>1, <2>2
       DEF SmsTimer, SmsTimerLate, SmsTimerRetries, SmsTimerGivesUp, HangupTimer, HangupRepeats,
           modemVars, SmsStates
<1>5. ASSUME NEW s \in Slots, DialTimer(s)
      PROVE  gsmcall' = gsmcall /\ (dialInitiated' => state' \notin InitStates)
  <2>1. Fires(s, "dial") /\ sched[s].call = cref /\ cref # NoCref
    BY <1>5, DialFires DEF DialTimer
  <2>2. gsmcall' = gsmcall
    BY <1>5, <2>1 DEF DialTimer, DialWaits, DialGoesOn
  <2>3. CASE DialWaits(s, cref)
    <3>1. state \in SmsStates /\ (state' = state \/ state' = "HANGUP_REQ")
      BY <2>1, <2>3, DialFires, DialWaitsModem, HangsUpState DEF ModemStays, modemVars
    <3>2. QED
      BY <2>2, <3>1 DEF InitStates, SmsStates
  <2>4. CASE DialGoesOn(s, cref)
    BY <2>2, <2>4 DEF DialGoesOn, ModuleDial, ModuleHangup
  <2>5. QED
    BY <1>5, <2>1, <2>3, <2>4 DEF DialTimer
<1>6. QED
  BY <1>3, <1>4, <1>5 DEF Timers, StartTimer, Fires, Unarmed, SmsStates, InitStates

LEMMA ApiUp ==
    ASSUME Groups, Own, StaysUp, ~Reloads, Api
    PROVE  /\ dialInitiated => gsmcall' # NoCref
           /\ dialInitiated' => state' \notin InitStates
<1>1. cme = 0 /\ NoLine # "CME_515"
  BY DEF StaysUp, NoLine
<1>2. dialInitiated => gsmcall # NoCref /\ state \in SmsStates \cup {"READY"}
  BY Bounds DEF Own, DialInv, Waiting, StaysUp, Idle, Groups, CallsOK, Crefs, Stale, NoCref
<1>3. CASE SendText
  <2>1. state' = "SMS_SENDING"
    BY <1>1, <1>3, CmeStays DEF SendText
  <2>2. QED
    BY <1>2, <1>3, <2>1 DEF SendText, callVars, InitStates
<1>4. CASE Dial
  <2>1. ~dialInitiated
    BY <1>2, <1>4 DEF Dial
  <2>2. dialInitiated' => state' \in SmsStates
    BY <1>4 DEF Dial, ModuleDial, modemVars
  <2>3. QED
    BY <2>1, <2>2 DEF SmsStates, InitStates
<1>5. CASE Hangup
  <2>1. sched \in Table /\ calls \in Pool /\ gsmcall' = Stale
    BY <1>5 DEF Groups, TimersOK, CallsOK, Hangup
  <2>2. (dialInitiated' => dialInitiated) /\ (ModemStays \/ HangsUp(NoLine))
    BY <1>5, <2>1, AllogsmHangupKeeps DEF Hangup
  <2>3. state' \in {state, "HANGUP_REQ"}
    BY <2>2, HangsUpState DEF ModemStays, modemVars
  <2>4. QED
    BY <1>2, <2>1, <2>2, <2>3 DEF Stale, NoCref, SmsStates, InitStates
<1>6. CASE Answer
  <2>1. state' = "PRE_ANSWER"
    BY <1>1, <1>6, CmeStays DEF Answer
  <2>2. QED
    BY <1>2, <1>6, <2>1 DEF Answer, InitStates
<1>7. CASE OtherCommand
  BY <1>2, <1>7 DEF OtherCommand, callVars, dialVars, SmsStates, InitStates
<1>8. QED
  BY <1>3, <1>4, <1>5, <1>6, <1>7 DEF Api, Reload

\* Only allogsm_setup puts a dial off.
LEMMA LineKeepsDial == ASSUME Groups, NEW l, Line(l) PROVE dialInitiated' => dialInitiated
<1>1. Calm => (dialInitiated' => dialInitiated)
  BY DEF Calm
<1>2. CASE Reboot(l) \/ InitReads(l) \/ ReadyNetwork(l) \/ Ignores(l)
  BY <1>1, <1>2, RebootCalm, InitReadsEnds, ReadyNetworkCalm, PlainCallCalm
<1>3. CASE CallLine(l)
  <2>1. CASE HangupEnds(l)
    BY <2>1 DEF HangupEnds, dialVars
  <2>2. QED
    BY <1>1, <1>3, <2>1, ReleaseCalm, ReadyCountsCalm, ReadyAnnouncesCalm, PlainCallCalm,
       PreAnswerFailsCalm, ActiveEndsCalm, DialGivenUpCalm DEF CallLine
<1>4. CASE SmsLine(l)
  BY <1>4 DEF SmsLine, SendingContinues, Prompted, SmsNetwork, SendingFails, SendingNoise,
         SmsRing, SentOk, SentRetries, SentFails, SentNoise, ReadsOnly, dialVars
<1>5. QED
  BY <1>2, <1>3, <1>4 DEF Line

LEMMA TimersKeepDial == ASSUME Groups, Own, Timers PROVE dialInitiated' => dialInitiated
<1>1. ASSUME NEW s \in Slots, DialTimer(s)
      PROVE  dialInitiated
  BY <1>1, DialFires DEF DialTimer
<1>2. QED
  BY <1>1 DEF Timers, ReloadTimer, SmsTimer, HangupTimer, StartTimer, dialVars

LEMMA QuietStep ==
    QuietModem /\ Typed /\ Held /\ Unarmed /\ Own /\ StaysUp /\ [Next]_vars => Own' /\ StaysUp'
<1> SUFFICES ASSUME QuietModem, Typed, Groups, Held, Unarmed, Own, StaysUp, [Next]_vars
             PROVE  Own' /\ StaysUp'
  BY DEF Typed
<1>1. cme = 0 /\ retrans = 0
  BY DEF StaysUp, Unarmed
<1>2. \A l \in Lines : l \notin Disturbing /\ l # "CME_515"
  BY DEF QuietModem, Disturbing
<1>3. dialInitiated => gsmcall # NoCref
  BY Bounds DEF Own, DialInv, Waiting, Groups, CallsOK, Crefs, Stale, NoCref
<1>4. CASE \E l \in Lines : Line(l)
  <2>1. PICK l \in Lines : Line(l)
    BY <1>4
  <2>2. cme' = 0
    BY <1>1, <1>2, <2>1, LineCme
  <2>3. dialInitiated => gsmcall' # NoCref /\ state' \notin InitStates
    BY <1>2, <1>3, <2>1, LineUp
  <2>4. Spared
    BY <1>1, <2>3 DEF Spared
  <2>5. dialInitiated' => dialInitiated
    BY <2>1, LineKeepsDial
  <2>6. QED
    BY <1>4, <2>2, <2>3, <2>4, <2>5, OwnStep DEF StaysUp
<1>5. CASE Timers
  <2>1. cme' = 0
    BY <1>1, <1>5, TimersCme
  <2>2. Spared
    BY <1>1, <1>3, <1>5, TimersUp DEF Spared
  <2>3. dialInitiated' => dialInitiated
    BY <1>5, TimersKeepDial
  <2>4. QED
    BY <1>5, <2>1, <2>2, <2>3, TimersUp, OwnStep DEF StaysUp
<1>6. CASE Api
  <2>1. cme' = 0
    BY <1>1, <1>6, ApiCme
  <2>2. ~Reloads
    BY DEF QuietModem
  <2>3. QED
    BY <1>1, <1>6, <2>1, <2>2, ApiUp, OwnStep DEF StaysUp, Spared
<1>7. CASE UNCHANGED vars
  BY <1>1, <1>3, <1>7, OwnStep DEF StaysUp, Spared, vars, modemVars, callVars, dialVars
<1>8. QED
  BY <1>4, <1>5, <1>6, <1>7 DEF Next

\* With a modem that stays up, keeps the network and lets calls end by ATH only,
\* the four properties hold without the premise, however texts fail and
\* whatever the driver calls.
THEOREM QuietCalls ==
    ASSUME QuietModem
    PROVE  Spec => [](OneReference /\ DialOwnsRecord /\ DialsForChannel /\ CallHasChannel)
<1>1. Init => StaysUp
  BY DEF Init, StaysUp
<1>2. Typed => Groups
  BY DEF Typed
<1>3. Spec => []Unarmed
  BY AlwaysUnarmed DEF QuietModem
<1>4. QED
  BY <1>1, <1>2, <1>3, TypedInit, TypedStep, AlwaysHeld, OwnInit, QuietStep, OwnIsSafe,
     QuietModem, PTL DEF Spec

(***************************************************************************)
(* Texts.  Most steps are apart from them: counters and verdicts stay, no  *)
(* text begins, and one that is left behind leaves its timer too, unless   *)
(* retranstimer takes it.                                                  *)
(***************************************************************************)
KeepsSms == \A s \in Slots \ {retrans} : sched[s].fn = "sms" => sched'[s].fn = "sms"
Apart ==
    /\ UNCHANGED smsVars
    /\ state' \in SmsStates => state' = state
    /\ state \in SmsStates => state' = state \/ KeepsSms

LEMMA CalmKeepsSms == Calm => KeepsSms /\ (state' \in SmsStates => state \in SmsStates)
BY DEF Calm, Keeps, KeepsSms

LEMMA LineApart ==
    ASSUME Groups, NEW l,
           Reboot(l) \/ InitReads(l) \/ ReadyNetwork(l) \/ Ignores(l) \/ CallLine(l)
    PROVE  Apart
<1>1. CASE Reboot(l)
  BY <1>1, RebootCalm, CalmKeepsSms DEF Reboot, Apart, SmsStates
<1>2. CASE InitReads(l)
  BY <1>2, InitReadsEnds DEF InitReads, Apart, SmsStates, InitStates
<1>3. CASE ReadyNetwork(l)
  BY <1>3, ReadyNetworkCalm, CalmKeepsSms DEF ReadyNetwork, Apart, SmsStates
<1>4. CASE Ignores(l)
  BY <1>4 DEF Ignores, ReadsOnly, Assign, Apart
<1>5. CASE Release(l)
  BY <1>5, ReleaseCalm, CalmKeepsSms DEF Release, Assign, Apart, SmsStates
<1>6. CASE HangupEnds(l)
  BY <1>6 DEF HangupEnds, Assign, Apart, SmsStates
<1>7. CASE ReadyCounts(l) \/ ReadyAnnounces(l) \/ PreAnswerFails(l) \/ ActiveEnds(l) \/ DialGivenUp(l)
  <2>1. Calm
    BY <1>7, ReadyCountsCalm, ReadyAnnouncesCalm, PreAnswerFailsCalm, ActiveEndsCalm, DialGivenUpCalm
  <2>2. UNCHANGED smsVars /\ state \notin SmsStates
    BY <1>7 DEF ReadyCounts, ReadyAnnounces, PreAnswerFails, ActiveEnds, DialGivenUp, Unexpected,
           SmsStates
  <2>3. QED
    BY <2>1, <2>2, CalmKeepsSms DEF Apart
<1>8. CASE RingRings(l) \/ PreAnswerOk(l) \/ ActiveWaiting(l) \/ Proceeds(l)
  <2>1. Calm
    BY <1>8, PlainCallCalm
  <2>2. UNCHANGED smsVars /\ state \notin SmsStates
    BY <1>8 DEF RingRings, PreAnswerOk, ActiveWaiting, Proceeds, ReadsOnly, SmsStates
  <2>3. QED
    BY <2>1, <2>2, CalmKeepsSms DEF Apart
<1>9. QED
  BY <1>1, <1>2, <1>3, <1>4, <1>5, <1>6, <1>7, <1>8 DEF CallLine

LEMMA DialTimerApart == ASSUME Groups, NEW s \in Slots, DialTimer(s) PROVE Apart
<1>1. UNCHANGED smsVars /\ sched[s].fn = "dial" /\ sched[s].call \in Crefs \cup {NoCref} /\ sched \in Table
  BY DEF DialTimer, Fires, Groups, TimersOK, Table, TimerRecords
<1> DEFINE c == sched[s].call
<1>2. CASE DialWaits(s, c)
  <2>1. state \in SmsStates /\ state' \in {state, "HANGUP_REQ"}
    BY <1>1, <1>2, DialWaitsModem, HangsUpState DEF ModemStays, modemVars
  <2>2. PICK r \in Slots :
            /\ LowestFree(Cleared(s), r)
            /\ LET sc == [Cleared(s) EXCEPT ![r] = Timer("dial", c)]
               IN  IF dialRetry' = DialLimit /\ dialHangup /\ c # NoCref
                   THEN AllogsmHangup(sc, calls, c, HangsUp(NoLine), ModemStays)
                   ELSE /\ sched' = sc
                        /\ UNCHANGED <<modemVars, hangupSched, calls, dialVars>>
    BY <1>2 DEF DialWaits
  <2> DEFINE sc == [Cleared(s) EXCEPT ![r] = Timer("dial", c)]
  <2>3. Cleared(s) \in Table /\ calls \in Pool
    BY ClearedType DEF Groups, CallsOK
  <2>4. sc \in Table
    BY <1>1, <2>3, TimerType DEF Table
  <2>5. \A x \in Slots : sched[x].fn = "sms" => sc[x].fn = "sms"
    BY <1>1, <2>2, <2>3, ClearedKeeps, FreeIsNone DEF LowestFree, Table
  <2>6. Keeps(sc, sched', {retrans})
    <3> HIDE DEF sc
    <3>1. CASE AllogsmHangup(sc, calls, c, HangsUp(NoLine), ModemStays)
      BY <2>3, <2>4, <3>1, AllogsmHangupKeeps
    <3>2. CASE sched' = sc
      BY <3>2, KeepsSame
    <3>3. QED
      BY <2>2, <3>1, <3>2 DEF sc
  <2>7. KeepsSms
    BY <2>5, <2>6 DEF Keeps, KeepsSms
  <2>8. QED
    BY <1>1, <2>1, <2>7 DEF Apart, SmsStates
<1>3. CASE DialGoesOn(s, c)
  <2>1. state' \in {"CALL_INIT", "HANGUP_REQ"} /\ state \notin SmsStates
    BY <1>3, SwitchState, HangsUpState DEF DialGoesOn, ModuleDial, ModuleHangup
  <2>2. QED
    BY <1>1, <2>1 DEF Apart, SmsStates
<1>4. CASE UNCHANGED <<modemVars, sched, hangupSched, calls, gsmcall, dialVars, dialRetry>>
  BY <1>1, <1>4 DEF Apart, modemVars
<1>5. QED
  BY <1>2, <1>3, <1>4 DEF DialTimer

LEMMA OtherTimersApart ==
    ASSUME Groups, ReloadTimer \/ \E s \in Slots : HangupTimer(s) \/ StartTimer(s) PROVE Apart
<1>1. CASE ReloadTimer
  BY <1>1 DEF ReloadTimer, Apart
<1>2. CASE \E s \in Slots : HangupTimer(s)
  <2>1. state' = state
    BY <1>2, SwitchState DEF HangupTimer, HangupRepeats, modemVars
  <2>2. QED
    BY <1>2, <2>1 DEF HangupTimer, Apart
<1>3. ASSUME NEW s \in Slots, StartTimer(s)
      PROVE  Apart
  <2>1. state' = state \/ state' \notin SmsStates
    BY <1>3, SwitchState DEF StartTimer, modemVars, SmsStates
  <2>2. KeepsSms
    BY <1>3, ClearedKeeps DEF StartTimer, Fires, KeepsSms, Groups, TimersOK
  <2>3. QED
    BY <1>3, <2>1, <2>2 DEF StartTimer, Apart
<1>4. QED
  BY <1>1, <1>2, <1>3

LEMMA ApiApart ==
    ASSUME Groups, Dial \/ Hangup \/ Answer \/ OtherCommand \/ Reload PROVE Apart
<1>1. CASE Dial
  <2>1. state \in SmsStates => state' = state
    BY <1>1 DEF Dial, modemVars
  <2>2. state \notin SmsStates => state' = "CALL_INIT"
    BY <1>1, SwitchState DEF Dial, ModuleDial
  <2>3. QED
    BY <1>1, <2>1, <2>2 DEF Dial, Apart, SmsStates
<1>2. CASE Hangup
  <2>1. sched \in Table /\ calls \in Pool
    BY DEF Groups, TimersOK, CallsOK
  <2>2. Keeps(sched, sched', {retrans}) /\ (ModemStays \/ HangsUp(NoLine))
    BY <1>2, <2>1, AllogsmHangupKeeps DEF Hangup
  <2>3. KeepsSms /\ state' \in {state, "HANGUP_REQ"}
    BY <2>2, HangsUpState DEF Keeps, KeepsSms, ModemStays, modemVars
  <2>4. QED
    BY <1>2, <2>3 DEF Hangup, Apart, SmsStates
<1>3. CASE Answer
  <2>1. state' = "PRE_ANSWER"
    BY <1>3, SwitchState DEF Answer
  <2>2. sched \in Table /\ sched' = Swept(sched)
    BY <1>3 DEF Answer, Groups, TimersOK
  <2>3. KeepsSms
    BY <2>2, DeletedKeeps DEF Keeps, KeepsSms, Swept
  <2>4. QED
    BY <1>3, <2>1, <2>3 DEF Answer, Apart, SmsStates
<1>4. CASE OtherCommand \/ Reload
  BY <1>4 DEF OtherCommand, Reload, Apart, KeepsSms, timerVars, SmsStates
<1>5. QED
  BY <1>1, <1>2, <1>3, <1>4

\* Every step is apart from texts, or one of these.
TextStep ==
    \/ \E l \in Lines : SmsLine(l)
    \/ \E s \in Slots : SmsTimer(s)
    \/ SendText
LEMMA ApartOrText == Groups /\ [Next]_vars => Apart \/ TextStep
<1> SUFFICES ASSUME Groups, [Next]_vars
             PROVE  Apart \/ TextStep
  OBVIOUS
<1>1. CASE \E l \in Lines : Line(l)
  BY <1>1, LineApart DEF Line, TextStep
<1>2. CASE Timers
  BY <1>2, DialTimerApart, OtherTimersApart DEF Timers, TextStep
<1>3. CASE Api
  BY <1>3, ApiApart DEF Api, TextStep
<1>4. CASE UNCHANGED vars
  BY <1>4 DEF vars, Apart, modemVars
<1>5. QED
  BY <1>1, <1>2, <1>3, <1>4 DEF Next
(***************************************************************************)
(* How often a text is transmitted.  A text in SMS_SENDING has a retry     *)
(* for every transmission before; only a network that comes back starts    *)
(* it again without one, which is what ~stuck leaves out.                  *)
(***************************************************************************)
Counted ==
    /\ sends <= retry + 1
    /\ sends <= SmsRetries + 1
    /\ state = "SMS_SENDING" => sends <= retry /\ retry <= SmsRetries

\* The tries that decide are never fewer than the retries so far.
LEMMA TriesCount ==
    ASSUME TextsOK
    PROVE  /\ retry <= Tries /\ (Tries < SmsRetries => Tries = retry)
           /\ retry <= TimedOutTries
<1>1. Tries \in {retry, SmsRetries + 1} /\ TimedOutTries \in {retry, SmsRetries + 1}
  BY DEF Tries, TimedOutTries
<1>2. retry \in 0..(SmsRetries + 1)
  BY DEF TextsOK
<1>3. QED
  BY <1>1, <1>2, Bounds

LEMMA BoundGrows ==
    ASSUME NEW a \in Nat, NEW b \in Nat, NEW c \in Nat, a <= b + 1, b <= c
    PROVE  a <= c + 1
OBVIOUS

\* Out of SMS_SENDING a text keeps the bound as long as no try is taken back.
LEMMA RestCounted ==
    ASSUME TextsOK, Counted, state' # "SMS_SENDING",
           sends' = sends, retry <= retry', retry' \in 0..(SmsRetries + 1)
    PROVE  Counted'
<1>1. sends \in Nat /\ retry \in Nat /\ retry' \in Nat
  BY Bounds DEF TextsOK
<1>2. sends <= retry + 1
  BY DEF Counted
<1>3. sends <= retry' + 1
  BY <1>1, <1>2, BoundGrows
<1>4. QED
  BY <1>3 DEF Counted

LEMMA SmsLineCounted == ASSUME Groups, ~stuck, Counted, NEW l, SmsLine(l) PROVE Counted'
<1>1. /\ sends \in 0..(SmsRetries + 2) /\ retry \in 0..(SmsRetries + 1) /\ SmsRetries \in Nat
      /\ TextsOK
  BY Bounds DEF Groups, TextsOK
<1>2. CASE SendingContinues(l)
  <2>1. state = "SMS_SENDING"
    BY <1>2 DEF SendingContinues
  <2>2. QED
    BY <1>2, <2>1 DEF Counted, SendingContinues, ReadsOnly, smsVars
<1>3. CASE Prompted(l)
  <2>1. state' = "SMS_SENT" /\ retry' = retry
    BY <1>3, SwitchState DEF Prompted
  <2>2. CASE state = "SMS_SENDING"
    BY <1>1, <1>3, <2>1, <2>2 DEF Counted, Prompted
  <2>3. CASE state # "SMS_SENDING"
    BY <1>3, <2>1, <2>3 DEF Counted, Prompted
  <2>4. QED
    BY <2>2, <2>3
<1>4. CASE SmsNetwork(l)
  BY <1>4 DEF Counted, SmsNetwork, Assign
<1>5. CASE SendingNoise(l)
  BY <1>5 DEF Counted, SendingNoise, modemVars, smsVars
<1>6. CASE SendingFails(l) \/ SmsRing(l) \/ SentOk(l) \/ SentNoise(l)
  <2>1. state' \in {"READY", "INIT"}
    BY <1>6, SwitchState DEF SendingFails, SmsRing, SentOk, SentNoise
  <2>2. UNCHANGED <<sends, retry>>
    BY <1>6 DEF SendingFails, SmsRing, SentOk, SentNoise, Files
  <2>3. QED
    BY <2>1, <2>2 DEF Counted
<1>7. CASE SentRetries(l)
  <2>1. retry < SmsRetries /\ retry' = retry + 1 /\ sends' = sends
    BY <1>1, <1>7, TriesCount DEF SentRetries
  <2>2. QED
    BY <1>1, <2>1 DEF Counted
<1>8. CASE SentFails(l)
  <2>1. state' \in {"READY", "INIT"}
    BY <1>8, SwitchState DEF SentFails
  <2>2. retry <= retry' /\ retry' \in 0..(SmsRetries + 1) /\ sends' = sends
    BY <1>1, <1>8, TriesCount, TriesType DEF SentFails
  <2>3. QED
    BY <1>1, <2>1, <2>2, RestCounted
<1>9. QED
  BY <1>2, <1>3, <1>4, <1>5, <1>6, <1>7, <1>8 DEF SmsLine

LEMMA SmsTimerCounted == ASSUME Groups, Counted, NEW s \in Slots, SmsTimer(s) PROVE Counted'
<1>1. /\ sends \in 0..(SmsRetries + 2) /\ retry \in 0..(SmsRetries + 1) /\ SmsRetries \in Nat
      /\ TextsOK /\ sends' = sends
  BY Bounds DEF Groups, TextsOK, SmsTimer
<1>2. CASE SmsTimerLate(s)
  BY <1>1, <1>2 DEF Counted, SmsTimerLate, modemVars
<1>3. CASE SmsTimerRetries(s)
  <2>1. state' = "SMS_SENT" /\ retry' = retry
    BY <1>3, SwitchState DEF SmsTimerRetries
  <2>2. QED
    BY <1>1, <2>1 DEF Counted
<1>4. CASE SmsTimerGivesUp(s)
  <2>1. state' \in {"READY", "INIT"}
    BY <1>4, SwitchState DEF SmsTimerGivesUp
  <2>2. retry <= retry' /\ retry' \in 0..(SmsRetries + 1)
    BY <1>1, <1>4, TriesCount, TimedOutTriesType DEF SmsTimerGivesUp
  <2>3. QED
    BY <1>1, <2>1, <2>2, RestCounted
<1>5. QED
  BY <1>2, <1>3, <1>4 DEF SmsTimer

LEMMA CountedStep == Typed /\ ~stuck /\ Counted /\ [Next]_vars => Counted'
<1> SUFFICES ASSUME Groups, ~stuck, Counted, [Next]_vars
             PROVE  Counted'
  BY DEF Typed
<1>1. CASE Apart
  BY <1>1 DEF Apart, smsVars, Counted, SmsStates
<1>2. CASE SendText
  BY <1>2, Bounds DEF SendText, Counted
<1>3. QED
  BY <1>1, <1>2, ApartOrText, SmsLineCounted, SmsTimerCounted DEF TextStep

\* While the network does not come back in the middle of a text
\* (gsm->sms_stuck), a text is transmitted once and SmsRetries times again at
\* most, whatever else the modem answers or leaves out.
THEOREM RetriesBounded == Spec /\ []~stuck => []AtMostRetries
<1>1. Init => Counted
  BY Bounds DEF Init, Counted
<1>2. Counted => AtMostRetries
  BY DEF Counted, AtMostRetries
<1>3. QED
  BY <1>1, <1>2, TypedInit, TypedStep, CountedStep, PTL DEF Spec

LEMMA StuckByNetwork ==
    ASSUME Groups, Lines \cap Network \subseteq {"CREG_1"}, ~stuck, [Next]_vars
    PROVE  ~stuck'
<1>1. CASE Apart
  BY <1>1 DEF Apart, smsVars
<1>2. ASSUME NEW l \in Lines, SmsLine(l)
      PROVE  ~stuck'
  <2>1. CASE SmsNetwork(l)
    <3>1. l = "CREG_1"
      BY <2>1 DEF SmsNetwork
    <3>2. Reg(l) = TRUE
      BY <3>1 DEF Reg
    <3>3. stuck' = ~Reg(l)
      BY <2>1 DEF SmsNetwork
    <3>4. QED
      BY Zenon, <3>2, <3>3
  <2>2. QED
    BY <1>2, <2>1 DEF SmsLine, SendingContinues, Prompted, SendingFails, SendingNoise, SmsRing,
           SentOk, SentRetries, SentFails, SentNoise, ReadsOnly, Files, smsVars
<1>3. CASE (\E s \in Slots : SmsTimer(s)) \/ SendText
  BY <1>3 DEF SmsTimer, SendText
<1>4. QED
  BY <1>1, <1>2, <1>3, ApartOrText DEF TextStep

\* A modem that is registered and says nothing else of the network keeps the
\* bound, through resets, calls and restarts from the CLI.
THEOREM RegisteredRetries ==
    ASSUME Lines \cap Network \subseteq {"CREG_1"}
    PROVE  Spec => []AtMostRetries
<1>1. Init => ~stuck
  BY DEF Init
<1>2. Typed /\ ~stuck /\ [Next]_vars => ~stuck'
  BY StuckByNetwork DEF Typed
<1>3. Spec => []~stuck
  BY <1>1, <1>2, TypedInit, TypedStep, PTL DEF Spec
<1>4. QED
  BY <1>3, RetriesBounded, PTL
(***************************************************************************)
(* Verdicts.  SmsTimerInText is the premise: no text has been left without *)
(* one.  A reset, a call or the check behind the switch that ends a text   *)
(* leaves its timer, and no verdict; that is how the premise fails.  Its   *)
(* second part keeps retranstimer off the timer of the text.               *)
(***************************************************************************)
SmsTimerInText ==
    /\ (\E s \in Slots : sched[s].fn = "sms") => state \in SmsStates
    /\ state \in SmsStates => smsSched # retrans

Filed ==
    /\ good \cap bad = {}
    /\ good \cup bad \subseteq 1..text
    /\ state \notin SmsStates => (1..text) \ anonymous \subseteq good \cup bad
    /\ state \in SmsStates =>
          /\ info /\ text \in Texts /\ text \notin good \cup bad
          /\ (1..(text - 1)) \ anonymous \subseteq good \cup bad

LEMMA FiledIsVerdict == Filed => OneVerdict
BY DEF Filed, OneVerdict, SmsStates

\* updateSmsStatus files the text that is with the modem, if it has an id.
LEMMA VerdictFiles ==
    ASSUME TextsOK, Filed, state \in SmsStates, state' \notin SmsStates, text' = text,
           NEW sc, NEW ok \in BOOLEAN, NEW event, UpdateSmsStatus(sc, ok, event)
    PROVE  Filed'
<1>1. /\ info /\ text \in Nat \ {0} /\ text \notin good \cup bad
      /\ (1..(text - 1)) \ anonymous \subseteq good \cup bad
      /\ good \cap bad = {} /\ good \cup bad \subseteq 1..text
  BY DEF Filed, Texts
<1>2. 1..text = (1..(text - 1)) \cup {text}
  BY <1>1
<1>3. anonymous' = anonymous
  BY DEF UpdateSmsStatus
<1>4. CASE text \in anonymous
  <2>1. good' = good /\ bad' = bad
    BY <1>4 DEF UpdateSmsStatus, HasId
  <2>2. (1..text) \ anonymous \subseteq good \cup bad
    BY <1>1, <1>2, <1>4
  <2>3. QED
    BY <1>1, <1>3, <2>1, <2>2 DEF Filed
<1>5. CASE text \notin anonymous
  <2>1. good' = (IF ok THEN good \cup {text} ELSE good) /\ bad' = (IF ok THEN bad ELSE bad \cup {text})
    BY <1>1, <1>5 DEF UpdateSmsStatus, HasId
  <2>2. good' \cup bad' = good \cup bad \cup {text}
    BY <2>1
  <2>3. good' \cap bad' = {}
    BY <1>1, <2>1
  <2>4. good' \cup bad' \subseteq 1..text /\ (1..text) \ anonymous \subseteq good' \cup bad'
    BY <1>1, <1>2, <2>2
  <2>5. QED
    BY <1>3, <2>3, <2>4 DEF Filed
<1>6. QED
  BY <1>4, <1>5

\* The texts stay where they are.
LEMMA FiledKept ==
    ASSUME Filed, UNCHANGED <<text, anonymous, good, bad>>, info => info',
           state' \in SmsStates <=> state \in SmsStates
    PROVE  Filed'
BY DEF Filed

LEMMA SmsLineFiled == ASSUME Groups, Filed, NEW l, SmsLine(l) PROVE Filed'
<1>1. TextsOK /\ state \in SmsStates
  BY DEF Groups, SmsLine, SendingContinues, Prompted, SmsNetwork, SendingFails, SendingNoise,
         SmsRing, SentOk, SentRetries, SentFails, SentNoise, SmsStates
<1>2. CASE SendingContinues(l) \/ Prompted(l) \/ SmsNetwork(l) \/ SentRetries(l)
  <2>1. state' \in SmsStates
    BY <1>1, <1>2, SwitchState
       DEF SendingContinues, Prompted, SmsNetwork, SentRetries, Assign, SmsStates
  <2>2. UNCHANGED <<text, anonymous, good, bad, info>>
    BY <1>2 DEF SendingContinues, Prompted, SmsNetwork, SentRetries, ReadsOnly, smsVars
  <2>3. QED
    BY <1>1, <2>1, <2>2, FiledKept
<1>3. CASE SendingNoise(l)
  BY <1>3, FiledKept DEF SendingNoise, modemVars, smsVars
<1>4. CASE SendingFails(l) \/ SmsRing(l) \/ SentOk(l) \/ SentNoise(l) \/ SentFails(l)
  <2>1. state' \notin SmsStates
    BY <1>4, SwitchState
       DEF SendingFails, SmsRing, SentOk, SentNoise, SentFails, SmsStates
  <2>2. text' = text
    BY <1>4 DEF SendingFails, SmsRing, SentOk, SentNoise, SentFails, Files
  <2>3. PICK ok, event \in BOOLEAN : UpdateSmsStatus(sched, ok, event)
    BY <1>4 DEF SendingFails, SmsRing, SentOk, SentNoise, SentFails, Files
  <2>4. QED
    BY <1>1, <2>1, <2>2, <2>3, VerdictFiles
<1>5. QED
  BY <1>2, <1>3, <1>4 DEF SmsLine

LEMMA SmsTimerFiled ==
    ASSUME Groups, SmsTimerInText, Filed, NEW s \in Slots, SmsTimer(s) PROVE Filed'
<1>1. state \in SmsStates /\ TextsOK
  BY DEF SmsTimerInText, SmsTimer, Fires, Groups
<1>2. ~SmsTimerLate(s)
  BY <1>1 DEF SmsTimerLate, SmsStates
<1>3. CASE SmsTimerRetries(s)
  <2>1. state' \in SmsStates
    BY <1>3, SwitchState DEF SmsTimerRetries, SmsStates
  <2>2. UNCHANGED <<text, anonymous, good, bad, info>>
    BY <1>3 DEF SmsTimerRetries, SmsTimer
  <2>3. QED
    BY <1>1, <2>1, <2>2, FiledKept
<1>4. CASE SmsTimerGivesUp(s)
  <2>1. state' \notin SmsStates
    BY <1>4, SwitchState DEF SmsTimerGivesUp, SmsStates
  <2>2. text' = text /\ UpdateSmsStatus(Cleared(s), FALSE, FALSE)
    BY <1>4 DEF SmsTimerGivesUp, SmsTimer
  <2>3. QED
    BY <1>1, <2>1, <2>2, VerdictFiles
<1>5. QED
  BY <1>2, <1>3, <1>4 DEF SmsTimer

LEMMA SendTextFiled == ASSUME Groups, Filed, SendText PROVE Filed'
<1>1. /\ text \in Nat /\ text < MaxTexts /\ MaxTexts \in Nat
      /\ text' = text + 1 /\ info' /\ UNCHANGED <<good, bad>>
      /\ anonymous \subseteq anonymous'
  BY Bounds DEF Groups, TextsOK, SendText
<1>2. /\ (1..text) \ anonymous \subseteq good \cup bad
      /\ good \cup bad \subseteq 1..text /\ good \cap bad = {}
  BY DEF Filed, SendText, SmsStates
<1>3. state' = "SMS_SENDING"
  BY SwitchState DEF SendText
<1>4. /\ text' \in Texts /\ text' \notin good \cup bad /\ text' - 1 = text
      /\ good \cup bad \subseteq 1..text'
  BY <1>1, <1>2 DEF Texts
<1>5. QED
  BY <1>1, <1>2, <1>3, <1>4 DEF Filed, SmsStates

LEMMA FiledStep ==
    Typed /\ Held /\ SmsTimerInText /\ SmsTimerInText' /\ Filed /\ [Next]_vars => Filed'
<1> SUFFICES ASSUME Groups, Held, SmsTimerInText, SmsTimerInText', Filed, [Next]_vars
             PROVE  Filed'
  BY DEF Typed
<1>1. CASE Apart
  <2>1. ASSUME state \in SmsStates, state' # state
        PROVE  state' \in SmsStates
    <3>1. smsSched \in Slots \ {retrans} /\ sched[smsSched].fn = "sms"
      BY <2>1 DEF Held, SmsHasTimer, SmsTimerInText
    <3>2. sched'[smsSched].fn = "sms"
      BY <1>1, <2>1, <3>1 DEF Apart, KeepsSms
    <3>3. QED
      BY <3>1, <3>2 DEF SmsTimerInText
  <2>2. state' \in SmsStates <=> state \in SmsStates
    BY <1>1, <2>1 DEF Apart
  <2>3. QED
    BY <1>1, <2>2, FiledKept DEF Apart, smsVars
<1>2. QED
  BY <1>1, ApartOrText, SmsLineFiled, SmsTimerFiled, SendTextFiled DEF TextStep

LEMMA FiledInit == Init => Filed
BY DEF Init, Filed, SmsStates

LEMMA AlwaysFiled == Spec /\ []SmsTimerInText => []Filed
BY FiledInit, FiledStep, TypedInit, TypedStep, AlwaysHeld, PTL DEF Spec

\* As long as no text is left to its timer, or its timer to retranstimer, every
\* text with an id gets its verdict before the modem is READY again, and no text
\* gets two: none is filed under
\* smsout_success and smsout_fail.
THEOREM VerdictOnce == Spec /\ []SmsTimerInText => []OneVerdict
BY AlwaysFiled, FiledIsVerdict, PTL
(***************************************************************************)
(* The process.  It ends in three ways: updateSmsStatus without sms_info,  *)
(* or freeing one it did not allocate; an enumeration value in place of a  *)
(* string; a timer whose record is gone.  Filed and Own exclude two, what  *)
(* the modem sends and an empty queue the others.                          *)
(***************************************************************************)
\* gsm_start_timeout has a record that is still allocated.
StartHasRecord == \A s \in Slots : sched[s].fn = "start" => sched[s].call # NoCref

PlainTexts == ~Queued /\ Lines \cap (Progress \cup {"JUNK"}) = {}

LEMMA OtherLinesLive ==
    ASSUME NEW l, Reboot(l) \/ InitReads(l) \/ ReadyNetwork(l) \/ Ignores(l) \/ CallLine(l)
    PROVE  alive' = alive
<1>1. CASE CallLine(l)
  BY <1>1 DEF CallLine, Release, ReadyCounts, ReadyAnnounces, RingRings, PreAnswerOk, PreAnswerFails,
         ActiveEnds, ActiveWaiting, Proceeds, DialGivenUp, HangupEnds, ReadsOnly
<1>2. QED
  BY <1>1 DEF Reboot, InitReads, ReadyNetwork, Ignores, ReadsOnly

LEMMA VerdictLives ==
    ASSUME info, ~inSpan, alive, NEW sc, NEW ok, NEW event, UpdateSmsStatus(sc, ok, event)
    PROVE  alive'
BY DEF UpdateSmsStatus

LEMMA SmsLineLives ==
    ASSUME Groups, Filed, ~inSpan, alive, NEW l, l \notin Progress \cup {"JUNK"}, SmsLine(l)
    PROVE  alive' /\ inSpan' = inSpan
<1>1. state \in SmsStates /\ ~SendingNoise(l) /\ ~SentNoise(l)
  BY DEF SmsLine, SendingContinues, Prompted, SmsNetwork, SendingFails, SendingNoise, SmsRing,
         SentOk, SentRetries, SentFails, SentNoise, SmsStates
<1>2. info
  BY <1>1 DEF Filed
<1>3. CASE SendingContinues(l) \/ Prompted(l) \/ SmsNetwork(l) \/ SentRetries(l)
  BY <1>3 DEF SendingContinues, Prompted, SmsNetwork, SentRetries, ReadsOnly, smsVars
<1>4. CASE SendingFails(l) \/ SmsRing(l) \/ SentOk(l) \/ SentFails(l)
  <2>1. PICK ok, event \in BOOLEAN : UpdateSmsStatus(sched, ok, event)
    BY <1>4 DEF SendingFails, SmsRing, SentOk, SentFails, Files
  <2>2. inSpan' = inSpan
    BY <1>4 DEF SendingFails, SmsRing, SentOk, SentFails, Files
  <2>3. QED
    BY <1>2, <2>1, <2>2, VerdictLives
<1>5. QED
  BY <1>1, <1>3, <1>4 DEF SmsLine

LEMMA TimersLive ==
    ASSUME Groups, Own, SmsTimerInText, StartHasRecord, Filed, ~inSpan, alive, Timers
    PROVE  alive' /\ inSpan' = inSpan
<1>1. ASSUME NEW s \in Slots, SmsTimer(s)
      PROVE  alive' /\ inSpan' = inSpan
  <2>1. info
    BY <1>1 DEF SmsTimerInText, SmsTimer, Fires, Filed
  <2>2. CASE SmsTimerGivesUp(s)
    <3>1. UpdateSmsStatus(Cleared(s), FALSE, FALSE)
      BY <2>2 DEF SmsTimerGivesUp
    <3>2. QED
      BY <1>1, <2>1, <3>1, VerdictLives DEF SmsTimer
  <2>3. QED
    BY <1>1, <2>2 DEF SmsTimer, SmsTimerLate, SmsTimerRetries
<1>2. ASSUME NEW s \in Slots, DialTimer(s)
      PROVE  alive' /\ inSpan' = inSpan
  <2>1. sched[s].call # NoCref
    BY <1>2, DialFires DEF DialTimer
  <2>2. QED
    BY <1>2, <2>1 DEF DialTimer, smsVars
<1>3. QED
  BY <1>1, <1>2 DEF Timers, ReloadTimer, HangupTimer, StartTimer, Fires, StartHasRecord, smsVars

LEMMA LivesStep ==
    /\ PlainTexts /\ Typed /\ Own /\ SmsTimerInText /\ StartHasRecord /\ Filed
    /\ alive /\ ~inSpan /\ [Next]_vars
    => alive' /\ ~inSpan'
<1> SUFFICES ASSUME PlainTexts, Groups, Own, SmsTimerInText, StartHasRecord, Filed, alive, ~inSpan,
                    [Next]_vars
             PROVE  alive' /\ ~inSpan'
  BY DEF Typed
<1>1. CASE \E l \in Lines : Line(l)
  <2>1. PICK l \in Lines : Line(l)
    BY <1>1
  <2>2. l \notin Progress \cup {"JUNK"}
    BY DEF PlainTexts
  <2>3. CASE SmsLine(l)
    BY <2>2, <2>3, SmsLineLives
  <2>4. CASE ~SmsLine(l)
    <3>1. Reboot(l) \/ InitReads(l) \/ ReadyNetwork(l) \/ Ignores(l) \/ CallLine(l)
      BY <2>1, <2>4 DEF Line
    <3>2. inSpan' = inSpan
      BY <3>1, LineApart DEF Apart, smsVars
    <3>3. QED
      BY <3>1, <3>2, OtherLinesLive
  <2>5. QED
    BY <2>3, <2>4
<1>2. CASE Timers
  BY <1>2, TimersLive
<1>3. CASE SendText
  <2>1. Queued = FALSE
    BY SpanAssumption DEF PlainTexts
  <2>2. inSpan' = FALSE
    BY <1>3, <2>1 DEF SendText
  <2>3. alive' = alive
    BY <1>3 DEF SendText
  <2>4. QED
    BY Zenon, <2>2, <2>3
<1>4. CASE Dial \/ Hangup \/ Answer \/ OtherCommand \/ Reload
  <2>1. alive' = alive /\ inSpan' = inSpan
    BY <1>4 DEF Dial, Hangup, Answer, OtherCommand, Reload, smsVars
  <2>2. QED
    BY Zenon, <2>1
<1>5. CASE UNCHANGED vars
  BY <1>5 DEF vars, smsVars
<1>6. QED
  BY <1>1, <1>2, <1>3, <1>4, <1>5 DEF Next, Api

\* With texts that come from allogsm_send_text and a modem that sends nothing
\* the text states do not know, the process survives every order of lines,
\* timers and calls in which no dial has lost its channel, no text has been
\* left to its timer and gsm_start_timeout has not outlived its record.
THEOREM ProcessLives ==
    ASSUME PlainTexts
    PROVE  Spec /\ [](DialHasCall /\ SmsTimerInText /\ StartHasRecord) => []KeepsRunning
<1>1. Init => alive /\ ~inSpan
  BY DEF Init
<1>2. alive => KeepsRunning
  BY DEF KeepsRunning
<1>3. Groups /\ Own => Own
  OBVIOUS
<1>4. QED
  BY <1>1, <1>2, <1>3, PlainTexts, LivesStep, AlwaysOwn, AlwaysFiled, TypedInit, TypedStep, PTL DEF Spec

(***************************************************************************)
(* A quiet modem keeps both premises.  Its one send timeout is the one the *)
(* span remembers, and it is pending in a text state only; a call that is  *)
(* not put off keeps the modem in a state of its own, so that no text      *)
(* begins beside it and no hangup or answer ends a text.                   *)
(***************************************************************************)
Alone == \A s \in Slots : sched[s].fn = "sms" => s = smsSched /\ state \in SmsStates
Busy == gsmcall \in Crefs /\ ~dialInitiated => state \in CallStates
Apiece == Alone /\ Busy

\* The usual step: no send timeout is added and no text is left.
Goes ==
    /\ NoNew(sched, sched', "sms")
    /\ smsSched' = smsSched
    /\ state \in SmsStates => state' \in SmsStates

LEMMA GoesAlone == ASSUME Alone, Goes PROVE Alone'
BY DEF Alone, Goes, NoNew

LEMMA SmsIsRare == "sms" \in Rare
BY DEF Rare

LEMMA NoCallNoBusy == gsmcall' = NoCref \/ gsmcall' = Stale => Busy'
BY DEF Busy, Crefs, NoCref, Stale

\* Without a call of its own the modem may go anywhere.
LEMMA FreeNotBusy ==
    ASSUME Busy, state \notin CallStates, gsmcall' = gsmcall, dialInitiated' = dialInitiated
    PROVE  Busy'
BY DEF Busy
\* What a line does outside the text states.
LEMMA CallLineApiece ==
    ASSUME Groups, Apiece, NEW l, l \notin Released, CallLine(l)
    PROVE  Goes /\ Busy'
<1>1. NoNew(sched, sched', "sms") /\ smsSched' = smsSched
  BY CallLineAddsNone, SmsIsRare
<1>2. state \notin SmsStates
  BY DEF CallLine, Release, ReleasedBy, ReadyCounts, ReadyAnnounces, RingRings, PreAnswerOk,
         PreAnswerFails, ActiveEnds, ActiveWaiting, Proceeds, DialGivenUp, Unexpected, HangupEnds,
         SmsStates
<1>3. CASE Release(l) \/ ActiveEnds(l) \/ HangupEnds(l)
  BY <1>1, <1>2, <1>3, NoCallNoBusy DEF Release, ActiveEnds, HangupEnds, EventHangup, Goes
<1>4. CASE ReadyCounts(l)
  <2>1. Busy'
    BY <1>4, FreeNotBusy DEF Apiece, ReadyCounts, CallStates, dialVars
  <2>2. QED
    BY <1>1, <1>2, <2>1 DEF Goes
<1>5. CASE ReadyAnnounces(l)
  <2>1. state' = "RING" \/ gsmcall' = NoCref
    BY <1>5 DEF ReadyAnnounces, Assign
  <2>2. Busy'
    BY <2>1, NoCallNoBusy DEF Busy, CallStates
  <2>3. QED
    BY <1>1, <1>2, <2>2 DEF Goes
<1>6. CASE RingRings(l) \/ PreAnswerOk(l) \/ ActiveWaiting(l) \/ Proceeds(l)
  <2>1. \A c : /\ Switch("CALL_PROCEEDING", c, l) => state' = "CALL_PROCEEDING"
               /\ Switch("CALL_ACTIVE", c, l) => state' = "CALL_ACTIVE"
    BY SwitchState
  <2>2. state' \in CallStates
    BY <1>6, <2>1 DEF RingRings, PreAnswerOk, ActiveWaiting, Proceeds, Assign, CallStates
  <2>3. QED
    BY <1>1, <1>2, <2>2 DEF Goes, Busy
<1>7. CASE PreAnswerFails(l)
  <2>1. Switch("PRE_ANSWER", "ATA", l) => state' = "PRE_ANSWER"
    BY SwitchState
  <2>2. state' \in CallStates \/ gsmcall' = NoCref \/ gsmcall' = Stale
    BY <1>7, <2>1 DEF PreAnswerFails, CallStates
  <2>3. Busy'
    BY <2>2, NoCallNoBusy DEF Busy
  <2>4. QED
    BY <1>1, <1>2, <2>3 DEF Goes
<1>8. CASE DialGivenUp(l)
  <2>1. state' = "HANGUP_REQ"
    BY <1>8, SwitchState DEF DialGivenUp
  <2>2. QED
    BY <1>1, <1>2, <2>1 DEF Goes, Busy, CallStates
<1>9. QED
  BY <1>3, <1>4, <1>5, <1>6, <1>7, <1>8 DEF CallLine

LEMMA OtherLineApiece ==
    ASSUME Groups, Apiece, dialInitiated => state \notin InitStates, NEW l, l \notin Reboots,
           Reboot(l) \/ InitReads(l) \/ ReadyNetwork(l) \/ Ignores(l)
    PROVE  Goes /\ Busy'
<1>1. NoNew(sched, sched', "sms") /\ smsSched' = smsSched
  BY OtherLineAddsNone, SmsIsRare
<1>2. CASE InitReads(l)
  <2>1. state \in InitStates /\ state \notin SmsStates /\ state \notin CallStates /\ ~dialInitiated
    BY <1>2 DEF InitReads, InitStates, SmsStates, CallStates
  <2>2. gsmcall \notin Crefs
    BY <2>1 DEF Apiece, Busy
  <2>3. gsmcall' = gsmcall \/ gsmcall' = NoCref
    BY <1>2, EventDownAlone, SmsIsRare DEF InitReads, Reads
  <2>4. Busy'
    BY <2>2, <2>3, NoCallNoBusy DEF Busy
  <2>5. QED
    BY <1>1, <2>1, <2>4 DEF Goes
<1>3. CASE ReadyNetwork(l)
  <2>1. state \notin SmsStates /\ state \notin CallStates
    BY <1>3 DEF ReadyNetwork, SmsStates, CallStates
  <2>2. UNCHANGED <<gsmcall, dialVars>> \/ gsmcall' = NoCref
    BY <1>3, EventDownAlone, SmsIsRare DEF ReadyNetwork
  <2>3. Busy'
    BY <2>1, <2>2, FreeNotBusy, NoCallNoBusy DEF Apiece, dialVars
  <2>4. QED
    BY <1>1, <2>1, <2>3 DEF Goes
<1>4. CASE Ignores(l)
  <2>1. state' = state /\ UNCHANGED <<gsmcall, dialVars>>
    BY <1>4 DEF Ignores, Assign, ReadsOnly, Reads
  <2>2. Busy'
    BY <2>1 DEF Apiece, Busy, dialVars
  <2>3. QED
    BY <1>1, <2>1, <2>2 DEF Goes
<1>5. QED
  BY <1>2, <1>3, <1>4 DEF Reboot

\* A line of a text keeps its timer or takes it with the text.
LEMMA SmsLineApiece ==
    ASSUME Groups, Apiece, NEW l, SmsLine(l)
    PROVE  Apiece'
<1>1. state \in SmsStates /\ state \notin CallStates
  BY DEF SmsLine, SendingContinues, Prompted, SmsNetwork, SendingFails, SendingNoise, SmsRing,
         SentOk, SentRetries, SentFails, SentNoise, SmsStates, CallStates
<1>2. gsmcall' = gsmcall /\ dialInitiated' = dialInitiated
  BY DEF SmsLine, SendingContinues, Prompted, SmsNetwork, SendingFails, SendingNoise, SmsRing,
         SentOk, SentRetries, SentFails, SentNoise, ReadsOnly, Reads, callVars, dialVars
<1>3. Busy'
  BY <1>1, <1>2, FreeNotBusy DEF Apiece
<1>4. CASE SendingContinues(l) \/ Prompted(l) \/ SmsNetwork(l) \/ SentRetries(l) \/ SendingNoise(l)
  <2>1. UNCHANGED timerVars
    BY <1>4 DEF SendingContinues, Prompted, SmsNetwork, SentRetries, SendingNoise, ReadsOnly
  <2>2. state' \in SmsStates
    BY <1>1, <1>4, SwitchState
       DEF SendingContinues, Prompted, SmsNetwork, SentRetries, SendingNoise, Assign, SmsStates,
           modemVars
  <2>3. QED
    BY <1>3, <2>1, <2>2 DEF Apiece, Alone, timerVars
<1>5. CASE SendingFails(l) \/ SmsRing(l) \/ SentOk(l) \/ SentNoise(l) \/ SentFails(l)
  <2>1. sched' = Deleted(sched, smsSched)
    BY <1>5 DEF SendingFails, SmsRing, SentOk, SentNoise, SentFails, Files, UpdateSmsStatus
  <2>2. \A s \in Slots : sched'[s].fn # "sms"
    BY <2>1, FreeIsNone DEF Apiece, Alone, Deleted
  <2>3. QED
    BY <1>3, <2>2 DEF Apiece, Alone
<1>6. QED
  BY <1>4, <1>5 DEF SmsLine
\* One send timeout is armed where there is none.
LEMMA ArmSmsAlone ==
    ASSUME NEW sc \in Table, \A s \in Slots : sc[s].fn # "sms", ArmSms(sc),
           state' \in SmsStates
    PROVE  Alone'
<1>1. PICK r \in Slots : sched' = [sc EXCEPT ![r] = Timer("sms", NoCref)] /\ smsSched' = r
  BY DEF ArmSms
<1>2. \A s \in Slots : s # r => sched'[s].fn # "sms"
  BY <1>1 DEF Table
<1>3. QED
  BY <1>1, <1>2 DEF Alone

LEMMA SmsTimerApiece == ASSUME Groups, Apiece, NEW s \in Slots, SmsTimer(s) PROVE Apiece'
<1>1. s = smsSched /\ state \in SmsStates /\ state \notin CallStates
  BY DEF Apiece, Alone, SmsTimer, Fires, SmsStates, CallStates
<1>2. Cleared(s) \in Table /\ \A r \in Slots : Cleared(s)[r].fn # "sms"
  BY <1>1, ClearedType, FreeIsNone DEF Groups, TimersOK, Apiece, Alone, Cleared, Table
<1>3. Busy'
  BY <1>1, FreeNotBusy DEF Apiece, SmsTimer, callVars, dialVars
<1>4. CASE SmsTimerRetries(s)
  <2>1. state' \in SmsStates
    BY <1>4, SwitchState DEF SmsTimerRetries, SmsStates
  <2>2. Alone'
    BY <1>2, <1>4, <2>1, ArmSmsAlone DEF SmsTimerRetries
  <2>3. QED
    BY <1>3, <2>2 DEF Apiece
<1>5. CASE SmsTimerGivesUp(s)
  <2>1. sched' = Deleted(Cleared(s), smsSched)
    BY <1>5 DEF SmsTimerGivesUp, UpdateSmsStatus
  <2>2. \A r \in Slots : sched'[r].fn # "sms"
    BY <1>2, <2>1, FreeIsNone DEF Deleted
  <2>3. QED
    BY <1>3, <2>2 DEF Apiece, Alone
<1>6. ~SmsTimerLate(s)
  BY <1>1 DEF SmsTimerLate, SmsStates
<1>7. QED
  BY <1>4, <1>5, <1>6 DEF SmsTimer

LEMMA DialTimerApiece ==
    ASSUME Groups, Own, Apiece, Unarmed, NEW s \in Slots, DialTimer(s)
    PROVE  Goes /\ Busy'
<1>1. /\ Fires(s, "dial") /\ sched[s].call = cref /\ cref \in Crefs /\ cref # NoCref
      /\ dialInitiated
  BY DialFires DEF DialTimer
<1>2. smsSched' = smsSched /\ NoNew(sched, sched', "sms")
  BY DialTimerAddsNone, SmsIsRare DEF DialTimer
<1>3. CASE DialWaits(s, cref)
  <2>1. state' = state /\ UNCHANGED dialVars /\ gsmcall' = gsmcall
    BY <1>1, <1>3, DialWaitsOn DEF DialWaits
  <2>2. QED
    BY <1>1, <1>2, <2>1 DEF Goes, Busy, dialVars
<1>4. CASE DialGoesOn(s, cref)
  <2>1. state \notin SmsStates
    BY <1>4 DEF DialGoesOn
  <2>2. state' \in CallStates
    BY <1>4, SwitchState, HangsUpState DEF DialGoesOn, ModuleDial, ModuleHangup, CallStates
  <2>3. QED
    BY <1>2, <2>1, <2>2 DEF Goes, Busy
<1>5. QED
  BY <1>1, <1>3, <1>4 DEF DialTimer

LEMMA OtherTimersApiece ==
    ASSUME Groups, Apiece, Unarmed, ReloadTimer \/ \E s \in Slots : HangupTimer(s) \/ StartTimer(s)
    PROVE  Goes /\ Busy'
<1>1. NoNew(sched, sched', "sms") /\ smsSched' = smsSched
  BY OtherTimersAddNone, SmsIsRare
<1>2. state' = state /\ UNCHANGED <<callVars, dialVars>>
  BY SwitchState
     DEF ReloadTimer, HangupTimer, HangupRepeats, StartTimer, Fires, Unarmed, modemVars
<1>3. QED
  BY <1>1, <1>2 DEF Apiece, Busy, Goes, callVars, dialVars

\* A call that is put off is neither hung up with ATH nor answered.
LEMMA HangupApiece == ASSUME Groups, Own, Apiece, Hangup PROVE Goes /\ Busy'
<1>1. sched \in Table /\ calls \in Pool /\ smsSched' = smsSched /\ gsmcall' = Stale
  BY DEF Groups, TimersOK, CallsOK, Hangup
<1>2. NoNew(sched, sched', "sms")
  BY ApiAddsNone, SmsIsRare
<1>3. ASSUME state \in SmsStates
      PROVE  state' = state
  <2>1. gsmcall \in Crefs /\ dialInitiated
    BY <1>3 DEF Hangup, Apiece, Busy, SmsStates, CallStates
  <2>2. gsmcall = cref /\ calls[cref].live
    BY <2>1, Bounds DEF Own, DialInv, Waiting, Crefs, Stale
  <2>3. QED
    BY <2>1, <2>2 DEF Hangup, AllogsmHangup, ModemStays, modemVars
<1>4. QED
  BY <1>1, <1>2, <1>3, NoCallNoBusy DEF Goes

LEMMA AnswerApiece == ASSUME Groups, Own, Apiece, Answer PROVE Goes /\ Busy'
<1>1. NoNew(sched, sched', "sms") /\ smsSched' = smsSched /\ state' = "PRE_ANSWER"
  BY SwitchState, ApiAddsNone, SmsIsRare DEF Answer
<1>2. state \notin SmsStates
  <2>1. SUFFICES ASSUME state \in SmsStates
                 PROVE  FALSE
    OBVIOUS
  <2>2. gsmcall \in Crefs /\ dialInitiated
    BY <2>1 DEF Answer, Apiece, Busy, SmsStates, CallStates
  <2>3. gsmcall = cref /\ ~calls[cref].unanswered
    BY <2>2, Bounds DEF Own, DialInv, Waiting, Crefs, Stale
  <2>4. QED
    BY <2>3 DEF Answer
<1>3. QED
  BY <1>1, <1>2 DEF Goes, Busy, CallStates

LEMMA DialApiece == ASSUME Groups, Own, Apiece, Dial PROVE Goes /\ Busy'
<1>1. NoNew(sched, sched', "sms") /\ smsSched' = smsSched
  BY ApiAddsNone, SmsIsRare
<1>2. CASE state \in SmsStates
  <2>1. state' = state /\ dialInitiated' = TRUE
    BY <1>2 DEF Dial, modemVars
  <2>2. QED
    BY <1>1, <2>1 DEF Goes, Busy
<1>3. CASE state \notin SmsStates
  <2>1. state' = "CALL_INIT"
    BY <1>3, SwitchState DEF Dial, ModuleDial
  <2>2. QED
    BY <1>1, <1>3, <2>1 DEF Goes, Busy, CallStates
<1>4. QED
  BY <1>2, <1>3

LEMMA SendTextApiece == ASSUME Groups, Apiece, SendText PROVE Apiece'
<1>1. sched \in Table /\ \A s \in Slots : sched[s].fn # "sms"
  BY DEF Groups, TimersOK, SendText, Apiece, Alone, SmsStates
<1>2. state' \in SmsStates
  BY SwitchState DEF SendText, SmsStates
<1>3. Alone'
  BY <1>1, <1>2, ArmSmsAlone DEF SendText
<1>4. Busy'
  BY FreeNotBusy DEF SendText, Apiece, callVars, dialVars, CallStates
<1>5. QED
  BY <1>3, <1>4 DEF Apiece

\* Nobody restarts the modem, noise at the start-up arms no timer, and the modem
\* does not end calls or texts by itself.
CalmModem == ~Reloads /\ ~Retrans /\ Lines \cap (Released \cup Reboots) = {}

LEMMA ApieceStep ==
    /\ CalmModem /\ Typed /\ Unarmed /\ Own
    /\ (dialInitiated => state \notin InitStates) /\ Apiece /\ [Next]_vars
    => Apiece'
<1> SUFFICES ASSUME CalmModem, Groups, Unarmed, Own, dialInitiated => state \notin InitStates,
                    Apiece, [Next]_vars
             PROVE  Apiece'
  BY DEF Typed
<1>1. Goes /\ Busy' => Apiece'
  BY GoesAlone DEF Apiece
<1>2. CASE \E l \in Lines : Line(l)
  <2>1. PICK l \in Lines : Line(l)
    BY <1>2
  <2>2. l \notin Released /\ l \notin Reboots
    BY DEF CalmModem
  <2>3. QED
    BY <1>1, <2>1, <2>2, CallLineApiece, OtherLineApiece, SmsLineApiece DEF Line
<1>3. CASE Timers
  BY <1>1, <1>3, OtherTimersApiece, SmsTimerApiece, DialTimerApiece DEF Timers
<1>4. CASE SendText \/ Dial \/ Hangup \/ Answer
  BY <1>1, <1>4, SendTextApiece, DialApiece, HangupApiece, AnswerApiece
<1>5. CASE OtherCommand \/ UNCHANGED vars
  BY <1>5 DEF OtherCommand, vars, Apiece, Alone, Busy, modemVars, timerVars, callVars, dialVars
<1>6. QED
  BY <1>2, <1>3, <1>4, <1>5 DEF Next, Api, Reload, CalmModem

LEMMA ApieceSafe ==
    Groups /\ Held /\ Unarmed /\ Own /\ Apiece => DialHasCall /\ SmsTimerInText /\ StartHasRecord
<1> SUFFICES ASSUME Groups, Held, Unarmed, Own, Apiece
             PROVE  DialHasCall /\ SmsTimerInText /\ StartHasRecord
  OBVIOUS
<1>1. SmsTimerInText
  BY NotZero DEF Apiece, Alone, SmsTimerInText, Held, SmsHasTimer, Unarmed
<1>2. DialTimers # {} => dialInitiated
  BY DEF Own, DialInv
<1>3. DialHasCall
  BY <1>2, Bounds DEF Own, DialInv, Waiting, DialHasCall, Groups, CallsOK, Crefs, Stale, NoCref
<1>4. QED
  BY <1>1, <1>3 DEF Unarmed, StartHasRecord

\* With the modem of QuietCalls no premise is needed: every dial that waits
\* has its channel and its timer, and no text is left to its timer.
THEOREM QuietPremises ==
    ASSUME QuietModem
    PROVE  Spec => [](DialHasCall /\ SmsTimerInText /\ StartHasRecord)
<1>1. Init => StaysUp
  BY DEF Init, StaysUp
<1>2. Init => Apiece
  BY FreeIsNone DEF Init, Apiece, Alone, Busy, Crefs, NoCref
<1>3. Typed => Groups
  BY DEF Typed
<1>4. CalmModem
  BY QuietModem DEF QuietModem, CalmModem, Disturbing
<1>5. StaysUp => (dialInitiated => state \notin InitStates)
  BY DEF StaysUp
<1>6. Spec => []Unarmed
  BY AlwaysUnarmed DEF QuietModem
<1>7. QED
  BY <1>1, <1>2, <1>3, <1>4, <1>5, <1>6, TypedInit, TypedStep, AlwaysHeld, OwnInit, QuietStep,
     ApieceStep, ApieceSafe, QuietModem, PTL DEF Spec

\* With that modem every text with an id gets one verdict, and only one, before the modem
\* is READY again, with a call put off beside it or not.
THEOREM QuietTexts ==
    ASSUME QuietModem
    PROVE  Spec => []OneVerdict
BY QuietPremises, VerdictOnce, QuietModem, PTL

\* If it also sends no call progress or noise while a text is with it, and no
\* text comes from the queue, the process survives.
THEOREM QuietProcess ==
    ASSUME QuietModem, PlainTexts
    PROVE  Spec => []KeepsRunning
BY QuietPremises, ProcessLives, QuietModem, PlainTexts, PTL

(***************************************************************************)
(* Calls alone and texts alone.  Without calls out nothing is put off, and *)
(* without texts there is nothing to put a call off for; then a lost       *)
(* network or a restart finds less to leave behind.                        *)
(***************************************************************************)
NoDialOut == ~dialInitiated

LEMMA NoDialStep ==
    MaxCref = 0 /\ Typed /\ Own /\ NoDialOut /\ [Next]_vars => NoDialOut'
<1> SUFFICES ASSUME MaxCref = 0, Groups, Own, NoDialOut, [Next]_vars
             PROVE  NoDialOut'
  BY DEF Typed
<1>1. CASE \E l \in Lines : Line(l)
  BY <1>1, LineKeepsDial DEF NoDialOut
<1>2. CASE Timers
  BY <1>2, TimersKeepDial DEF NoDialOut
<1>3. CASE Hangup
  <2>1. sched \in Table /\ calls \in Pool
    BY DEF Groups, TimersOK, CallsOK
  <2>2. QED
    BY <1>3, <2>1, AllogsmHangupKeeps DEF Hangup, NoDialOut
<1>4. ~Dial
  BY DEF Dial, Groups, CallsOK, Crefs
<1>5. CASE SendText \/ Answer \/ OtherCommand \/ Reload \/ UNCHANGED vars
  BY <1>5 DEF SendText, Answer, OtherCommand, Reload, vars, dialVars, NoDialOut
<1>6. QED
  BY <1>1, <1>2, <1>3, <1>4, <1>5 DEF Next, Api

\* Where the modem neither restarts nor reports the end of a call, and the
\* span makes no calls, the premises hold, also when the network goes, calls
\* arrive or 512 and 515 reload the modem.
LEMMA LonePremises ==
    ASSUME MaxCref = 0, CalmModem
    PROVE  Spec => [](DialHasCall /\ SmsTimerInText /\ StartHasRecord)
<1>1. Init => NoDialOut /\ Apiece
  BY FreeIsNone DEF Init, NoDialOut, Apiece, Alone, Busy, Crefs, NoCref
<1>2. Typed => Groups
  BY DEF Typed
<1>3. NoDialOut => Spared /\ (dialInitiated => state \notin InitStates)
  BY DEF NoDialOut, Spared
<1>4. MaxCref = 0 /\ CalmModem
  BY MaxCref = 0, CalmModem
<1>5. Spec => []Unarmed
  BY AlwaysUnarmed DEF CalmModem
<1>6. QED
  BY <1>1, <1>2, <1>3, <1>4, <1>5, TypedInit, TypedStep, AlwaysHeld, OwnInit, OwnStep, NoDialStep,
     ApieceStep, ApieceSafe, PTL DEF Spec

\* A span that makes no calls gives every text with an id one verdict, and only one, before
\* the modem is READY again, whatever becomes of network and registration.
THEOREM LoneTexts ==
    ASSUME MaxCref = 0, CalmModem
    PROVE  Spec => []OneVerdict
BY LonePremises, VerdictOnce, MaxCref = 0, CalmModem, PTL

\* With known answers and an empty queue such a span survives as well.
THEOREM LoneProcess ==
    ASSUME MaxCref = 0, CalmModem, PlainTexts
    PROVE  Spec => []KeepsRunning
BY LonePremises, ProcessLives, MaxCref = 0, CalmModem, PlainTexts, PTL

\* Without texts no send timeout is armed, and the text states are not entered.
Textless == NoDialOut /\ state \notin SmsStates /\ \A s \in Slots : sched[s].fn # "sms"

LEMMA TextlessStep ==
    MaxTexts = 0 /\ Typed /\ Own /\ Textless /\ [Next]_vars => Textless'
<1> SUFFICES ASSUME MaxTexts = 0, Groups, Own, Textless, [Next]_vars
             PROVE  Textless'
  BY DEF Typed
<1>1. sched \in Table /\ calls \in Pool
  BY DEF Groups, TimersOK, CallsOK
<1>2. ~TextStep
  <2>1. \A l \in Lines : ~SmsLine(l)
    BY DEF SmsLine, SendingContinues, Prompted, SmsNetwork, SendingFails, SendingNoise, SmsRing,
           SentOk, SentRetries, SentFails, SentNoise, Textless, SmsStates
  <2>2. \A s \in Slots : ~SmsTimer(s)
    BY DEF SmsTimer, Fires, Textless
  <2>3. ~SendText
    BY DEF SendText, Groups, TextsOK
  <2>4. QED
    BY <2>1, <2>2, <2>3 DEF TextStep
<1>3. state' \notin SmsStates
  BY <1>2, ApartOrText DEF Apart, Textless
<1>4. NoNew(sched, sched', "sms") /\ (dialInitiated' => dialInitiated) => Textless'
  BY <1>3 DEF Textless, NoDialOut, NoNew
<1>5. CASE \E l \in Lines : Line(l)
  <2>1. PICK l \in Lines : Line(l)
    BY <1>5
  <2>2. ~SmsLine(l)
    BY <1>2 DEF TextStep
  <2>3. NoNew(sched, sched', "sms")
    BY <2>1, <2>2, CallLineAddsNone, OtherLineAddsNone, SmsIsRare DEF Line
  <2>4. QED
    BY <1>4, <2>1, <2>3, LineKeepsDial
<1>6. CASE Timers
  <2>1. \A s \in Slots : ~SmsTimer(s) /\ ~DialTimer(s)
    BY <1>2, DialFires DEF TextStep, DialTimer, Textless, NoDialOut
  <2>2. NoNew(sched, sched', "sms")
    BY <1>6, <2>1, OtherTimersAddNone, SmsIsRare DEF Timers
  <2>3. QED
    BY <1>4, <1>6, <2>2, TimersKeepDial
<1>7. CASE Dial
  BY <1>4, <1>7, ApiAddsNone, SmsIsRare DEF Dial, ModuleDial, Textless
<1>8. CASE Hangup
  BY <1>1, <1>4, <1>8, ApiAddsNone, SmsIsRare, AllogsmHangupKeeps DEF Hangup
<1>9. CASE Answer \/ OtherCommand \/ Reload
  BY <1>4, <1>9, ApiAddsNone, SmsIsRare DEF Answer, OtherCommand, Reload, dialVars
<1>10. CASE UNCHANGED vars
  BY <1>4, <1>10 DEF vars, timerVars, dialVars, NoNew
<1>11. QED
  BY <1>2, <1>5, <1>6, <1>7, <1>8, <1>9, <1>10 DEF Next, Api, TextStep

\* On a span that sends no texts the four call properties hold whatever the
\* modem does: releases, restarts, lost networks and noise at any time.
THEOREM LoneCalls ==
    ASSUME MaxTexts = 0
    PROVE  Spec => [](OneReference /\ DialOwnsRecord /\ DialsForChannel /\ CallHasChannel)
<1>1. Init => Textless
  BY FreeIsNone DEF Init, Textless, NoDialOut, SmsStates
<1>2. Typed => Groups
  BY DEF Typed
<1>3. Textless => Spared
  BY DEF Textless, NoDialOut, Spared
<1>4. QED
  BY <1>1, <1>2, <1>3, TypedInit, TypedStep, AlwaysHeld, OwnInit, OwnStep, TextlessStep, OwnIsSafe,
     MaxTexts = 0, PTL DEF Spec
==============================================================================
