------------------------------ MODULE Requests ------------------------------
(***************************************************************************)
(* Console requests that the module answers: USSD, the operator list, the  *)
(* safe AT commands and the phone check.  A console thread takes the       *)
(* request's mutex, starts the request without the span's lock and waits   *)
(* on a condition with a timeout.  The wait gives the mutex back, so that  *)
(* a second thread may ask meanwhile; only phone_lock is kept.  The        *)
(* library sends at once when it is READY and from a timer when it is not; *)
(* the d-channel thread reads the module's lines, stores the answer and    *)
(* signals, without the mutex: one waiting thread wakes up, whosever the   *)
(* answer is, and none if the wait has not begun.                          *)
(* Everything else the span does is the state "OTHER".                     *)
(***************************************************************************)
EXTENDS Integers, FiniteSets

CONSTANTS
    Users,          \* console threads
    Kinds,          \* requests they make, see AllKinds
    MaxAsks,        \* bound: requests in a behaviour
    MaxSched,       \* size of the timer table
    SafeTries       \* tries of a safe AT command, 5 in the code

\* "safe" is "allogsm send at safe", "at" is "allogsm send at ... SAFE".
AllKinds == {"ussd", "operator", "safe", "at", "phone"}

ASSUME RequestsAssumption ==
    /\ Kinds \subseteq AllKinds /\ "nobody" \notin Users
    /\ MaxAsks \in Nat /\ MaxSched \in Nat \ {0} /\ SafeTries \in Nat \ {0}

VARIABLES
    state,          \* gsm->state
    asker,          \* the request the state belongs to, 0 for none
    ours,           \* at_last_sent is still the command of the state
    sched,          \* the timer table
    hangupSched,    \* hangupTimeoutSched
    check,          \* the phone check: auto_hangup_flag, and its time is over
    user,           \* what each console thread is at
    mutex,          \* who holds ussd_mutex, operator_list_mutex, ..., phone_lock
    answer,         \* the request whose answer is stored, for each mutex
    asked,          \* number of requests so far
    sent, told,     \* requests given to the modem, requests an event answered
    late,           \* mutexes whose request has timed out once
    met             \* mutexes of which two requests were under way at once

vars == <<state, asker, ours, sched, hangupSched, check, user, mutex, answer, asked,
          sent, told, late, met>>

Slots == 1..MaxSched
Free == [kind |-> "none", id |-> 0, tries |-> 0]
Idle == [at |-> "idle", kind |-> "none", id |-> 0, slot |-> 0]
Mutexes == {"ussd", "operator", "safe", "phone"}
MutexOf(k) == IF k = "at" THEN "safe" ELSE k
StateOf(k) == CASE k = "ussd" -> "USSD" [] k = "operator" -> "OPERATOR"
                [] k \in {"safe", "at"} -> "SAFE" [] k = "phone" -> "PHONE"

Init ==
    /\ state \in {"READY", "OTHER"}
    /\ asker = 0 /\ ours = TRUE
    /\ sched = [s \in Slots |-> Free] /\ hangupSched = 0
    /\ check = [auto |-> FALSE, over |-> FALSE]
    /\ user = [u \in Users |-> Idle]
    /\ mutex = [m \in Mutexes |-> "nobody"]
    /\ answer = [m \in Mutexes |-> 0]
    /\ asked = 0 /\ sent = {} /\ told = {} /\ late = {} /\ met = {}
------------------------------------------------------------------------------
(* The timer table: the lowest free slot is taken.                         *)
Room == {s \in Slots : sched[s].kind = "none"}
Slot == CHOOSE s \in Room : \A t \in Room : s <= t
Scheduled(kind, id, tries) == [sched EXCEPT ![Slot] = [kind |-> kind, id |-> id, tries |-> tries]]

\* gsm_switch_state to a request's state, whatever the state was.
SwitchState(k, id) ==
    /\ state' = StateOf(k) /\ asker' = id
    /\ ours' = TRUE
    /\ sent' = sent \cup {id}
LibSame == UNCHANGED <<state, asker, ours, sent>>
------------------------------------------------------------------------------
(* A console thread.  The mutex is tried, and a thread that does not get it *)
(* goes away.                                                              *)
UnderWay(u) == user[u].at \notin {"idle", "ready"}
Asks(u, k) ==
    /\ user[u].at = "idle" /\ asked < MaxAsks
    /\ mutex' = [mutex EXCEPT ![MutexOf(k)] = u]
    /\ asked' = asked + 1
    /\ user' = [user EXCEPT ![u] = [at |-> "check", kind |-> k, id |-> asked + 1, slot |-> 0]]
    /\ met' = IF \E v \in Users : UnderWay(v) /\ MutexOf(user[v].kind) = MutexOf(k)
              THEN met \cup {MutexOf(k)} ELSE met
    /\ LibSame /\ UNCHANGED <<sched, hangupSched, check, answer, told, late>>
\* mutant: the result of the trylock of phone_lock is not looked at.
AskPhoneUnlocked(u, k) == (k = "phone" \/ mutex[MutexOf(k)] = "nobody") /\ Asks(u, k)
Ask(u, k) == mutex[MutexOf(k)] = "nobody" /\ Asks(u, k)

At(u, label) == user[u].at = label
Goes(u, label) == user' = [user EXCEPT ![u].at = label]
Releases(u) == mutex' = [mutex EXCEPT ![MutexOf(user[u].kind)] = "nobody"]

\* allogsm_send_ussd, allogsm_send_operator_list and
\* allogsm_test_atcommand_safe test the state; a full timer table is
\* reported and the thread waits all the same.
CheckReady(u) ==
    /\ At(u, "check") /\ user[u].kind # "phone" /\ state = "READY"
    /\ Goes(u, "test")
    /\ LibSame /\ UNCHANGED <<sched, hangupSched, check, mutex, answer, asked, told, late, met>>
\* gsm_schedule_event without the span's lock: a slot is found free, and
\* written later.  Another thread may have found the same slot; the one that
\* writes last keeps it.
CheckLater(u) ==
    /\ At(u, "check") /\ user[u].kind # "phone" /\ state # "READY"
    /\ IF Room = {} THEN Goes(u, "starts")
       ELSE user' = [user EXCEPT ![u].at = "slot", ![u].slot = Slot]
    /\ LibSame /\ UNCHANGED <<sched, hangupSched, check, mutex, answer, asked, told, late, met>>
WritesSlot(u) ==
    /\ At(u, "slot")
    /\ \/ sched' = [sched EXCEPT ![user[u].slot] =
                        [kind |-> user[u].kind, id |-> user[u].id, tries |-> 1]]
       \/ sched[user[u].slot].kind # "none" /\ UNCHANGED sched
    /\ Goes(u, "starts")
    /\ LibSame /\ UNCHANGED <<hangupSched, check, mutex, answer, asked, told, late, met>>

\* module_check_phone_stat: the flag of the check is set even when the span
\* is in use and the request fails.
\* mutant: the return for a span in use leaves phone_lock taken.
CheckPhoneKeepsLock(u) ==
    /\ At(u, "check") /\ user[u].kind = "phone"
    /\ \E flag \in BOOLEAN :
          check' = [auto |-> flag, over |-> IF state = "READY" THEN FALSE ELSE check.over]
    /\ IF state = "READY" THEN Goes(u, "switch") ELSE user' = [user EXCEPT ![u] = Idle]
    /\ UNCHANGED mutex
    /\ LibSame /\ UNCHANGED <<sched, hangupSched, answer, asked, told, late, met>>
CheckPhone(u) ==
    /\ At(u, "check") /\ user[u].kind = "phone"
    /\ \E flag \in BOOLEAN :
          check' = [auto |-> flag, over |-> IF state = "READY" THEN FALSE ELSE check.over]
    /\ IF state = "READY" THEN Goes(u, "switch") /\ UNCHANGED mutex
       ELSE user' = [user EXCEPT ![u] = Idle] /\ Releases(u)
    /\ LibSame /\ UNCHANGED <<sched, hangupSched, answer, asked, told, late, met>>

\* module_send_ussd and its like test the state again, then switch it.
TestAgain(u) ==
    /\ At(u, "test")
    /\ Goes(u, IF state = "READY" THEN "switch" ELSE "starts")
    /\ LibSame /\ UNCHANGED <<sched, hangupSched, check, mutex, answer, asked, told, late, met>>
Switches(u) ==
    /\ At(u, "switch")
    /\ SwitchState(user[u].kind, user[u].id)
    /\ Goes(u, "starts")
    /\ UNCHANGED <<sched, hangupSched, check, mutex, answer, asked, told, late, met>>

\* ast_cond_timedwait: the mutex given to it is free while the thread waits,
\* and the thread has it again before the wait returns, by the signal or by
\* the time.  The phone check gives it check_mutex and keeps phone_lock.
StartsWait(u) ==
    /\ At(u, "starts")
    /\ Goes(u, "wait")
    /\ IF user[u].kind = "phone" THEN UNCHANGED mutex ELSE Releases(u)
    /\ LibSame /\ UNCHANGED <<sched, hangupSched, check, answer, asked, told, late, met>>
TimesOut(u) ==
    /\ At(u, "wait")
    /\ Goes(u, "expired")
    /\ late' = late \cup {MutexOf(user[u].kind)}
    /\ LibSame /\ UNCHANGED <<sched, hangupSched, check, mutex, answer, asked, told, met>>
LocksAgain(u) ==
    /\ At(u, "woken") \/ At(u, "expired")
    /\ mutex[MutexOf(user[u].kind)] = IF user[u].kind = "phone" THEN u ELSE "nobody"
    /\ mutex' = [mutex EXCEPT ![MutexOf(user[u].kind)] = u]
    /\ Goes(u, IF At(u, "woken") THEN "shows" ELSE "fails")
    /\ LibSame /\ UNCHANGED <<sched, hangupSched, check, answer, asked, told, late, met>>
\* The answer or the timeout is shown; "send at safe" has one more step,
\* after its mutex is free.
Returns(u) ==
    /\ At(u, "shows") \/ At(u, "fails")
    /\ user' = [user EXCEPT ![u] = IF @.kind = "safe" THEN [@ EXCEPT !.at = "ready"] ELSE Idle]
    /\ Releases(u)
    /\ LibSame /\ UNCHANGED <<sched, hangupSched, check, answer, asked, told, late, met>>

\* mutant: the state is left as it is.
SetStateReadyNever(u) ==
    /\ At(u, "ready")
    /\ user' = [user EXCEPT ![u] = Idle]
    /\ LibSame /\ UNCHANGED <<sched, hangupSched, check, mutex, answer, asked, told, late, met>>
\* allogsm_set_state_ready, whoever the state belongs to by now.
SetStateReady(u) ==
    /\ At(u, "ready")
    /\ user' = [user EXCEPT ![u] = Idle]
    /\ IF state = "SAFE" THEN state' = "READY" /\ asker' = 0 ELSE UNCHANGED <<state, asker>>
    /\ UNCHANGED <<ours, sent, sched, hangupSched, check, mutex, answer, asked, told, late, met>>

\* "allogsm send at" writes to the module whatever the state is, and so
\* replaces what the library believes it sent last; the hangup looks at that.
RawAt ==
    /\ state = "HANGUP" /\ ours' = FALSE
    /\ UNCHANGED <<state, asker, sched, hangupSched, check, user, mutex, answer, asked, sent,
                   told, late, met>>

Steps(u) == \/ CheckReady(u) \/ CheckLater(u) \/ WritesSlot(u) \/ CheckPhone(u)
            \/ TestAgain(u) \/ Switches(u) \/ StartsWait(u) \/ TimesOut(u)
            \/ LocksAgain(u) \/ Returns(u) \/ SetStateReady(u)
------------------------------------------------------------------------------
(* The d-channel thread: a line of the module, in a request's state.       *)
Becomes(s) == state' = s /\ asker' = 0 /\ ours' = TRUE
\* The event of the library, stored and signalled by the driver: one of the
\* threads that wait is woken, and a signal no thread waits for is lost.
Waiters(m) == {u \in Users : user[u].at = "wait" /\ MutexOf(user[u].kind) = m}
Signals(m) ==
    \/ Waiters(m) = {} /\ UNCHANGED user
    \/ \E u \in Waiters(m) : Goes(u, "woken")
Event(m) ==
    /\ answer' = [answer EXCEPT ![m] = asker]
    /\ told' = told \cup {asker}
    /\ Signals(m)
Silent == UNCHANGED <<answer, told, user>>
Reads == UNCHANGED <<check, mutex, asked, sent, late, met>>

UssdLine ==
    /\ state = "USSD"
    /\ Event("ussd")
    /\ Becomes("READY")
    /\ Reads /\ UNCHANGED <<sched, hangupSched>>
\* Any line that is neither the list nor an error ends the query unheard.
OperatorLine ==
    /\ state = "OPERATOR"
    /\ Event("operator") \/ Silent
    /\ Becomes("READY")
    /\ Reads /\ UNCHANGED <<sched, hangupSched>>
\* +CCFC and +CME ERROR: 30 end the command, and any line does when the
\* command deletes a message.
SafeLine ==
    /\ state = "SAFE"
    /\ Event("safe")
    /\ Becomes("READY")
    /\ Reads /\ UNCHANGED <<sched, hangupSched>>

\* The call of a phone check ends in a hangup: for a RING the timer is set by
\* auto_hangup_flag, the hangup is sent all the same.
HangsUp(timed) ==
    /\ Event("phone")
    /\ IF timed /\ Room # {}
       THEN sched' = Scheduled("hangup", asker, 0) /\ hangupSched' = Slot
       ELSE UNCHANGED sched /\ hangupSched' = IF timed THEN -1 ELSE hangupSched
    /\ Becomes("HANGUP")
PhoneLine ==
    /\ state = "PHONE"
    /\ \/ ~check.over /\ HangsUp(check.auto)
       \/ HangsUp(TRUE)
    /\ Reads
PhoneExpires ==
    /\ state = "PHONE" /\ ~check.over
    /\ check' = [check EXCEPT !.over = TRUE]
    /\ LibSame /\ UNCHANGED <<sched, hangupSched, user, mutex, answer, asked, told, late, met>>

\* The module accepts the hangup; the timer the slot number names is deleted.
HungUp ==
    /\ state = "HANGUP" /\ ours
    /\ sched' = IF hangupSched \in Slots THEN [sched EXCEPT ![hangupSched] = Free] ELSE sched
    /\ Becomes("READY")
    /\ Reads /\ Silent /\ UNCHANGED hangupSched

\* NO CARRIER and the other ends of a call leave every state unheard.
CallEnds ==
    /\ state \in {"USSD", "OPERATOR", "SAFE", "HANGUP"}
    /\ Becomes("READY")
    /\ Reads /\ Silent /\ UNCHANGED <<sched, hangupSched>>
\* The rest of the span: calls, texts, and "allogsm reload span".
Busy ==
    /\ state = "READY"
    /\ Becomes("OTHER")
    /\ Reads /\ Silent /\ UNCHANGED <<sched, hangupSched>>
Reload ==
    /\ state \notin {"READY", "OTHER"}
    /\ Becomes("OTHER")
    /\ Reads /\ Silent /\ UNCHANGED <<sched, hangupSched>>
Ready ==
    /\ state = "OTHER"
    /\ Becomes("READY")
    /\ Reads /\ Silent /\ UNCHANGED <<sched, hangupSched>>

(* The timers.  A slot is free before its function runs.                   *)
Rest(s) == [sched EXCEPT ![s] = Free]
Again(s) ==
    LET free == {t \in Slots : Rest(s)[t].kind = "none"}
        slot == CHOOSE t \in free : \A other \in free : t <= other
    IN  [Rest(s) EXCEPT ![slot] = [sched[s] EXCEPT !.tries = IF sched[s].kind \in {"safe", "at"}
                                                            THEN @ + 1 ELSE @]]
Requested(s) == sched[s].kind \in AllKinds
\* mutant: a safe AT command is put off without end.
ResendLaterForever(s) ==
    /\ Requested(s) /\ state # "READY"
    /\ sched' = Again(s)
    /\ LibSame
ResendLater(s) ==
    /\ Requested(s) /\ state # "READY"
    /\ sched' = IF sched[s].kind \in {"safe", "at"} /\ sched[s].tries >= SafeTries
                THEN Rest(s) ELSE Again(s)
    /\ LibSame
\* mutant: the timer is armed again after it has sent.
ResendTwice(s) ==
    /\ Requested(s) /\ state = "READY"
    /\ sched' = sched
    /\ SwitchState(sched[s].kind, sched[s].id)
Resend(s) ==
    /\ Requested(s) /\ state = "READY"
    /\ sched' = Rest(s)
    /\ SwitchState(sched[s].kind, sched[s].id)
HangupTimeout(s) ==
    /\ sched[s].kind = "hangup"
    /\ sched' = IF state = "HANGUP" THEN Again(s) ELSE Rest(s)
    /\ ours' = TRUE
    /\ UNCHANGED <<state, asker, sent>>
Fires(s) ==
    /\ ResendLater(s) \/ Resend(s) \/ HangupTimeout(s)
    /\ hangupSched' = IF sched[s].kind = "hangup" /\ state = "HANGUP"
                      THEN CHOOSE t \in Slots : sched'[t] = sched[s] ELSE hangupSched
    /\ Silent /\ UNCHANGED <<check, mutex, asked, late, met>>

Dchannel ==
    \/ UssdLine \/ OperatorLine \/ SafeLine \/ PhoneLine \/ PhoneExpires \/ HungUp
    \/ CallEnds \/ Busy \/ Reload \/ Ready \/ \E s \in Slots : Fires(s)

Next == (\E u \in Users : Steps(u) \/ \E k \in Kinds : Ask(u, k)) \/ RawAt \/ Dchannel
Spec == Init /\ [][Next]_vars

\* Asterisk schedules every console thread, and a timed wait ends.  (The
\* mutex a thread waits for is taken at most MaxAsks times by others.)
LiveSpec == Spec /\ \A u \in Users : WF_vars(Steps(u))
------------------------------------------------------------------------------
\* Every variable has its type; the tries of a safe AT command stay within
\* its five, and only requests that were given to the modem are answered.
TypeOK ==
    /\ state \in {"READY", "OTHER", "USSD", "OPERATOR", "SAFE", "PHONE", "HANGUP"}
    /\ \A s \in Slots : sched[s].tries \in 0..SafeTries /\ sched[s].id \in 0..asked
    /\ asker \in sent \cup {0} /\ told \subseteq sent /\ sent \subseteq 1..asked
    /\ hangupSched \in Slots \cup {0, -1}

\* A mutex is held exactly by the thread that is in the code between the
\* trylock and the unlock and does not wait (phone_lock: waits or not), on
\* every way out of the handlers: answered, timed out, span in use.
Holds(u, m) ==
    /\ UnderWay(u) /\ MutexOf(user[u].kind) = m
    /\ user[u].at \in {"wait", "woken", "expired"} => m = "phone"
NoLockLeft == \A u \in Users : \A m \in Mutexes : mutex[m] = u <=> Holds(u, m)

\* The answer a thread is woken for and shows is the answer to its own
\* request, as long as no request of its mutex has timed out and no two of
\* them were under way at once; phone_lock sees to the second.  (Without the
\* two it need not be: README, section 3.)
FreshAnswer ==
    \A u \in Users : LET m == MutexOf(user[u].kind) IN
       /\ user[u].at \in {"woken", "shows"}
       /\ m \notin late /\ (m \notin met \/ m = "phone")
       => answer[m] = user[u].id

\* A request is given to the modem at most once and answered at most once,
\* though it may come from its thread or from a timer that outlives it.
AskedOnce ==
    [][/\ asker' \notin {0, asker} => asker' \notin sent
       /\ \A m \in Mutexes : answer'[m] # answer[m] => answer'[m] \notin told]_vars

\* A safe AT command the module never answers does not keep the span: the
\* command that waits for it takes the span back to READY.
SafeEnds == \A u \in Users :
    (user[u].at = "wait" /\ user[u].kind = "safe" /\ state = "SAFE") ~> state # "SAFE"
=============================================================================
