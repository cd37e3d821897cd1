--------------------------- MODULE RequestsProofs ---------------------------
(***************************************************************************)
(* What holds of the console requests for every number of console threads, *)
(* of requests and of timers: the types, the mutexes, that a request is    *)
(* sent and answered at most once, and that an answer is the thread's own  *)
(* as long as no request of its mutex has timed out or met another.        *)
(***************************************************************************)
EXTENDS Requests, WellFoundedInduction, TLAPS

States == {"READY", "OTHER", "USSD", "OPERATOR", "SAFE", "PHONE", "HANGUP"}
Asking == {"USSD", "OPERATOR", "SAFE", "PHONE"}
Timers == [kind : AllKinds \cup {"none", "hangup"}, id : Nat, tries : 0..SafeTries]
Threads == [at : {"idle", "check", "test", "slot", "switch", "starts", "wait", "woken",
                  "expired", "shows", "fails", "ready"},
            kind : AllKinds \cup {"none"}, id : Nat, slot : Slots \cup {0}]

\* Every variable and its type; a thread has a kind unless it is idle.
Types ==
    /\ state \in States /\ asker \in Nat
    /\ sched \in [Slots -> Timers] /\ hangupSched \in Slots \cup {0, -1}
    /\ check \in [auto : BOOLEAN, over : BOOLEAN]
    /\ user \in [Users -> Threads]
    /\ \A u \in Users : /\ user[u].kind = "none" => user[u].at = "idle"
                        /\ user[u].at = "slot" => user[u].slot \in Slots
    /\ mutex \in [Mutexes -> Users \cup {"nobody"}]
    /\ answer \in [Mutexes -> Nat]
    /\ asked \in Nat /\ sent \subseteq 1..asked /\ told \subseteq sent
    /\ late \subseteq Mutexes /\ met \subseteq Mutexes

\* Two threads are under way with one mutex only if they have met.
Apart(m) == m \notin met \/ m = "phone"
Alone == \A m \in Mutexes : Apart(m) => \A u, v \in Users :
    (/\ UnderWay(u) /\ MutexOf(user[u].kind) = m
     /\ UnderWay(v) /\ MutexOf(user[v].kind) = m) => u = v

\* A request has a number of its own, and as long as it has not been given
\* to the modem it is in one place: with its thread or in one timer.
Ahead(u) == user[u].at \in {"check", "test", "slot", "switch"}
Numbered ==
    /\ \A u \in Users : user[u].at # "idle" => user[u].id \in 1..asked
    /\ \A u, v \in Users :
          user[u].at # "idle" /\ user[v].at # "idle" /\ user[u].id = user[v].id => u = v
    /\ \A s \in Slots : sched[s].id \in 0..asked
Unsent ==
    /\ \A u \in Users : Ahead(u) => user[u].id \notin sent
    /\ \A s \in Slots : Requested(s) => sched[s].id \in (1..asked) \ sent
    /\ \A s, t \in Slots : Requested(s) /\ Requested(t) /\ sched[s].id = sched[t].id => s = t
    /\ \A u \in Users : \A s \in Slots : Ahead(u) /\ Requested(s) => user[u].id # sched[s].id

\* The state of a request belongs to one that was sent and not answered yet.
Askers ==
    /\ state \in Asking => asker \in sent \ told
    /\ state \notin Asking => asker = 0

\* A request of m that may still be answered is one a thread waits for or is
\* about to, unless one of m has timed out or they have met.
WaitedFor(m, id) == \E u \in Users :
    user[u].at \in {"starts", "wait"} /\ MutexOf(user[u].kind) = m /\ user[u].id = id
Answered(u) == user[u].at \in {"woken", "shows"}
Fresh == \A m \in Mutexes \ late : Apart(m) =>
    /\ state = StateOf(m) => WaitedFor(m, asker)
    /\ \A s \in Slots : Requested(s) /\ MutexOf(sched[s].kind) = m => WaitedFor(m, sched[s].id)
    /\ \A u \in Users : Answered(u) /\ MutexOf(user[u].kind) = m => answer[m] = user[u].id

IInv == Types /\ NoLockLeft /\ Alone /\ Numbered /\ Unsent /\ Askers /\ Fresh
------------------------------------------------------------------------------
(* The timer table.                                                        *)

\* A non-empty set of slots has a lowest one.
LEMMA Lowest ==
    ASSUME NEW S \in SUBSET Slots, S # {}
    PROVE  \E s \in S : \A t \in S : s <= t
<1>1. S \subseteq Nat
    BY SMT DEF Slots
<1>2. PICK s \in S : \A t \in S : <<t, s>> \notin OpToRel(<, Nat)
    BY <1>1, WFMin, NatLessThanWellFounded, Zenon
<1>3. \A t \in S : ~(t < s)
    BY <1>1, <1>2, Zenon DEF OpToRel
<1> QED BY <1>1, <1>3, SMT

\* The slot a new timer gets is a free one.
LEMMA SlotFree ==
    ASSUME Room # {}
    PROVE  Slot \in Slots /\ sched[Slot].kind = "none"
<1>1. Room \subseteq Slots
    BY DEF Room
<1>2. Slot \in Room
    BY <1>1, Lowest, Zenon DEF Slot
<1> QED BY <1>2 DEF Room

\* A timer that is set again moves to a slot that is free when it runs, the
\* one it had or another.
LEMMA AgainMoves ==
    ASSUME Types, NEW s \in Slots, sched[s].kind # "none"
    PROVE  \E t \in Slots, n \in Nat :
               /\ t = s \/ sched[t].kind = "none"
               /\ sched[s].kind \notin {"safe", "at"} => n = sched[s].tries
               /\ sched[s].kind \in {"safe", "at"} => n = sched[s].tries + 1
               /\ Again(s) = [sched EXCEPT ![s] = Free,
                                           ![t] = [kind |-> sched[s].kind, id |-> sched[s].id,
                                                   tries |-> n]]
<1> DEFINE free == {t \in Slots : Rest(s)[t].kind = "none"}
           slot == CHOOSE t \in free : \A other \in free : t <= other
           n == IF sched[s].kind \in {"safe", "at"} THEN sched[s].tries + 1 ELSE sched[s].tries
           moved == [sched[s] EXCEPT !.tries = IF sched[s].kind \in {"safe", "at"}
                                               THEN @ + 1 ELSE @]
<1>1. sched \in [Slots -> Timers] /\ sched[s] \in Timers
    BY DEF Types
<1>2. s \in free
    BY <1>1 DEF Rest, Free
<1>3. slot \in free
    <2>1. \E t \in free : \A other \in free : t <= other
        BY <1>2, Lowest
    <2> QED BY <2>1, Zenon
<1>4. slot = s \/ sched[slot].kind = "none"
    BY <1>1, <1>3 DEF Rest
<1>5. n \in Nat
    BY <1>1 DEF Timers
<1>6. moved = [kind |-> sched[s].kind, id |-> sched[s].id, tries |-> n]
    BY <1>1 DEF Timers
<1>7. Again(s) = [sched EXCEPT ![s] = Free, ![slot] = moved]
    BY DEF Again, Rest
<1> HIDE DEF slot, moved
<1> QED BY <1>3, <1>4, <1>5, <1>6, <1>7
------------------------------------------------------------------------------
(* Kinds, mutexes and states.                                              *)

\* A request has one mutex and one state, and the state tells the mutex.
LEMMA KindsMatch ==
    /\ \A k \in AllKinds : /\ MutexOf(k) \in Mutexes
                           /\ StateOf(k) \in Asking /\ StateOf(k) = StateOf(MutexOf(k))
    /\ \A m, n \in Mutexes : StateOf(m) = StateOf(n) => m = n
    /\ \A m \in Mutexes : StateOf(m) \in Asking
    /\ Asking \subseteq States
    BY DEF AllKinds, MutexOf, Mutexes, StateOf, Asking, States

\* The state READY or OTHER or HANGUP is no request's.
LEMMA NotAsking ==
    "READY" \notin Asking /\ "OTHER" \notin Asking /\ "HANGUP" \notin Asking
    BY DEF Asking
------------------------------------------------------------------------------
(* The types.                                                              *)

LEMMA TypesInit == Init => Types
    BY RequestsAssumption
    DEF Init, Types, States, Timers, Threads, Slots, Free, Idle, Mutexes, AllKinds

\* A step of a console thread keeps the types.
LEMMA TypesAsk ==
    ASSUME Types, NEW u \in Users, NEW k \in Kinds, Ask(u, k)
    PROVE  Types'
<1>1. k \in AllKinds /\ k # "none" /\ MutexOf(k) \in Mutexes
    BY RequestsAssumption, KindsMatch DEF AllKinds
<1>2. met' \subseteq Mutexes
    BY <1>1 DEF Types, Ask, Asks
<1>3. user' \in [Users -> Threads]
      /\ \A v \in Users : /\ user'[v].kind = "none" => user'[v].at = "idle"
                          /\ user'[v].at = "slot" => user'[v].slot \in Slots
    BY <1>1 DEF Types, Ask, Asks, Threads
<1>4. mutex' \in [Mutexes -> Users \cup {"nobody"}] /\ asked' = asked + 1
      /\ UNCHANGED <<state, asker, sched, hangupSched, check, answer, sent, told, late>>
    BY <1>1 DEF Types, Ask, Asks, LibSame
<1> QED BY <1>2, <1>3, <1>4 DEF Types

LEMMA TypesSlot ==
    ASSUME Types, NEW u \in Users, CheckLater(u) \/ WritesSlot(u)
    PROVE  Types'
<1>1. sched' \in [Slots -> Timers]
    <2>1. CASE CheckLater(u)
        BY <2>1 DEF CheckLater, Types
    <2>2. CASE WritesSlot(u)
        <3>1. [kind |-> user[u].kind, id |-> user[u].id, tries |-> 1] \in Timers
            BY RequestsAssumption DEF Timers, Types, Threads
        <3> QED BY <2>2, <3>1 DEF WritesSlot, Types
    <2> QED BY <2>1, <2>2
<1>2. user' \in [Users -> Threads]
      /\ \A v \in Users : /\ user'[v].kind = "none" => user'[v].at = "idle"
                          /\ user'[v].at = "slot" => user'[v].slot \in Slots
    <2>1. CASE CheckLater(u) /\ Room # {}
        BY <2>1, SlotFree DEF CheckLater, At, Types, Threads
    <2>2. CASE Goes(u, "starts") /\ user[u].at # "idle"
        BY <2>2 DEF Goes, Types, Threads
    <2> QED BY <2>1, <2>2 DEF CheckLater, WritesSlot, At
<1> QED BY <1>1, <1>2 DEF Types, CheckLater, WritesSlot, LibSame

LEMMA TypesThread ==
    ASSUME Types, Numbered, NEW u \in Users,
           CheckReady(u) \/ CheckPhone(u) \/ TestAgain(u) \/ Switches(u) \/ StartsWait(u)
             \/ TimesOut(u) \/ LocksAgain(u) \/ Returns(u) \/ SetStateReady(u)
    PROVE  Types'
<1>1. user[u].at # "idle"
      => /\ user[u].kind \in AllKinds /\ MutexOf(user[u].kind) \in Mutexes
         /\ StateOf(user[u].kind) \in States
    BY KindsMatch DEF Types, Threads, At
<1>2. CASE CheckReady(u)
    BY <1>2 DEF Types, CheckReady, Goes, At, Threads, LibSame
<1>3. CASE CheckPhone(u)
    <2>1. PICK flag \in BOOLEAN :
              check' = [auto |-> flag, over |-> IF state = "READY" THEN FALSE ELSE check.over]
        BY <1>3 DEF CheckPhone
    <2>2. check' \in [auto : BOOLEAN, over : BOOLEAN]
        BY <2>1 DEF Types
    <2>3. CASE state = "READY"
        BY <1>3, <2>2, <2>3 DEF Types, CheckPhone, Goes, At, Threads, LibSame
    <2>4. CASE state # "READY"
        <3>1. user' \in [Users -> Threads] /\ mutex' \in [Mutexes -> Users \cup {"nobody"}]
              /\ \A v \in Users : /\ user'[v].kind = "none" => user'[v].at = "idle"
                                  /\ user'[v].at = "slot" => user'[v].slot \in Slots
            BY <1>1, <1>3, <2>4 DEF Types, CheckPhone, At, Threads, Releases, Idle
        <3> QED BY <1>3, <2>2, <3>1 DEF Types, CheckPhone, LibSame
    <2> QED BY <2>3, <2>4
<1>4. CASE TestAgain(u)
    BY <1>4 DEF Types, TestAgain, Goes, At, Threads, LibSame
<1>5. CASE Switches(u)
    BY <1>1, <1>5 DEF Types, Numbered, Switches, SwitchState, Goes, At, Threads
<1>6. CASE Returns(u)
    BY <1>1, <1>6 DEF Types, Returns, At, Threads, LibSame, Releases, Idle
<1>8. CASE StartsWait(u)
    BY <1>1, <1>8 DEF Types, StartsWait, Goes, At, Threads, LibSame, Releases
<1>9. CASE TimesOut(u)
    BY <1>1, <1>9 DEF Types, TimesOut, Goes, At, Threads, LibSame
<1>10. CASE LocksAgain(u)
    BY <1>1, <1>10 DEF Types, LocksAgain, Goes, At, Threads, LibSame
<1>7. CASE SetStateReady(u)
    BY <1>7 DEF Types, SetStateReady, At, Threads, Idle, States
<1> QED BY <1>2, <1>3, <1>4, <1>5, <1>6, <1>7, <1>8, <1>9, <1>10

\* A thread is woken by a signal, and keeps its request.
LEMMA Woken ==
    ASSUME Types, NEW m \in Mutexes, Signals(m)
    PROVE  /\ user' \in [Users -> Threads]
           /\ \A u \in Users :
                 /\ user'[u].kind = user[u].kind /\ user'[u].id = user[u].id
                 /\ user'[u].slot = user[u].slot
                 /\ \/ user'[u].at = user[u].at
                    \/ user[u].at = "wait" /\ user'[u].at = "woken"
                       /\ MutexOf(user[u].kind) = m
    BY DEF Types, Threads, Signals, Waiters, Goes

LEMMA TypesEvent ==
    ASSUME Types, NEW m \in Mutexes, Event(m), asker \in sent
    PROVE  /\ user' \in [Users -> Threads]
           /\ \A u \in Users : /\ user'[u].kind = "none" => user'[u].at = "idle"
                               /\ user'[u].at = "slot" => user'[u].slot \in Slots
           /\ answer' \in [Mutexes -> Nat]
           /\ told' \subseteq sent
<1>1. user' \in [Users -> Threads]
      /\ \A u \in Users : /\ user'[u].kind = "none" => user'[u].at = "idle"
                          /\ user'[u].at = "slot" => user'[u].slot \in Slots
    BY Woken DEF Event, Types
<1> QED BY <1>1 DEF Event, Types

\* A line of the module keeps the types.
LEMMA TypesLine ==
    ASSUME Types, Askers,
           UssdLine \/ OperatorLine \/ SafeLine \/ PhoneExpires \/ HungUp
             \/ CallEnds \/ Busy \/ Reload \/ Ready
    PROVE  Types'
<1> USE DEF Becomes, Reads
<1>1. state \in Asking => asker \in sent
    BY DEF Askers
<1>2. CASE UssdLine
    <2>1. Event("ussd") /\ "ussd" \in Mutexes /\ asker \in sent
        BY <1>1, <1>2 DEF UssdLine, Mutexes, Asking
    <2> QED BY <1>2, <2>1, TypesEvent DEF Types, UssdLine, States
<1>3. CASE OperatorLine
    <2>1. CASE Event("operator")
        <3>1. "operator" \in Mutexes /\ asker \in sent
            BY <1>1, <1>3 DEF OperatorLine, Mutexes, Asking
        <3> QED BY <1>3, <2>1, <3>1, TypesEvent DEF Types, OperatorLine, States
    <2>2. CASE Silent
        BY <1>3, <2>2 DEF Types, OperatorLine, States, Silent
    <2> QED BY <1>3, <2>1, <2>2 DEF OperatorLine
<1>4. CASE SafeLine
    <2>1. Event("safe") /\ "safe" \in Mutexes /\ asker \in sent
        BY <1>1, <1>4 DEF SafeLine, Mutexes, Asking
    <2> QED BY <1>4, <2>1, TypesEvent DEF Types, SafeLine, States
<1>5. CASE PhoneExpires
    BY <1>5 DEF Types, PhoneExpires, LibSame
<1>6. CASE HungUp
    <2>1. Free \in Timers
        BY RequestsAssumption DEF Free, Timers
    <2>2. sched' \in [Slots -> Timers]
        BY <1>6, <2>1 DEF HungUp, Types
    <2> QED BY <1>6, <2>2 DEF Types, HungUp, States, Silent
<1>7. CASE CallEnds \/ Busy \/ Reload \/ Ready
    <2>1. state' \in States /\ asker' = 0 /\ UNCHANGED <<sched, hangupSched>> /\ Silent
        BY <1>7 DEF CallEnds, Busy, Reload, Ready, States
    <2> QED BY <1>7, <2>1 DEF Types, CallEnds, Busy, Reload, Ready, Silent
<1> QED BY <1>2, <1>3, <1>4, <1>5, <1>6, <1>7

LEMMA TypesPhone ==
    ASSUME Types, Askers, Numbered, PhoneLine
    PROVE  Types'
<1>1. PICK timed \in BOOLEAN : HangsUp(timed)
    BY DEF PhoneLine, Types
<1>2. "phone" \in Mutexes /\ asker \in sent /\ Event("phone")
    BY <1>1 DEF PhoneLine, HangsUp, Askers, Asking, Mutexes
<1>3. sched' \in [Slots -> Timers] /\ hangupSched' \in Slots \cup {0, -1}
    <2>1. CASE timed /\ Room # {}
        <3>1. [kind |-> "hangup", id |-> asker, tries |-> 0] \in Timers
            BY RequestsAssumption DEF Types, Timers
        <3> QED BY <1>1, <2>1, <3>1, SlotFree DEF HangsUp, Scheduled, Types
    <2>2. CASE ~(timed /\ Room # {})
        BY <1>1, <2>2 DEF HangsUp, Types
    <2> QED BY <2>1, <2>2
<1> QED BY <1>1, <1>2, <1>3, TypesEvent DEF PhoneLine, HangsUp, Becomes, Reads, Types, States
------------------------------------------------------------------------------
(* What the steps do to the timers.                                        *)

\* Every timer of a request was one before, of the same request.
Carried ==
    /\ \A t \in Slots : sched'[t].kind \in AllKinds =>
          \E r \in Slots : sched[r].kind = sched'[t].kind /\ sched[r].id = sched'[t].id
    /\ \A t, r \in Slots :
          (/\ sched'[t].kind \in AllKinds /\ sched'[r].kind \in AllKinds
           /\ sched'[t].id = sched'[r].id) => t = r

\* Timers that are deleted or set for a hangup leave the others as they are.
LEMMA FewerCarried ==
    ASSUME Types, Unsent,
           \A t \in Slots : sched'[t] = sched[t] \/ sched'[t].kind \notin AllKinds
    PROVE  Carried
    BY DEF Carried, Unsent, Requested

\* A timer that is set again is carried too.
LEMMA AgainCarried ==
    ASSUME Types, Unsent, NEW s \in Slots, sched[s].kind # "none", sched' = Again(s)
    PROVE  /\ Carried
           /\ (sched[s].kind \in {"safe", "at"} => sched[s].tries < SafeTries)
              => sched' \in [Slots -> Timers]
           /\ sched[s].kind = "hangup" => \E t \in Slots : sched'[t] = sched[s]
           /\ Numbered => \A t \in Slots : sched'[t].id \in 0..asked
<1>1. PICK t \in Slots, n \in Nat :
          /\ t = s \/ sched[t].kind = "none"
          /\ sched[s].kind \notin {"safe", "at"} => n = sched[s].tries
          /\ sched[s].kind \in {"safe", "at"} => n = sched[s].tries + 1
          /\ sched' = [sched EXCEPT ![s] = Free,
                                    ![t] = [kind |-> sched[s].kind, id |-> sched[s].id,
                                            tries |-> n]]
    BY AgainMoves
<1>2. /\ sched'[t] = [kind |-> sched[s].kind, id |-> sched[s].id, tries |-> n]
      /\ t # s => sched'[s] = Free
      /\ \A r \in Slots \ {s, t} : sched'[r] = sched[r]
      /\ DOMAIN sched' = Slots
    BY <1>1 DEF Types
<1>3. Free \in Timers /\ Free.kind \notin AllKinds /\ Free.id = 0
    BY RequestsAssumption DEF Free, Timers, AllKinds
<1>4. Carried
    <2>1. ASSUME NEW r \in Slots, sched'[r].kind \in AllKinds
          PROVE  \/ r \notin {s, t} /\ sched'[r] = sched[r]
                 \/ r = t /\ sched'[r].kind = sched[s].kind /\ sched'[r].id = sched[s].id
        <3>1. CASE r = t
            BY <1>2, <3>1
        <3>2. CASE r # t /\ r = s
            BY <1>2, <1>3, <2>1, <3>2
        <3>3. CASE r \notin {s, t}
            BY <1>2, <3>3
        <3> QED BY <3>1, <3>2, <3>3
    <2> QED BY <2>1 DEF Carried, Unsent, Requested
<1>5. sched[s] = [kind |-> sched[s].kind, id |-> sched[s].id, tries |-> sched[s].tries]
      /\ sched[s] \in Timers
    BY DEF Types, Timers
<1>6. n \in 0..SafeTries => sched' \in [Slots -> Timers]
    BY <1>1, <1>3, <1>5 DEF Types, Timers
<1>7. sched[s].tries \in 0..SafeTries /\ SafeTries \in Nat
    BY <1>5, RequestsAssumption DEF Timers
<1>8. Numbered => \A r \in Slots : sched'[r].id \in 0..asked
    BY <1>2, <1>3 DEF Numbered, Types
<1>9. sched[s].kind = "hangup" => sched'[t] = sched[s]
    BY <1>1, <1>2, <1>5
<1>10. (sched[s].kind \in {"safe", "at"} => sched[s].tries < SafeTries)
       => sched' \in [Slots -> Timers]
    <2>1. CASE sched[s].kind \in {"safe", "at"}
        BY <1>1, <1>6, <1>7, <2>1
    <2>2. CASE sched[s].kind \notin {"safe", "at"}
        BY <1>1, <1>6, <1>7, <2>2
    <2> QED BY <2>1, <2>2
<1>11. sched[s].kind = "hangup" => \E r \in Slots : sched'[r] = sched[s]
    BY <1>9
<1> QED BY <1>4, <1>8, <1>10, <1>11

\* A timer of a request, when it has run, carries the others; the request
\* it gave to the modem is in no timer any more.
LEMMA FiresCarried ==
    ASSUME Types, Unsent, Numbered, NEW s \in Slots, Fires(s)
    PROVE  /\ Carried
           /\ sched' \in [Slots -> Timers] /\ hangupSched' \in Slots \cup {0, -1}
           /\ \A t \in Slots : sched'[t].id \in 0..asked
           /\ Resend(s) => \A t \in Slots : sched'[t].kind \in AllKinds
                                            => sched'[t].id # sched[s].id
<1> USE DEF Requested
<1>1. Free \in Timers /\ Free.kind \notin AllKinds /\ Free.id = 0
    BY RequestsAssumption DEF Free, Timers, AllKinds
<1>2. "hangup" \notin AllKinds /\ "none" \notin AllKinds
    BY DEF AllKinds
<1>3. ASSUME sched' = Rest(s)
      PROVE  /\ Carried
             /\ sched' \in [Slots -> Timers]
             /\ \A t \in Slots : sched'[t].id \in 0..asked
             /\ \A t \in Slots : sched'[t].kind \in AllKinds => t # s /\ sched'[t] = sched[t]
    <2>1. \A t \in Slots : sched'[t] = IF t = s THEN Free ELSE sched[t]
        BY <1>3 DEF Rest, Types
    <2>2. Carried
        BY <1>1, <2>1, FewerCarried
    <2>3. sched' \in [Slots -> Timers]
        BY <1>1, <1>3 DEF Rest, Types
    <2>4. \A t \in Slots : sched'[t].id \in 0..asked
        BY <1>1, <2>1 DEF Numbered, Types
    <2> QED BY <1>1, <2>1, <2>2, <2>3, <2>4
<1>4. CASE ResendLater(s)
    <2>1. ~Resend(s) /\ hangupSched' = hangupSched
        BY <1>2, <1>4 DEF ResendLater, Resend, Fires
    <2>2. CASE sched' = Rest(s)
        BY <1>3, <2>1, <2>2 DEF Types
    <2>3. CASE /\ sched' = Again(s)
               /\ ~(sched[s].kind \in {"safe", "at"} /\ sched[s].tries >= SafeTries)
        <3>1. sched[s].tries \in Nat /\ SafeTries \in Nat /\ sched[s].kind # "none"
            BY <1>2, <1>4, RequestsAssumption DEF Types, Timers, ResendLater
        <3>2. sched' \in [Slots -> Timers]
            BY <2>3, <3>1, AgainCarried
        <3> QED BY <2>1, <2>3, <3>1, <3>2, AgainCarried DEF Types
    <2> QED BY <1>4, <2>2, <2>3 DEF ResendLater
<1>5. CASE Resend(s)
    <2>1. sched' = Rest(s) /\ hangupSched' = hangupSched
        BY <1>2, <1>5 DEF Resend, Fires
    <2>2. \A t \in Slots : sched'[t].kind \in AllKinds => sched'[t].id # sched[s].id
        BY <1>3, <1>5, <2>1 DEF Resend, Unsent
    <2> QED BY <1>3, <2>1, <2>2 DEF Types
<1>6. CASE HangupTimeout(s)
    <2>1. ~Resend(s) /\ sched[s].kind = "hangup"
        BY <1>2, <1>6 DEF HangupTimeout, Resend
    <2>2. CASE state = "HANGUP"
        <3>1. sched' = Again(s) /\ hangupSched' = CHOOSE t \in Slots : sched'[t] = sched[s]
            BY <1>6, <2>1, <2>2 DEF HangupTimeout, Fires
        <3>2. \E t \in Slots : sched'[t] = sched[s]
            BY <2>1, <3>1, AgainCarried
        <3>3. hangupSched' \in Slots
            BY <3>1, <3>2, Zenon
        <3> QED BY <2>1, <3>1, <3>3, AgainCarried
    <2>3. CASE state # "HANGUP"
        <3>1. sched' = Rest(s) /\ hangupSched' = hangupSched
            BY <1>6, <2>3 DEF HangupTimeout, Fires
        <3> QED BY <1>3, <2>1, <3>1 DEF Types
    <2> QED BY <2>2, <2>3
<1> QED BY <1>4, <1>5, <1>6 DEF Fires

LEMMA TypesFires ==
    ASSUME Types, Unsent, Numbered, NEW s \in Slots, Fires(s)
    PROVE  Types'
<1>1. sched' \in [Slots -> Timers] /\ hangupSched' \in Slots \cup {0, -1}
    BY FiresCarried
<1>2. state' \in States /\ asker' \in Nat /\ sent' \subseteq 1..asked /\ told \subseteq sent'
    <2>1. CASE ResendLater(s) \/ HangupTimeout(s)
        BY <2>1 DEF ResendLater, HangupTimeout, LibSame, Types
    <2>2. CASE Resend(s)
        <3>1. sched[s].kind \in AllKinds /\ sched[s].id \in 1..asked
            BY <2>2 DEF Resend, Requested, Unsent
        <3>2. StateOf(sched[s].kind) \in States
            BY <3>1, KindsMatch
        <3>3. state' = StateOf(sched[s].kind) /\ asker' = sched[s].id
              /\ sent' = sent \cup {sched[s].id}
            BY <2>2 DEF Resend, SwitchState
        <3>4. asked \in Nat /\ sent \subseteq 1..asked /\ told \subseteq sent
            BY DEF Types
        <3>5. sched[s].id \in Nat
            BY <3>1, <3>4
        <3>6. sent' \subseteq 1..asked /\ told \subseteq sent'
            BY <3>1, <3>3, <3>4
        <3> QED BY <3>2, <3>3, <3>5, <3>6
    <2> QED BY <2>1, <2>2 DEF Fires
<1> QED BY <1>1, <1>2 DEF Fires, Silent, Types
------------------------------------------------------------------------------
(* What the steps do to the threads and their mutexes.                     *)

\* Steps that are not a console thread's.
Others == RawAt \/ Dchannel

\* The d-channel thread and the raw command wake a thread, nothing else: they
\* leave the mutexes, the requests and what has timed out or met.
LEMMA OthersWake ==
    ASSUME Types, Others
    PROVE  /\ UNCHANGED <<mutex, asked, late, met>>
           /\ \A u \in Users : /\ user'[u].kind = user[u].kind /\ user'[u].id = user[u].id
                               /\ \/ user'[u].at = user[u].at
                                  \/ user[u].at = "wait" /\ user'[u].at = "woken"
<1>1. CASE RawAt \/ UssdLine \/ OperatorLine \/ SafeLine \/ PhoneLine
    <2>1. Silent \/ user' = user \/ \E m \in Mutexes : Signals(m)
        BY <1>1 DEF RawAt, UssdLine, OperatorLine, SafeLine, PhoneLine, HangsUp, Event, Mutexes
    <2>2. UNCHANGED <<mutex, asked, late, met>>
        BY <1>1 DEF RawAt, UssdLine, OperatorLine, SafeLine, PhoneLine, Reads
    <2> QED BY <2>1, <2>2, Woken DEF Silent
<1>2. CASE PhoneExpires \/ HungUp \/ CallEnds \/ Busy \/ Reload \/ Ready
    BY <1>2 DEF PhoneExpires, HungUp, CallEnds, Busy, Reload, Ready, Reads, Silent
<1>3. CASE \E s \in Slots : Fires(s)
    BY <1>3 DEF Fires, Silent
<1> QED BY <1>1, <1>2, <1>3 DEF Others, Dchannel

\* A step of one thread: the places it can come from and go to, and what it
\* does to the mutex of its request.
Advances(u) == /\ Ahead(u) /\ user'[u].at \in {"test", "slot", "switch", "starts"}
               /\ UNCHANGED <<mutex, late>>
Waits(u) == /\ user[u].at = "starts" /\ user'[u].at = "wait" /\ late' = late
            /\ IF user[u].kind = "phone" THEN UNCHANGED mutex ELSE Releases(u)
Expires(u) == /\ user[u].at = "wait" /\ user'[u].at = "expired" /\ mutex' = mutex
              /\ late' = late \cup {MutexOf(user[u].kind)}
Resumes(u) == /\ user[u].at \in {"woken", "expired"}
              /\ user'[u].at = IF user[u].at = "woken" THEN "shows" ELSE "fails"
              /\ mutex[MutexOf(user[u].kind)] = IF user[u].kind = "phone" THEN u ELSE "nobody"
              /\ mutex' = [mutex EXCEPT ![MutexOf(user[u].kind)] = u] /\ late' = late
Leaves(u) == /\ user[u].at \in {"check", "shows", "fails"} /\ user'[u].at \in {"idle", "ready"}
             /\ Releases(u) /\ late' = late
Ends(u) == user[u].at = "ready" /\ user'[u] = Idle /\ UNCHANGED <<mutex, late>>

LEMMA ThreadMoves ==
    ASSUME Types, NEW u \in Users, Steps(u)
    PROVE  /\ \A v \in Users \ {u} : user'[v] = user[v]
           /\ user[u].at # "idle"
           /\ UNCHANGED <<asked, answer, told, met>>
           /\ user'[u] = Idle \/ (user'[u].kind = user[u].kind /\ user'[u].id = user[u].id)
           /\ \/ Advances(u) \/ Waits(u) \/ Expires(u) \/ Resumes(u) \/ Leaves(u) \/ Ends(u)
<1> DEFINE Same == /\ \A v \in Users \ {u} : user'[v] = user[v]
                   /\ user[u].at # "idle"
                   /\ UNCHANGED <<asked, answer, told, met>>
                   /\ user'[u] = Idle \/ (user'[u].kind = user[u].kind /\ user'[u].id = user[u].id)
<1> USE DEF At, Goes, Ahead
<1>1. user \in [Users -> Threads] /\ user[u] \in Threads
    BY DEF Types
<1>2. CASE CheckReady(u) \/ TestAgain(u) \/ Switches(u) \/ WritesSlot(u)
    <2>1. Same /\ Advances(u)
        BY <1>1, <1>2 DEF CheckReady, TestAgain, Switches, WritesSlot, Threads, Advances
    <2> QED BY <2>1
<1>3. CASE CheckLater(u)
    <2>1. Same /\ Advances(u)
        BY <1>1, <1>3 DEF CheckLater, Threads, Advances
    <2> QED BY <2>1
<1>4. CASE CheckPhone(u)
    <2>1. CASE state = "READY"
        <3>1. Same /\ Advances(u)
            BY <1>1, <1>4, <2>1 DEF CheckPhone, Threads, Advances
        <3> QED BY <3>1
    <2>2. CASE state # "READY"
        <3>1. user' = [user EXCEPT ![u] = Idle] /\ Releases(u) /\ user[u].at = "check"
              /\ UNCHANGED <<asked, answer, told, late, met>>
            BY <1>4, <2>2 DEF CheckPhone
        <3>2. user'[u] = Idle /\ \A v \in Users \ {u} : user'[v] = user[v]
            BY <1>1, <3>1
        <3>3. Same
            BY <3>1, <3>2
        <3>4. Leaves(u)
            BY <3>1, <3>2 DEF Idle, Leaves
        <3> QED BY <3>3, <3>4
    <2> QED BY <2>1, <2>2
<1>5. CASE StartsWait(u)
    <2>1. Same /\ Waits(u)
        BY <1>1, <1>5 DEF StartsWait, Threads, Waits
    <2> QED BY <2>1
<1>6. CASE TimesOut(u)
    <2>1. Same /\ Expires(u)
        BY <1>1, <1>6 DEF TimesOut, Threads, Expires
    <2> QED BY <2>1
<1>7. CASE LocksAgain(u)
    <2>1. Same /\ Resumes(u)
        BY <1>1, <1>7 DEF LocksAgain, Threads, Resumes
    <2> QED BY <2>1
<1>8. CASE Returns(u)
    <2>1. user'[u] = IF user[u].kind = "safe" THEN [user[u] EXCEPT !.at = "ready"] ELSE Idle
        BY <1>1, <1>8 DEF Returns
    <2>2. /\ user'[u].at \in {"idle", "ready"}
          /\ user'[u] = Idle \/ (user'[u].kind = user[u].kind /\ user'[u].id = user[u].id)
        <3>1. CASE user[u].kind = "safe"
            BY <1>1, <2>1, <3>1 DEF Threads
        <3>2. CASE user[u].kind # "safe"
            BY <2>1, <3>2 DEF Idle
        <3> QED BY <3>1, <3>2
    <2>3. \A v \in Users \ {u} : user'[v] = user[v]
        BY <1>1, <1>8 DEF Returns
    <2>4. Same
        BY <1>8, <2>2, <2>3 DEF Returns
    <2>5. Leaves(u)
        BY <1>8, <2>2 DEF Returns, Leaves
    <2> QED BY <2>4, <2>5
<1>9. CASE SetStateReady(u)
    <2>1. Same /\ Ends(u)
        BY <1>1, <1>9 DEF SetStateReady, Threads, Ends
    <2> QED BY <2>1
<1> QED BY <1>2, <1>3, <1>4, <1>5, <1>6, <1>7, <1>8, <1>9 DEF Steps
------------------------------------------------------------------------------
(* The mutexes.                                                            *)

LEMMA HoldingNext ==
    ASSUME Types, NoLockLeft, Next
    PROVE  NoLockLeft'
<1> USE DEF NoLockLeft, Holds, UnderWay
<1>1. ASSUME NEW u \in Users, NEW k \in Kinds, Ask(u, k)
      PROVE  NoLockLeft'
    <2>1. k \in AllKinds /\ MutexOf(k) \in Mutexes
        BY RequestsAssumption, KindsMatch
    <2>2. /\ user'[u].at = "check" /\ user'[u].kind = k
          /\ \A v \in Users \ {u} : user'[v] = user[v]
        BY <1>1 DEF Ask, Asks, Types
    <2>3. /\ mutex'[MutexOf(k)] = u /\ mutex[MutexOf(k)] = "nobody"
          /\ \A m \in Mutexes \ {MutexOf(k)} : mutex'[m] = mutex[m]
        BY <1>1, <2>1 DEF Ask, Asks, Types
    <2>4. \A m \in Mutexes : mutex[m] # u
        BY <1>1 DEF Ask, Asks
    <2> QED BY <2>1, <2>2, <2>3, <2>4, RequestsAssumption
<1>2. ASSUME NEW u \in Users, Steps(u)
      PROVE  NoLockLeft'
    <2> DEFINE mine == MutexOf(user[u].kind)
    <2>1. /\ \A v \in Users \ {u} : user'[v] = user[v]
          /\ user'[u].at # "idle" => user'[u].kind = user[u].kind
          /\ user[u].at # "idle" /\ user[u].kind \in AllKinds /\ mine \in Mutexes
        BY <1>2, ThreadMoves, KindsMatch DEF Types, Threads, Idle
    <2>2. mine = "phone" <=> user[u].kind = "phone"
        BY <2>1 DEF MutexOf, AllKinds
    <2>3. Releases(u) => /\ mutex'[mine] = "nobody"
                         /\ \A m \in Mutexes \ {mine} : mutex'[m] = mutex[m]
        BY <2>1 DEF Releases, Types
    <2>4. CASE Advances(u)
        BY <2>1, <2>4 DEF Advances, Ahead
    <2>5. CASE Waits(u)
        <3>1. mutex[mine] = u
            BY <2>1, <2>5 DEF Waits
        <3> QED BY <2>1, <2>2, <2>3, <2>5, <3>1, RequestsAssumption DEF Waits
    <2>6. CASE Expires(u)
        BY <2>1, <2>6 DEF Expires
    <2>7. CASE Resumes(u)
        <3>1. /\ mutex'[mine] = u
              /\ \A m \in Mutexes \ {mine} : mutex'[m] = mutex[m]
            BY <2>1, <2>7 DEF Resumes, Types
        <3>2. \A v \in Users \ {u} : mutex[mine] # v
            BY <2>7, RequestsAssumption DEF Resumes
        <3>3. user'[u].at \in {"shows", "fails"}
            BY <2>7 DEF Resumes
        <3>4. user[u].at \in {"woken", "expired"}
            BY <2>7 DEF Resumes
        <3> QED BY <2>1, <2>2, <3>1, <3>2, <3>3, <3>4
    <2>8. CASE Leaves(u)
        <3>1. mutex[mine] = u
            BY <2>1, <2>8 DEF Leaves
        <3> QED BY <2>1, <2>3, <2>8, <3>1, RequestsAssumption DEF Leaves
    <2>9. CASE Ends(u)
        BY <2>1, <2>9 DEF Ends, Idle
    <2> QED BY <1>2, <2>4, <2>5, <2>6, <2>7, <2>8, <2>9, ThreadMoves
<1>3. ASSUME Others
      PROVE  NoLockLeft'
    <2>1. /\ mutex' = mutex
          /\ \A u \in Users : /\ user'[u].kind = user[u].kind
                              /\ \/ user'[u].at = user[u].at
                                 \/ user[u].at = "wait" /\ user'[u].at = "woken"
        BY <1>3, OthersWake
    <2> QED BY <2>1
<1> QED BY <1>1, <1>2, <1>3 DEF Next, Others

\* A thread that asks while another is under way has met it, and phone_lock
\* keeps the second out.
LEMMA AloneNext ==
    ASSUME Types, NoLockLeft, Alone, Next
    PROVE  Alone'
<1> USE DEF Alone, Apart
<1>1. ASSUME NEW u \in Users, NEW k \in Kinds, Ask(u, k)
      PROVE  Alone'
    <2>1. k \in AllKinds /\ MutexOf(k) \in Mutexes
        BY RequestsAssumption, KindsMatch
    <2>2. /\ user'[u].kind = k /\ \A v \in Users \ {u} : user'[v] = user[v]
          /\ mutex[MutexOf(k)] = "nobody" /\ met \subseteq met'
        BY <1>1 DEF Ask, Asks, Types
    <2>3. (\E v \in Users : UnderWay(v) /\ MutexOf(user[v].kind) = MutexOf(k))
          => MutexOf(k) \in met'
        BY <1>1 DEF Ask, Asks
    <2>4. MutexOf(k) = "phone" => \A v \in Users : ~(UnderWay(v) /\ MutexOf(user[v].kind) = "phone")
        BY <2>1, <2>2, RequestsAssumption DEF NoLockLeft, Holds
    <2> QED BY <2>1, <2>2, <2>3, <2>4 DEF UnderWay
<1>2. ASSUME \A v \in Users : UnderWay(v)' => UnderWay(v) /\ user'[v].kind = user[v].kind,
             met' = met
      PROVE  Alone'
    BY <1>2 DEF UnderWay
<1>3. ASSUME NEW u \in Users, Steps(u)
      PROVE  Alone'
    <2>1. \A v \in Users \ {u} : user'[v] = user[v]
        BY <1>3, ThreadMoves
    <2>2. UnderWay(u)' => UnderWay(u) /\ user'[u].kind = user[u].kind
        <3>1. user[u].at # "idle" /\ (user'[u] = Idle \/ user'[u].kind = user[u].kind)
            BY <1>3, ThreadMoves
        <3>2. user[u].at = "ready" => user'[u] = Idle
            BY <1>3, ThreadMoves DEF Advances, Ahead, Waits, Expires, Resumes, Leaves, Ends
        <3> QED BY <3>1, <3>2 DEF UnderWay, Idle
    <2>3. met' = met
        BY <1>3, ThreadMoves
    <2> QED BY <1>2, <2>1, <2>2, <2>3 DEF UnderWay
<1>4. ASSUME Others
      PROVE  Alone'
    <2>1. \A v \in Users : UnderWay(v)' => UnderWay(v) /\ user'[v].kind = user[v].kind
        BY <1>4, OthersWake DEF UnderWay
    <2> QED BY <1>2, <1>4, <2>1, OthersWake
<1> QED BY <1>1, <1>3, <1>4 DEF Next, Others
------------------------------------------------------------------------------
(* The numbers of the requests.                                            *)

LEMMA NumberedNext ==
    ASSUME Types, Unsent, Numbered, Askers, Next
    PROVE  Numbered'
<1> USE DEF Numbered
<1>1. ASSUME NEW u \in Users, NEW k \in Kinds, Ask(u, k)
      PROVE  Numbered'
    <2>1. /\ user'[u].id = asked + 1
          /\ \A v \in Users \ {u} : user'[v] = user[v]
          /\ asked' = asked + 1 /\ asked \in Nat /\ sched' = sched
        BY <1>1 DEF Ask, Asks, Types
    <2> QED BY <2>1
<1>2. ASSUME NEW u \in Users, Steps(u)
      PROVE  Numbered'
    <2>1. \A s \in Slots : sched'[s].id \in 0..asked
        <3>1. CASE WritesSlot(u)
            <4>1. \A s \in Slots : sched'[s].id \in {sched[s].id, user[u].id}
                BY <3>1 DEF WritesSlot, Types
            <4> QED BY <3>1, <4>1 DEF WritesSlot, At
        <3>2. CASE sched' = sched
            BY <3>2
        <3> QED BY <1>2, <3>1, <3>2 DEF Steps, CheckReady, CheckLater, CheckPhone, TestAgain,
                     Switches, StartsWait, TimesOut, LocksAgain, Returns, SetStateReady
    <2>2. asked' = asked /\ \A v \in Users : user'[v].at # "idle" =>
             user[v].at # "idle" /\ user'[v].id = user[v].id
        BY <1>2, ThreadMoves DEF Idle
    <2> QED BY <2>1, <2>2
<1>3. ASSUME Others
      PROVE  Numbered'
    <2>1. \A s \in Slots : sched'[s].id \in 0..asked
        <3>1. CASE PhoneLine
            <4>1. asker \in 0..asked
                BY DEF Askers, Types
            <4>2. \A s \in Slots : sched'[s].id \in {sched[s].id, asker}
                BY <3>1, SlotFree DEF PhoneLine, HangsUp, Scheduled, Types
            <4> QED BY <4>1, <4>2
        <3>2. CASE HungUp
            BY <3>2 DEF HungUp, Types, Free
        <3>3. CASE \E s \in Slots : Fires(s)
            BY <3>3, FiresCarried
        <3>4. CASE sched' = sched
            BY <3>4
        <3> QED BY <1>3, <3>1, <3>2, <3>3, <3>4 DEF Others, RawAt, Dchannel, UssdLine,
                     OperatorLine, SafeLine, PhoneExpires, CallEnds, Busy, Reload, Ready
    <2> QED BY <1>3, <2>1, OthersWake
<1> QED BY <1>1, <1>2, <1>3 DEF Next, Others
------------------------------------------------------------------------------
(* What the steps give to the modem and to the timers.                     *)

\* The requests that are given to the modem and the timers that are set by a
\* step of a console thread.
LEMMA ThreadSends ==
    ASSUME Types, NEW u \in Users, Steps(u)
    PROVE  /\ \/ sent' = sent /\ state' = state /\ asker' = asker
              \/ sent' = sent /\ state' = "READY" /\ asker' = 0
              \/ /\ user[u].at = "switch" /\ user'[u].at = "starts"
                 /\ user'[u].kind = user[u].kind /\ user'[u].id = user[u].id
                 /\ sent' = sent \cup {user[u].id}
                 /\ state' = StateOf(user[u].kind) /\ asker' = user[u].id
                 /\ sched' = sched
           /\ \/ sched' = sched
              \/ /\ user[u].at = "slot" /\ user'[u].at = "starts"
                 /\ user'[u].kind = user[u].kind /\ user'[u].id = user[u].id
                 /\ sent' = sent /\ state' = state /\ asker' = asker
                 /\ \E t \in Slots :
                       /\ sched' = [sched EXCEPT ![t] = [kind |-> user[u].kind, id |-> user[u].id,
                                                         tries |-> 1]]
<1> USE DEF At, Goes
<1>1. user \in [Users -> Threads] /\ user[u] \in Threads
    BY DEF Types
<1>2. CASE WritesSlot(u)
    <2>1. /\ user[u].at = "slot" /\ user'[u].at = "starts"
          /\ user'[u].kind = user[u].kind /\ user'[u].id = user[u].id
          /\ sent' = sent /\ state' = state /\ asker' = asker
        BY <1>1, <1>2 DEF WritesSlot, LibSame, Threads
    <2>2. user[u].slot \in Slots
        BY <2>1 DEF Types
    <2> QED BY <1>2, <2>1, <2>2 DEF WritesSlot
<1>3. CASE Switches(u)
    BY <1>1, <1>3 DEF Switches, SwitchState, Threads
<1>4. CASE SetStateReady(u)
    BY <1>4 DEF SetStateReady
<1>5. CASE CheckReady(u) \/ CheckLater(u) \/ CheckPhone(u) \/ TestAgain(u) \/ StartsWait(u)
             \/ TimesOut(u) \/ LocksAgain(u) \/ Returns(u)
    <2>1. LibSame /\ sched' = sched
        BY <1>5 DEF CheckReady, CheckLater, CheckPhone, TestAgain, StartsWait, TimesOut,
                    LocksAgain, Returns
    <2> QED BY <2>1 DEF LibSame
<1> QED BY <1>2, <1>3, <1>4, <1>5 DEF Steps

\* The other steps carry the timers, and only a timer's function sends.
LEMMA OthersSend ==
    ASSUME Types, Unsent, Numbered, Others
    PROVE  /\ Carried
           /\ \/ sent' = sent
              \/ \E s \in Slots : Fires(s) /\ Resend(s) /\ sent' = sent \cup {sched[s].id}
<1>1. CASE PhoneLine
    <2>1. \A t \in Slots : sched'[t] = sched[t] \/ sched'[t].kind \notin AllKinds
        BY <1>1, SlotFree DEF PhoneLine, HangsUp, Scheduled, Types, AllKinds
    <2>2. sent' = sent
        BY <1>1 DEF PhoneLine, Reads
    <2> QED BY <2>1, <2>2, FewerCarried
<1>2. CASE HungUp
    <2>1. \A t \in Slots : sched'[t] = sched[t] \/ sched'[t].kind \notin AllKinds
        BY <1>2 DEF HungUp, Types, Free, AllKinds
    <2>2. sent' = sent
        BY <1>2 DEF HungUp, Reads
    <2> QED BY <2>1, <2>2, FewerCarried
<1>3. ASSUME NEW s \in Slots, Fires(s)
      PROVE  /\ Carried
             /\ sent' = sent \/ (Resend(s) /\ sent' = sent \cup {sched[s].id})
    BY <1>3, FiresCarried DEF Fires, ResendLater, Resend, HangupTimeout, LibSame, SwitchState
<1>4. CASE sched' = sched /\ sent' = sent
    BY <1>4, FewerCarried
<1>5. RawAt \/ UssdLine \/ OperatorLine \/ SafeLine \/ PhoneExpires \/ CallEnds \/ Busy
        \/ Reload \/ Ready
      => sched' = sched /\ sent' = sent
    BY DEF RawAt, UssdLine, OperatorLine, SafeLine, PhoneExpires, CallEnds, Busy, Reload, Ready,
           Reads, LibSame
<1> QED BY <1>1, <1>2, <1>3, <1>4, <1>5 DEF Others, Dchannel
------------------------------------------------------------------------------
(* A request is in one place until it is sent.                             *)

LEMMA UnsentFrame ==
    ASSUME Types, Unsent, Carried, sent' = sent, asked' = asked,
           \A v \in Users : Ahead(v)' => Ahead(v) /\ user'[v].id = user[v].id
    PROVE  Unsent'
    BY DEF Unsent, Carried, Requested

LEMMA UnsentNext ==
    ASSUME Types, Unsent, Numbered, Next
    PROVE  Unsent'
<1> USE DEF Requested, Ahead
<1>1. ASSUME NEW u \in Users, NEW k \in Kinds, Ask(u, k)
      PROVE  Unsent'
    <2>1. /\ user'[u].id = asked + 1 /\ user'[u].at = "check"
          /\ \A v \in Users \ {u} : user'[v] = user[v]
          /\ asked' = asked + 1 /\ asked \in Nat /\ sched' = sched
          /\ sent' = sent /\ sent \subseteq 1..asked
        BY <1>1 DEF Ask, Asks, Types, LibSame
    <2> QED BY <2>1 DEF Unsent, Numbered
<1>2. ASSUME NEW u \in Users, Steps(u)
      PROVE  Unsent'
    <2>1. asked' = asked /\ \A v \in Users : Ahead(v)' =>
             Ahead(v) /\ user'[v].id = user[v].id /\ user'[v] # Idle
        BY <1>2, ThreadMoves DEF Idle, UnderWay, Advances, Waits, Expires, Resumes, Leaves, Ends
    <2>2. CASE sent' = sent /\ sched' = sched
        <3>1. Carried
            BY <2>2, FewerCarried
        <3> QED BY <2>1, <2>2, <3>1, UnsentFrame
    <2>3. CASE /\ user[u].at = "switch" /\ user'[u].at = "starts"
               /\ sent' = sent \cup {user[u].id} /\ sched' = sched
        <3>1. \A v \in Users : Ahead(v)' => v # u /\ user[v].id # user[u].id
            BY <2>1, <2>3 DEF Numbered
        <3>2. \A t \in Slots : Requested(t) => sched[t].id # user[u].id
            BY <2>3 DEF Unsent
        <3> QED BY <2>1, <2>3, <3>1, <3>2 DEF Unsent
    <2>4. ASSUME user[u].at = "slot", user'[u].at = "starts", sent' = sent,
                 NEW t \in Slots,
                 sched' = [sched EXCEPT ![t] = [kind |-> user[u].kind, id |-> user[u].id,
                                                tries |-> 1]]
          PROVE  Unsent'
        <3>1. /\ sched'[t].id = user[u].id
              /\ \A r \in Slots \ {t} : sched'[r] = sched[r]
            BY <2>4 DEF Types
        <3>2. user[u].id \in (1..asked) \ sent
              /\ \A r \in Slots : Requested(r) => sched[r].id # user[u].id
            BY <2>4 DEF Unsent, Numbered
        <3>3. \A v \in Users : Ahead(v)' => v # u /\ user[v].id # user[u].id
            BY <2>1, <2>4 DEF Numbered
        <3> QED BY <2>1, <2>4, <3>1, <3>2, <3>3 DEF Unsent
    <2> QED BY <1>2, <2>2, <2>3, <2>4, ThreadSends
<1>3. ASSUME Others
      PROVE  Unsent'
    <2>1. Carried /\ asked' = asked /\ \A v \in Users : Ahead(v)' =>
             Ahead(v) /\ user'[v].id = user[v].id
        BY <1>3, OthersWake, OthersSend
    <2>2. CASE sent' = sent
        BY <2>1, <2>2, UnsentFrame
    <2>3. ASSUME NEW s \in Slots, Fires(s), Resend(s), sent' = sent \cup {sched[s].id}
          PROVE  Unsent'
        <3>1. Requested(s) /\ \A v \in Users : Ahead(v) => user[v].id # sched[s].id
            BY <2>3 DEF Resend, Unsent
        <3>2. \A t \in Slots : sched'[t].kind \in AllKinds => sched'[t].id # sched[s].id
            BY <2>3, FiresCarried
        <3> QED BY <2>1, <2>3, <3>1, <3>2 DEF Unsent, Carried
    <2> QED BY <1>3, <2>2, <2>3, OthersSend
<1> QED BY <1>1, <1>2, <1>3 DEF Next, Others
------------------------------------------------------------------------------
(* Whose the state is.                                                     *)

LEMMA AskersNext ==
    ASSUME Types, Unsent, Numbered, Askers, Next
    PROVE  Askers'
<1> USE DEF Askers
<1>1. \A u \in Users, k \in Kinds : Ask(u, k) => Askers'
    BY DEF Ask, Asks, LibSame
<1>2. ASSUME NEW u \in Users, Steps(u)
      PROVE  Askers'
    <2>1. told' = told
        BY <1>2, ThreadMoves
    <2>2. CASE sent' = sent /\ state' = state /\ asker' = asker
        BY <2>1, <2>2
    <2>3. CASE sent' = sent /\ state' = "READY" /\ asker' = 0
        BY <2>3, NotAsking
    <2>4. CASE /\ user[u].at = "switch" /\ sent' = sent \cup {user[u].id}
               /\ state' = StateOf(user[u].kind) /\ asker' = user[u].id
        <3>1. user[u].id \notin sent
            BY <2>4 DEF Unsent, Ahead
        <3>2. state' \in Asking
            BY <2>4, KindsMatch DEF Types, Threads
        <3> QED BY <2>1, <2>4, <3>1, <3>2 DEF Types
    <2> QED BY <1>2, <2>2, <2>3, <2>4, ThreadSends
<1>3. CASE RawAt \/ PhoneExpires
    BY <1>3 DEF RawAt, PhoneExpires, LibSame
<1>4. CASE UssdLine \/ OperatorLine \/ SafeLine \/ PhoneLine \/ HungUp \/ CallEnds \/ Busy
             \/ Reload \/ Ready
    <2>1. asker' = 0 /\ state' \notin Asking
        BY <1>4, NotAsking DEF UssdLine, OperatorLine, SafeLine, PhoneLine, HangsUp, HungUp,
             CallEnds, Busy, Reload, Ready, Becomes
    <2> QED BY <2>1
<1>5. ASSUME NEW s \in Slots, Fires(s)
      PROVE  Askers'
    <2>1. told' = told
        BY <1>5 DEF Fires, Silent
    <2>2. CASE ResendLater(s) \/ HangupTimeout(s)
        BY <2>1, <2>2 DEF ResendLater, HangupTimeout, LibSame
    <2>3. CASE Resend(s)
        <3>1. sched[s].kind \in AllKinds /\ sched[s].id \notin sent
            BY <2>3 DEF Resend, Requested, Unsent
        <3>2. state' \in Asking /\ asker' = sched[s].id /\ sent' = sent \cup {sched[s].id}
            BY <2>3, <3>1, KindsMatch DEF Resend, SwitchState
        <3> QED BY <2>1, <3>1, <3>2 DEF Types
    <2> QED BY <1>5, <2>2, <2>3 DEF Fires
<1> QED BY <1>1, <1>2, <1>3, <1>4, <1>5 DEF Next, Dchannel
------------------------------------------------------------------------------
(* The answer of a request that did not time out.                          *)

LEMMA FreshAsk ==
    ASSUME Types, Fresh, NEW u \in Users, NEW k \in Kinds, Ask(u, k)
    PROVE  Fresh'
<1>1. /\ user[u].at = "idle" /\ user'[u].at = "check"
      /\ \A v \in Users \ {u} : user'[v] = user[v]
      /\ met \subseteq met'
      /\ UNCHANGED <<state, asker, sched, answer, late>>
    BY DEF Ask, Asks, Types, LibSame
<1>2. \A m, id : WaitedFor(m, id) => WaitedFor(m, id)'
    BY <1>1 DEF WaitedFor
<1>3. \A v \in Users : Answered(v)' => Answered(v) /\ user'[v] = user[v]
    BY <1>1 DEF Answered
<1> QED BY <1>1, <1>2, <1>3 DEF Fresh, Apart, Requested

\* A step of one thread: what it gives to the modem or to a timer, it is
\* about to wait for.
LEMMA FreshThread ==
    ASSUME Types, Fresh, NEW u \in Users, Steps(u)
    PROVE  Fresh'
<1>1. /\ \A v \in Users \ {u} : user'[v] = user[v]
      /\ user[u].at # "idle" /\ UNCHANGED <<answer, met>>
      /\ user'[u] = Idle \/ (user'[u].kind = user[u].kind /\ user'[u].id = user[u].id)
      /\ late \subseteq late'
    BY ThreadMoves DEF Advances, Waits, Expires, Resumes, Leaves, Ends
<1>2. /\ user[u].at \in {"starts", "wait"} /\ MutexOf(user[u].kind) \notin late'
         => user'[u].at = "wait"
      /\ Answered(u)' => Answered(u)
    BY ThreadMoves DEF Advances, Waits, Expires, Resumes, Leaves, Ends, Ahead, Idle, Answered
<1>3. user[u].kind \in AllKinds /\ MutexOf(user[u].kind) \in Mutexes
    BY <1>1, KindsMatch DEF Types, Threads
<1>4. \A m \in Mutexes \ late' : \A id : WaitedFor(m, id) => WaitedFor(m, id)'
    <2> SUFFICES ASSUME NEW m \in Mutexes \ late', NEW id, NEW v \in Users,
                        user[v].at \in {"starts", "wait"}, MutexOf(user[v].kind) = m,
                        user[v].id = id
                 PROVE  user'[v].at \in {"starts", "wait"} /\ MutexOf(user'[v].kind) = m
                        /\ user'[v].id = id
        BY DEF WaitedFor
    <2>1. CASE v # u
        BY <1>1, <2>1
    <2>2. CASE v = u
        <3>1. user'[u].at = "wait"
            BY <1>2, <2>2
        <3> QED BY <1>1, <2>2, <3>1 DEF Idle
    <2> QED BY <2>1, <2>2
<1>5. \A v \in Users : Answered(v)' =>
         Answered(v) /\ user'[v].kind = user[v].kind /\ user'[v].id = user[v].id
    BY <1>1, <1>2 DEF Answered, Idle
<1> SUFFICES ASSUME NEW m \in Mutexes \ late', Apart(m)
             PROVE  /\ state' = StateOf(m) => WaitedFor(m, asker)'
                    /\ \A s \in Slots : sched'[s].kind \in AllKinds /\ MutexOf(sched'[s].kind) = m
                                        => WaitedFor(m, sched[s].id)'
                    /\ \A v \in Users : Answered(v)' /\ MutexOf(user'[v].kind) = m
                                        => answer'[m] = user'[v].id
    BY <1>1 DEF Fresh, Apart, Requested
<1>6. m \in Mutexes \ late
    BY <1>1
<1>7. user'[u].at = "starts" /\ user'[u].kind = user[u].kind /\ user'[u].id = user[u].id
      /\ MutexOf(user[u].kind) = m => WaitedFor(m, user[u].id)'
    BY DEF WaitedFor
<1>8. state' = StateOf(m) => WaitedFor(m, asker)'
    <2>1. CASE state' = state /\ asker' = asker
        <3>1. state = StateOf(m) => WaitedFor(m, asker)
            BY <1>6 DEF Fresh
        <3> QED BY <1>4, <2>1, <3>1 DEF WaitedFor
    <2>2. CASE state' = "READY"
        BY <2>2, KindsMatch, NotAsking
    <2>3. CASE /\ user'[u].at = "starts"
               /\ user'[u].kind = user[u].kind /\ user'[u].id = user[u].id
               /\ state' = StateOf(user[u].kind) /\ asker' = user[u].id
        <3>1. state' = StateOf(m) => MutexOf(user[u].kind) = m
            BY <1>3, <2>3, KindsMatch
        <3> QED BY <1>7, <2>3, <3>1 DEF WaitedFor
    <2> QED BY <2>1, <2>2, <2>3, ThreadSends
<1>9. ASSUME NEW s \in Slots, sched'[s].kind \in AllKinds, MutexOf(sched'[s].kind) = m
      PROVE  WaitedFor(m, sched[s].id)'
    <2>1. CASE sched'[s] = sched[s]
        <3>1. WaitedFor(m, sched[s].id)
            BY <1>6, <1>9, <2>1 DEF Fresh, Requested
        <3> QED BY <1>4, <2>1, <3>1 DEF WaitedFor
    <2>2. CASE /\ user'[u].at = "starts"
               /\ user'[u].kind = user[u].kind /\ user'[u].id = user[u].id
               /\ sched'[s].kind = user[u].kind /\ sched'[s].id = user[u].id
        BY <1>7, <1>9, <2>2 DEF WaitedFor
    <2> QED BY <2>1, <2>2, ThreadSends DEF Types
<1>10. \A v \in Users : Answered(v)' /\ MutexOf(user'[v].kind) = m => answer'[m] = user'[v].id
    BY <1>1, <1>5, <1>6 DEF Fresh
<1> QED BY <1>8, <1>9, <1>10

\* An event is the answer of the request that waits for it, and leaves no
\* other of its mutex.
LEMMA FreshEvent ==
    ASSUME Types, Alone, Unsent, Askers, Fresh, Carried,
           NEW k \in Mutexes, state = StateOf(k), Event(k),
           state' \notin Asking, UNCHANGED <<mutex, late, met>>
    PROVE  Fresh'
<1>1. /\ user' \in [Users -> Threads]
      /\ \A u \in Users :
            /\ user'[u].kind = user[u].kind /\ user'[u].id = user[u].id
            /\ \/ user'[u].at = user[u].at
               \/ user[u].at = "wait" /\ user'[u].at = "woken" /\ MutexOf(user[u].kind) = k
    BY Woken DEF Event
<1>2. answer' = [answer EXCEPT ![k] = asker] /\ asker \in sent
    BY KindsMatch DEF Event, Askers
<1>3. answer'[k] = asker /\ \A m \in Mutexes \ {k} : answer'[m] = answer[m]
    BY <1>2 DEF Types
<1> SUFFICES ASSUME NEW m \in Mutexes \ late, Apart(m)
             PROVE  /\ state' # StateOf(m)
                    /\ \A s \in Slots : sched'[s].kind \in AllKinds /\ MutexOf(sched'[s].kind) = m
                                        => WaitedFor(m, sched[s].id)'
                    /\ \A v \in Users : Answered(v)' /\ MutexOf(user'[v].kind) = m
                                        => answer'[m] = user'[v].id
    BY DEF Fresh, Requested, Apart
<1>4. state' # StateOf(m)
    BY KindsMatch
<1>5. CASE m = k
    <2>1. PICK w \in Users : /\ user[w].at \in {"starts", "wait"}
                             /\ MutexOf(user[w].kind) = m /\ user[w].id = asker
        BY <1>5 DEF Fresh, WaitedFor
    <2>2. \A v \in Users : UnderWay(v) /\ MutexOf(user[v].kind) = m => v = w
        BY <2>1 DEF Alone, UnderWay
    <2>3. ASSUME NEW v \in Users, Answered(v)', MutexOf(user'[v].kind) = m
          PROVE  answer'[m] = user'[v].id
        <3>1. UnderWay(v) /\ MutexOf(user[v].kind) = m
            BY <1>1, <2>3 DEF UnderWay, Answered
        <3>2. v = w
            BY <2>2, <3>1
        <3> QED BY <1>1, <1>3, <1>5, <2>1, <3>2
    <2>4. \A s \in Slots : Requested(s) => MutexOf(sched[s].kind) # m
        <3>1. \A id : WaitedFor(m, id) => id = asker
            BY <2>1, <2>2 DEF WaitedFor, UnderWay
        <3> QED BY <1>2, <3>1 DEF Fresh, Unsent
    <2>5. \A s \in Slots : sched'[s].kind \in AllKinds => MutexOf(sched'[s].kind) # m
        BY <2>4 DEF Carried, Requested
    <2> QED BY <1>4, <2>3, <2>5
<1>6. CASE m # k
    <2>1. \A v \in Users : MutexOf(user[v].kind) = m => user'[v].at = user[v].at
        BY <1>1, <1>6
    <2>2. \A id : WaitedFor(m, id) => WaitedFor(m, id)'
        BY <1>1, <2>1 DEF WaitedFor
    <2>3. \A v \in Users : Answered(v)' /\ MutexOf(user'[v].kind) = m
                           => answer'[m] = user'[v].id
        BY <1>1, <1>3, <1>6, <2>1 DEF Fresh, Answered
    <2>4. ASSUME NEW s \in Slots, sched'[s].kind \in AllKinds, MutexOf(sched'[s].kind) = m
          PROVE  WaitedFor(m, sched[s].id)'
        <3>1. PICK r \in Slots : sched[r].kind = sched'[s].kind /\ sched[r].id = sched'[s].id
            BY <2>4 DEF Carried
        <3>2. WaitedFor(m, sched[r].id)
            BY <2>4, <3>1 DEF Fresh, Requested
        <3> QED BY <2>2, <3>1, <3>2 DEF WaitedFor
    <2> QED BY <1>4, <2>3, <2>4
<1> QED BY <1>5, <1>6

\* Steps that no thread hears of, and that send only from a timer.
LEMMA FreshQuiet ==
    ASSUME Types, Fresh, Carried, Silent, UNCHANGED <<mutex, late, met>>,
           \/ state' \notin Asking
           \/ state' = state /\ asker' = asker
           \/ \E s \in Slots : /\ Requested(s)
                               /\ state' = StateOf(sched[s].kind) /\ asker' = sched[s].id
    PROVE  Fresh'
<1>1. UNCHANGED <<user, answer>>
    BY DEF Silent
<1> SUFFICES ASSUME NEW m \in Mutexes \ late, Apart(m)
             PROVE  /\ state' = StateOf(m) => WaitedFor(m, asker)'
                    /\ \A s \in Slots : sched'[s].kind \in AllKinds /\ MutexOf(sched'[s].kind) = m
                                        => WaitedFor(m, sched[s].id)'
    BY <1>1 DEF Fresh, Requested, Apart, Answered
<1>3. state' = StateOf(m) => WaitedFor(m, asker')
    <2>1. StateOf(m) \in Asking
        BY KindsMatch
    <2>2. ASSUME NEW s \in Slots, Requested(s), state' = StateOf(sched[s].kind),
                 asker' = sched[s].id, state' = StateOf(m)
          PROVE  WaitedFor(m, asker')
        <3>1. MutexOf(sched[s].kind) = m
            BY <2>2, KindsMatch DEF Requested
        <3> QED BY <2>2, <3>1 DEF Fresh
    <2> QED BY <2>1, <2>2 DEF Fresh
<1>4. \A s \in Slots : sched'[s].kind \in AllKinds /\ MutexOf(sched'[s].kind) = m
                       => WaitedFor(m, sched'[s].id)
    BY DEF Carried, Fresh, Requested
<1> QED BY <1>1, <1>3, <1>4 DEF WaitedFor

LEMMA FreshNext ==
    ASSUME Types, Alone, Numbered, Unsent, Askers, Fresh, Next
    PROVE  Fresh'
<1>1. ASSUME Others
      PROVE  Fresh'
    <2>1. Carried /\ UNCHANGED <<mutex, late, met>>
        BY <1>1, OthersSend, OthersWake
    <2>2. CASE UssdLine
        <3>1. state = StateOf("ussd") /\ "ussd" \in Mutexes /\ Event("ussd") /\ state' \notin Asking
            BY <2>2, NotAsking DEF UssdLine, Becomes, StateOf, Mutexes
        <3> QED BY <2>1, <3>1, FreshEvent
    <2>3. CASE OperatorLine
        <3>1. state = StateOf("operator") /\ "operator" \in Mutexes /\ state' \notin Asking
              /\ (Event("operator") \/ Silent)
            BY <2>3, NotAsking DEF OperatorLine, Becomes, StateOf, Mutexes
        <3> QED BY <2>1, <3>1, FreshEvent, FreshQuiet
    <2>4. CASE SafeLine
        <3>1. state = StateOf("safe") /\ "safe" \in Mutexes /\ Event("safe") /\ state' \notin Asking
            BY <2>4, NotAsking DEF SafeLine, Becomes, StateOf, Mutexes
        <3> QED BY <2>1, <3>1, FreshEvent
    <2>5. CASE PhoneLine
        <3>1. state = StateOf("phone") /\ "phone" \in Mutexes /\ Event("phone")
              /\ state' \notin Asking
            BY <2>5, NotAsking DEF PhoneLine, HangsUp, Becomes, StateOf, Mutexes
        <3> QED BY <2>1, <3>1, FreshEvent
    <2>6. CASE RawAt \/ PhoneExpires
        <3>1. Silent /\ state' = state /\ asker' = asker
            BY <2>6 DEF RawAt, PhoneExpires, LibSame, Silent
        <3> QED BY <2>1, <3>1, FreshQuiet
    <2>7. CASE HungUp \/ CallEnds \/ Busy \/ Reload \/ Ready
        <3>1. Silent /\ state' \notin Asking
            BY <2>7, NotAsking DEF HungUp, CallEnds, Busy, Reload, Ready, Becomes
        <3> QED BY <2>1, <3>1, FreshQuiet
    <2>8. ASSUME NEW s \in Slots, Fires(s)
          PROVE  Fresh'
        <3>1. Silent
            BY <2>8 DEF Fires
        <3>2. \/ state' = state /\ asker' = asker
              \/ Requested(s) /\ state' = StateOf(sched[s].kind) /\ asker' = sched[s].id
            BY <2>8 DEF Fires, ResendLater, Resend, HangupTimeout, LibSame, SwitchState
        <3> QED BY <2>1, <3>1, <3>2, FreshQuiet
    <2> QED BY <1>1, <2>2, <2>3, <2>4, <2>5, <2>6, <2>7, <2>8 DEF Others, Dchannel
<1> QED BY <1>1, FreshAsk, FreshThread DEF Next, Others
------------------------------------------------------------------------------
(* The inductive invariant.                                                *)

LEMMA IInvInit == Init => IInv
<1> SUFFICES ASSUME Init
             PROVE  IInv
    OBVIOUS
<1>1. Types
    BY TypesInit
<1>2. /\ \A u \in Users : user[u].at = "idle"
      /\ \A s \in Slots : sched[s].id = 0 /\ ~Requested(s)
      /\ asked = 0 /\ asker = 0 /\ state \notin Asking
      /\ \A m \in Mutexes : mutex[m] = "nobody"
    BY NotAsking DEF Init, Idle, Free, Requested, AllKinds
<1>3. NoLockLeft /\ Alone /\ Numbered
    BY <1>2, RequestsAssumption DEF NoLockLeft, Holds, Alone, UnderWay, Numbered
<1>4. Unsent /\ Askers
    BY <1>2 DEF Unsent, Ahead, Askers
<1>5. Fresh
    BY <1>2, KindsMatch DEF Fresh, Answered
<1> QED BY <1>1, <1>3, <1>4, <1>5 DEF IInv

LEMMA TypesNext ==
    ASSUME IInv, Next
    PROVE  Types'
<1> USE DEF IInv
<1>1. CASE \E u \in Users : Steps(u)
    BY <1>1, TypesSlot, TypesThread DEF Steps
<1>2. CASE \E u \in Users : \E k \in Kinds : Ask(u, k)
    BY <1>2, TypesAsk
<1>3. CASE RawAt
    BY <1>3 DEF RawAt, Types
<1>4. CASE Dchannel
    BY <1>4, TypesLine, TypesPhone, TypesFires DEF Dchannel
<1> QED BY <1>1, <1>2, <1>3, <1>4 DEF Next

LEMMA IInvNext == IInv /\ [Next]_vars => IInv'
<1> SUFFICES ASSUME IInv, [Next]_vars
             PROVE  IInv'
    OBVIOUS
<1>1. CASE Next
    <2>1. Types' /\ NoLockLeft' /\ Alone'
        BY <1>1, TypesNext, HoldingNext, AloneNext DEF IInv
    <2>2. Numbered' /\ Unsent' /\ Askers'
        BY <1>1, NumberedNext, UnsentNext, AskersNext DEF IInv
    <2>3. Fresh'
        BY <1>1, <2>1, FreshNext DEF IInv
    <2> QED BY <2>1, <2>2, <2>3 DEF IInv
<1>2. CASE UNCHANGED vars
    BY <1>2 DEF vars, IInv, Types, NoLockLeft, Holds, UnderWay, Alone, Apart, Numbered, Unsent,
                Ahead, Requested, Askers, Fresh, WaitedFor, Answered
<1> QED BY <1>1, <1>2

\* The invariant holds in every behaviour; the theorems below follow from it.
LEMMA Requesting == Spec => []IInv
    BY IInvInit, IInvNext, PTL DEF Spec
------------------------------------------------------------------------------
(* The theorems.                                                           *)

\* Every variable keeps its type: only requests that were given to the modem
\* are answered, and a safe AT command is put off at most SafeTries times.
THEOREM Typing == Spec => []TypeOK
<1>1. IInv => TypeOK
    BY DEF IInv, Types, States, Timers, Numbered, Askers, TypeOK, Asking
<1> QED BY <1>1, Requesting, PTL

\* The mutex of a request is held exactly by the thread that is inside its
\* handler and does not wait (phone_lock: waits or not): no way out of the
\* console's handlers leaves one locked, none is unlocked by a thread that
\* does not have it, and the wait gives it back and has it again.
THEOREM MutexesReturned == Spec => []NoLockLeft
    BY Requesting, PTL DEF IInv

\* A thread of a mutex of which no request has timed out and no two have met
\* shows the answer to its own request; for a phone check, which keeps
\* phone_lock while it waits, the second need not be assumed.
THEOREM AnswersFresh == Spec => []FreshAnswer
<1>1. IInv => FreshAnswer
    <2> SUFFICES ASSUME IInv, NEW u \in Users, user[u].at \in {"woken", "shows"},
                        MutexOf(user[u].kind) \notin late, Apart(MutexOf(user[u].kind))
                 PROVE  answer[MutexOf(user[u].kind)] = user[u].id
        BY DEF FreshAnswer, Apart
    <2>1. MutexOf(user[u].kind) \in Mutexes
        BY KindsMatch DEF IInv, Types, Threads
    <2> QED BY <2>1 DEF IInv, Fresh, Answered
<1> QED BY <1>1, Requesting, PTL

\* A request is given to the modem at most once, and answered at most once,
\* whether its thread sends it or a timer that outlives the thread.
THEOREM SentOnce == Spec => AskedOnce
<1> DEFINE Once == /\ asker' \notin {0, asker} => asker' \notin sent
                   /\ \A m \in Mutexes : answer'[m] # answer[m] => answer'[m] \notin told
<1>1. ASSUME IInv, Next
      PROVE  Once
    <2> USE <1>1 DEF IInv
    <2>1. ASSUME NEW u \in Users, Steps(u)
          PROVE  Once
        <3>1. UNCHANGED answer
            BY <2>1, ThreadMoves
        <3>2. user[u].at = "switch" => user[u].id \notin sent
            BY DEF Unsent, Ahead
        <3> QED BY <2>1, <3>1, <3>2, ThreadSends
    <2>2. \A u \in Users, k \in Kinds : Ask(u, k) => Once
        BY DEF Ask, Asks, LibSame
    <2>3. ASSUME NEW m \in Mutexes, Event(m), state \in Asking, asker' = 0
          PROVE  Once
        BY <2>3 DEF Event, Askers, Types
    <2>4. CASE UssdLine \/ OperatorLine \/ SafeLine \/ PhoneLine
        <3>1. state \in Asking /\ asker' = 0 /\ (Silent \/ \E m \in Mutexes : Event(m))
            BY <2>4 DEF UssdLine, OperatorLine, SafeLine, PhoneLine, HangsUp, Becomes, Asking,
                        Mutexes
        <3> QED BY <2>3, <3>1 DEF Silent
    <2>5. CASE RawAt \/ PhoneExpires \/ HungUp \/ CallEnds \/ Busy \/ Reload \/ Ready
        <3>1. UNCHANGED answer /\ asker' \in {0, asker}
            BY <2>5 DEF RawAt, PhoneExpires, HungUp, CallEnds, Busy, Reload, Ready, Becomes,
                        Silent, LibSame
        <3> QED BY <3>1
    <2>6. ASSUME NEW s \in Slots, Fires(s)
          PROVE  Once
        <3>1. UNCHANGED answer
            BY <2>6 DEF Fires, Silent
        <3>2. asker' = asker \/ asker' \notin sent
            BY <2>6 DEF Fires, ResendLater, Resend, HangupTimeout, LibSame, SwitchState, Unsent
        <3> QED BY <3>1, <3>2
    <2> QED BY <1>1, <2>1, <2>2, <2>4, <2>5, <2>6 DEF Next, Dchannel
<1>2. IInv /\ [Next]_vars => [Once]_vars
    BY <1>1
<1> QED BY <1>2, Requesting, PTL DEF Spec, AskedOnce
=============================================================================
