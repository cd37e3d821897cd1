------------------------------ MODULE SmsQueue -------------------------------
(***************************************************************************)
(* Outgoing text messages of one span: allogsm_send_text (gsm.c), the      *)
(* linked list behind it (gsmqueue.c) and the one-second timer             *)
(* gsm_dequeue_sms_txt that drains the list.  All of it runs under the     *)
(* span's lock, so one call and one timer callback are one step each.      *)
(*                                                                         *)
(* A text is its number in the order of the calls.  The rest of the span   *)
(* is seen through the three fields that gate sending (state,              *)
(* dial_initiated, creg_state) and the number of timer slots other timers  *)
(* hold; SpanMoves and OtherTimers change them freely.                     *)
(***************************************************************************)
EXTENDS Integers, Sequences

CONSTANTS MaxMsgs,      \* bound: number of calls of allogsm_send_text
          MaxTimers     \* usable slots of gsm_sched, ALLO_MAX_SCHED - 1

ASSUME SmsQueueAssumption ==
    /\ MaxMsgs \in Nat
    /\ MaxTimers \in Nat \ {0}

VARIABLES
    state,          \* gsm->state: "READY", "SMS" while a text of ours is sent, else "BUSY"
    dialInitiated,  \* gsm->dial_initiated
    registered,     \* gsm->creg_state is home or roaming
    otherTimers,    \* slots of gsm_sched held by other callbacks
    queue,          \* gsm->sms_queue, front first
    dequeueTimers,  \* slots of gsm_sched holding gsm_dequeue_sms_txt
    submitted,      \* number of calls of allogsm_send_text
    acked,          \* texts whose call returned 0
    refused,        \* texts whose call returned -1
    handed          \* texts given to module_send_text, in that order

spanVars == <<state, dialInitiated, registered>>
resultVars == <<submitted, acked, refused>>
vars == <<state, dialInitiated, registered, otherTimers, queue, dequeueTimers,
          submitted, acked, refused, handed>>

Msgs == 1..MaxMsgs
Elements(s) == {s[i] : i \in 1..Len(s)}

Init ==
    /\ state = "BUSY"               \* the modem is still being initialised
    /\ dialInitiated = FALSE
    /\ registered = FALSE
    /\ otherTimers = 0
    /\ queue = <<>>
    /\ dequeueTimers = 0
    /\ submitted = 0
    /\ acked = {}
    /\ refused = {}
    /\ handed = <<>>
------------------------------------------------------------------------------
\* The gate shared by allogsm_send_text and gsm_dequeue_sms_txt.
Blocked == state # "READY" \/ dialInitiated \/ ~registered

\* gsm_schedule_check: no slot without a callback is left.
TableFull == otherTimers + dequeueTimers >= MaxTimers

\* QueueEnter links the text behind the rear; front is the oldest.
EnterAtFront(q, m) == <<m>> \o q                            \* mutant
QueueEnter(q, m) == Append(q, m)

\* QueueDelete returns 1 when texts remain behind the one it takes.
QueueDeleteAlwaysMore(q) == TRUE                            \* mutant
QueueDeleteLeavesMore(q) == Tail(q) # <<>>

\* module_send_text: the state leaves READY and a send timeout is armed in
\* another slot when there is one (its failure is ignored).
ModuleSendTextNoRoom(m, timersNow) ==                       \* mutant
    /\ handed' = Append(handed, m)
    /\ state' = "SMS"
    /\ otherTimers' = otherTimers + 1
    /\ UNCHANGED <<dialInitiated, registered>>
ModuleSendText(m, timersNow) ==
    /\ handed' = Append(handed, m)
    /\ state' = "SMS"
    /\ otherTimers' = IF otherTimers + timersNow < MaxTimers
                      THEN otherTimers + 1 ELSE otherTimers
    /\ UNCHANGED <<dialInitiated, registered>>

\* The value a call of allogsm_send_text returns, remembered per text.
Returns(m, res) ==
    /\ m = submitted + 1
    /\ submitted' = m
    /\ acked' = IF res = 0 THEN acked \cup {m} ELSE acked
    /\ refused' = IF res = -1 THEN refused \cup {m} ELSE refused
------------------------------------------------------------------------------
\* The first malloc fails.
SendTextNoMemory(m) ==
    /\ Returns(m, -1)
    /\ UNCHANGED <<spanVars, otherTimers, queue, dequeueTimers, handed>>

\* Blocked, empty list: enqueue and start the one-second timer.
SendTextFirstNoTimer(m) ==                                  \* mutant
    /\ Blocked /\ queue = <<>> /\ ~TableFull
    /\ queue' = QueueEnter(queue, m)
    /\ Returns(m, 0)
    /\ UNCHANGED <<spanVars, otherTimers, dequeueTimers, handed>>
SendTextFirst(m) ==
    /\ Blocked /\ queue = <<>> /\ ~TableFull
    /\ queue' = QueueEnter(queue, m)
    /\ dequeueTimers' = dequeueTimers + 1
    /\ Returns(m, 0)
    /\ UNCHANGED <<spanVars, otherTimers, handed>>

\* Blocked, empty list, no timer slot: the text is already in the list when
\* the slot check fails.
SendTextFirstTableFull(m) ==
    /\ Blocked /\ queue = <<>> /\ TableFull
    /\ queue' = QueueEnter(queue, m)
    /\ Returns(m, -1)
    /\ UNCHANGED <<spanVars, otherTimers, dequeueTimers, handed>>

\* A list that is not empty takes the text, blocked or not; res keeps its
\* initial value -1.
SendTextBehindArmsTimer(m) ==                               \* mutant
    /\ queue # <<>>
    /\ queue' = QueueEnter(queue, m)
    /\ dequeueTimers' = dequeueTimers + 1
    /\ Returns(m, -1)
    /\ UNCHANGED <<spanVars, otherTimers, handed>>
SendTextBehind(m) ==
    /\ queue # <<>>
    /\ queue' = QueueEnter(queue, m)
    /\ Returns(m, -1)
    /\ UNCHANGED <<spanVars, otherTimers, dequeueTimers, handed>>

\* The gate is open and nothing waits: straight to the modem.
SendTextNowOvertakes(m) ==                                  \* mutant
    /\ ~Blocked
    /\ ModuleSendText(m, dequeueTimers)
    /\ Returns(m, 0)
    /\ UNCHANGED <<queue, dequeueTimers>>
SendTextNow(m) ==
    /\ ~Blocked /\ queue = <<>>
    /\ ModuleSendText(m, dequeueTimers)
    /\ Returns(m, 0)
    /\ UNCHANGED <<queue, dequeueTimers>>

SendText(m) ==
    \/ SendTextNoMemory(m)
    \/ SendTextFirst(m)
    \/ SendTextFirstTableFull(m)
    \/ SendTextBehind(m)
    \/ SendTextNow(m)
------------------------------------------------------------------------------
\* gsm_dequeue_sms_txt.  __gsm_schedule_run has cleared the slot before the
\* call, so scheduling again always finds one.  It reads queue->front without
\* asking whether there is one.
DequeueBlockedGivesUp ==                                    \* mutant
    /\ dequeueTimers > 0 /\ queue # <<>> /\ Blocked
    /\ dequeueTimers' = dequeueTimers - 1
    /\ UNCHANGED <<spanVars, otherTimers, queue, resultVars, handed>>
DequeueBlocked ==
    /\ dequeueTimers > 0 /\ queue # <<>> /\ Blocked
    /\ dequeueTimers' = (dequeueTimers - 1) + 1
    /\ UNCHANGED <<spanVars, otherTimers, queue, resultVars, handed>>

DequeueSends ==
    /\ dequeueTimers > 0 /\ queue # <<>> /\ ~Blocked
    /\ queue' = Tail(queue)
    /\ dequeueTimers' = IF QueueDeleteLeavesMore(queue)
                        THEN (dequeueTimers - 1) + 1 ELSE dequeueTimers - 1
    /\ ModuleSendText(Head(queue), dequeueTimers')
    /\ UNCHANGED resultVars

DequeueFires == DequeueBlocked \/ DequeueSends
------------------------------------------------------------------------------
\* The text in flight ends, sent or failed.
SmsEnds ==
    /\ state = "SMS"
    /\ state' = "READY"
    /\ UNCHANGED <<dialInitiated, registered, otherTimers, queue, dequeueTimers,
                   resultVars, handed>>

\* Calls, resets and registration change the gate at any time.
SpanMoves ==
    /\ \E s \in {"READY", "BUSY"}, d \in BOOLEAN, r \in BOOLEAN :
          /\ <<s, d, r>> # <<state, dialInitiated, registered>>
          /\ state' = s
          /\ dialInitiated' = d
          /\ registered' = r
    /\ UNCHANGED <<otherTimers, queue, dequeueTimers, resultVars, handed>>

\* Other callbacks take and release slots of the same table.
OtherTimers ==
    /\ \E n \in 0..MaxTimers :
          /\ n # otherTimers
          /\ n + dequeueTimers <= MaxTimers
          /\ otherTimers' = n
    /\ UNCHANGED <<spanVars, queue, dequeueTimers, resultVars, handed>>

Next ==
    \/ \E m \in Msgs : SendText(m)
    \/ DequeueFires
    \/ SmsEnds
    \/ SpanMoves
    \/ OtherTimers

Spec == Init /\ [][Next]_vars

\* The d-channel thread keeps running due timers, and a text in flight ends:
\* the modem answers or gsm_sms_sending_timeout gives up.
LiveSpec == Spec /\ WF_vars(DequeueFires) /\ WF_vars(SmsEnds)
------------------------------------------------------------------------------
TypeOK ==
    /\ state \in {"READY", "SMS", "BUSY"}
    /\ dialInitiated \in BOOLEAN
    /\ registered \in BOOLEAN
    /\ otherTimers \in 0..MaxTimers
    /\ queue \in Seq(Msgs)
    /\ dequeueTimers \in Nat
    /\ submitted \in 0..MaxMsgs
    /\ acked \in SUBSET Msgs
    /\ refused \in SUBSET Msgs
    /\ handed \in Seq(Msgs)

\* All texts taken over, the ones with the modem first.
Line == handed \o queue

\* Texts reach the modem in the order of the calls and never twice, across
\* the direct path and the list.
InOrder == \A i, j \in 1..Len(Line) : i < j => Line[i] < Line[j]

\* At most one dequeue timer is pending, and none without a text to take:
\* gsm_dequeue_sms_txt dereferences queue->front unconditionally.
TimerHasWork ==
    /\ dequeueTimers <= 1
    /\ dequeueTimers = 1 => queue # <<>>

\* A text acknowledged with 0 is with the modem or at the front of a list
\* that a pending timer will drain: the lists left without a timer by a full
\* slot table hold refused texts only.
AckedIsLive ==
    \A m \in acked : \/ m \in Elements(handed)
                     \/ queue # <<>> /\ Head(queue) = m /\ dequeueTimers = 1

\* The header comment of allogsm_send_text: -1 means "can not send sms".  The
\* code does not keep it: a text is queued before the full table is noticed.
RefusedIsNotSent == refused \cap Elements(handed) = {}

\* A list with a timer drains once calls, resets and lost registration stop.
Calm == state # "BUSY" /\ ~dialInitiated /\ registered
Drains == <>[]Calm => [](dequeueTimers > 0 => <>(queue = <<>>))

Fifo == INSTANCE SmsFifo WITH offered <- submitted, waiting <- queue, sent <- handed

\* Direct path, list and timer together implement the abstract pipe of
\* SmsFifo: nothing overtakes, is repeated or disappears once taken over.
ImplementsFifo == Fifo!FifoSpec
==============================================================================
