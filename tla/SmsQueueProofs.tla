--------------------------- MODULE SmsQueueProofs ----------------------------
(***************************************************************************)
(* Proofs about SmsQueue for every number of texts and every size of the   *)
(* timer table.                                                            *)
(***************************************************************************)
EXTENDS SmsQueue, SequenceTheorems, TLAPS

(***************************************************************************)
(* Type correctness.                                                       *)
(***************************************************************************)
LEMMA TypeInit == Init => TypeOK
<1> SUFFICES ASSUME Init
             PROVE  TypeOK
  OBVIOUS
<1>1. queue \in Seq(Msgs) /\ handed \in Seq(Msgs)
  BY DEF Init
<1>2. /\ otherTimers \in 0..MaxTimers
      /\ dequeueTimers \in Nat
      /\ submitted \in 0..MaxMsgs
  BY SmsQueueAssumption DEF Init
<1>3. QED
  BY <1>1, <1>2 DEF Init, TypeOK

LEMMA TypeStep == TypeOK /\ [Next]_vars => TypeOK'
<1> SUFFICES ASSUME TypeOK, [Next]_vars
             PROVE  TypeOK'
  OBVIOUS
<1> USE SmsQueueAssumption DEF TypeOK, spanVars, resultVars, Msgs
<1>1. CASE \E m \in Msgs : SendText(m)
  <2> PICK m \in Msgs : SendText(m)
    BY <1>1
  <2>1. Append(queue, m) \in Seq(Msgs) /\ Append(handed, m) \in Seq(Msgs)
    OBVIOUS
  <2>2. CASE SendTextNoMemory(m)
    BY <2>2 DEF SendTextNoMemory, Returns
  <2>3. CASE SendTextFirst(m)
    BY <2>1, <2>3 DEF SendTextFirst, Returns, QueueEnter
  <2>4. CASE SendTextFirstTableFull(m)
    BY <2>1, <2>4 DEF SendTextFirstTableFull, Returns, QueueEnter
  <2>5. CASE SendTextBehind(m)
    BY <2>1, <2>5 DEF SendTextBehind, Returns, QueueEnter
  <2>6. CASE SendTextNow(m)
    <3>1. otherTimers' \in 0..MaxTimers
      BY <2>6 DEF SendTextNow, ModuleSendText
    <3>2. QED
      BY <2>1, <2>6, <3>1 DEF SendTextNow, Returns, ModuleSendText
  <2>7. QED
    BY <2>2, <2>3, <2>4, <2>5, <2>6 DEF SendText
<1>2. CASE DequeueBlocked
  BY <1>2 DEF DequeueBlocked
<1>3. CASE DequeueSends
  <2>1. Head(queue) \in Msgs /\ Tail(queue) \in Seq(Msgs)
    BY <1>3, HeadTailProperties DEF DequeueSends
  <2>2. Append(handed, Head(queue)) \in Seq(Msgs)
    BY <2>1
  <2>3. QED
    BY <1>3, <2>1, <2>2 DEF DequeueSends, ModuleSendText
<1>4. CASE SmsEnds
  BY <1>4 DEF SmsEnds
<1>5. CASE SpanMoves
  BY <1>5 DEF SpanMoves
<1>6. CASE OtherTimers
  BY <1>6 DEF OtherTimers
<1>7. CASE UNCHANGED vars
  BY <1>7 DEF vars
<1>8. QED
  BY <1>1, <1>2, <1>3, <1>4, <1>5, <1>6, <1>7 DEF Next, DequeueFires

\* Every variable keeps its type, whatever the interleaving of calls, timer
\* callbacks and changes of the span.
THEOREM Typing == Spec => []TypeOK
  BY TypeInit, TypeStep, PTL DEF Spec

(***************************************************************************)
(* The dequeue timer.                                                      *)
(***************************************************************************)
LEMMA TimerStep == TypeOK /\ TimerHasWork /\ [Next]_vars => TimerHasWork'
<1> SUFFICES ASSUME TypeOK, TimerHasWork, [Next]_vars
             PROVE  TimerHasWork'
  OBVIOUS
<1> USE DEF TypeOK, TimerHasWork, spanVars, resultVars, Msgs
<1>1. CASE \E m \in Msgs : SendText(m)
  <2> PICK m \in Msgs : SendText(m)
    BY <1>1
  <2>1. Append(queue, m) # <<>>
    BY AppendProperties
  <2>2. CASE SendTextNoMemory(m)
    BY <2>2 DEF SendTextNoMemory
  <2>3. CASE SendTextFirst(m)
    BY <2>1, <2>3 DEF SendTextFirst, QueueEnter
  <2>4. CASE SendTextFirstTableFull(m)
    BY <2>1, <2>4 DEF SendTextFirstTableFull, QueueEnter
  <2>5. CASE SendTextBehind(m)
    BY <2>1, <2>5 DEF SendTextBehind, QueueEnter
  <2>6. CASE SendTextNow(m)
    BY <2>6 DEF SendTextNow
  <2>7. QED
    BY <2>2, <2>3, <2>4, <2>5, <2>6 DEF SendText
<1>2. CASE DequeueBlocked
  BY <1>2 DEF DequeueBlocked
<1>3. CASE DequeueSends
  BY <1>3 DEF DequeueSends, QueueDeleteLeavesMore
<1>4. CASE SmsEnds \/ SpanMoves \/ OtherTimers \/ UNCHANGED vars
  BY <1>4 DEF SmsEnds, SpanMoves, OtherTimers, vars
<1>5. QED
  BY <1>1, <1>2, <1>3, <1>4 DEF Next, DequeueFires

\* gsm_dequeue_sms_txt never runs on an empty list, and never twice at once:
\* its unconditional access to queue->front is safe.
THEOREM TimerSafety == Spec => []TimerHasWork
<1>1. Init => TimerHasWork
  BY DEF Init, TimerHasWork
<1>2. QED
  BY <1>1, TimerStep, Typing, PTL DEF Spec

(***************************************************************************)
(* Order.  Every step leaves Line alone or appends the text of the call,   *)
(* which is larger than all texts before it.                               *)
(***************************************************************************)
Bounded == \A i \in 1..Len(Line) : Line[i] <= submitted
OrderInv == InOrder /\ Bounded

\* How one step changes the line: not at all, or by the text just offered.
LineGrows ==
    \/ Line' = Line /\ submitted' \in {submitted, submitted + 1}
    \/ /\ submitted' = submitted + 1
       /\ Line' = Append(Line, submitted')

LEMMA LineStep == TypeOK /\ [Next]_vars => LineGrows
<1> SUFFICES ASSUME TypeOK, [Next]_vars
             PROVE  LineGrows
  OBVIOUS
<1> USE DEF Line, LineGrows, spanVars, resultVars
<1>0. /\ queue \in Seq(Msgs)
      /\ handed \in Seq(Msgs)
      /\ submitted \in Nat
  BY SmsQueueAssumption DEF TypeOK
<1>1. CASE \E m \in Msgs : SendText(m)
  <2> PICK m \in Msgs : SendText(m)
    BY <1>1
  <2>1. handed \o Append(queue, m) = Append(handed \o queue, m)
    BY <1>0 DEF Msgs
  <2>2. queue = <<>> => Append(handed, m) \o queue = Append(handed \o queue, m)
    BY <1>0 DEF Msgs
  <2>3. CASE SendTextNoMemory(m)
    BY <2>3 DEF SendTextNoMemory, Returns
  <2>4. CASE SendTextFirst(m)
    BY <2>1, <2>4 DEF SendTextFirst, Returns, QueueEnter
  <2>5. CASE SendTextFirstTableFull(m)
    BY <2>1, <2>5 DEF SendTextFirstTableFull, Returns, QueueEnter
  <2>6. CASE SendTextBehind(m)
    BY <2>1, <2>6 DEF SendTextBehind, Returns, QueueEnter
  <2>7. CASE SendTextNow(m)
    BY <2>2, <2>7 DEF SendTextNow, Returns, ModuleSendText
  <2>8. QED
    BY <2>3, <2>4, <2>5, <2>6, <2>7 DEF SendText
<1>2. CASE DequeueSends
  <2>1. queue # <<>>
    BY <1>2 DEF DequeueSends
  <2>2. Append(handed, Head(queue)) \o Tail(queue) = handed \o queue
    BY <1>0, <2>1 DEF Msgs
  <2>3. QED
    BY <1>2, <2>2 DEF DequeueSends, ModuleSendText
<1>3. CASE DequeueBlocked \/ SmsEnds \/ SpanMoves \/ OtherTimers \/ UNCHANGED vars
  BY <1>3 DEF DequeueBlocked, SmsEnds, SpanMoves, OtherTimers, vars
<1>4. QED
  BY <1>1, <1>2, <1>3 DEF Next, DequeueFires

LEMMA OrderStep == TypeOK /\ OrderInv /\ [Next]_vars => OrderInv'
<1> SUFFICES ASSUME TypeOK, OrderInv, LineGrows
             PROVE  OrderInv'
  BY LineStep
<1>0. Line \in Seq(Int) /\ submitted \in Nat
  BY SmsQueueAssumption DEF TypeOK, Line, Msgs
<1>1. CASE Line' = Line /\ submitted' \in {submitted, submitted + 1}
  <2> DEFINE L == Line
  <2>1. Line' = L /\ L \in Seq(Int)
    BY <1>0, <1>1
  <2>2. /\ \A i, j \in 1..Len(L) : i < j => L[i] < L[j]
        /\ \A i \in 1..Len(L) : L[i] <= submitted
    BY DEF OrderInv, InOrder, Bounded
  <2> HIDE DEF L
  <2>3. InOrder'
    BY <2>1, <2>2 DEF InOrder
  <2>4. \A i \in 1..Len(L) : L[i] <= submitted'
    BY <1>0, <1>1, <2>1, <2>2
  <2>5. Bounded'
    BY <2>1, <2>4 DEF Bounded
  <2>6. QED
    BY <2>3, <2>5 DEF OrderInv
<1>2. CASE submitted' = submitted + 1 /\ Line' = Append(Line, submitted')
  <2> DEFINE L == Line
             M == Line'
  <2>1. /\ L \in Seq(Int)
        /\ M = Append(L, submitted + 1)
    BY <1>0, <1>2
  <2>2. /\ \A i, j \in 1..Len(L) : i < j => L[i] < L[j]
        /\ \A i \in 1..Len(L) : L[i] <= submitted
    BY DEF OrderInv, InOrder, Bounded
  <2>a. InOrder' = (\A i, j \in 1..Len(M) : i < j => M[i] < M[j])
    BY DEF InOrder
  <2>b. Bounded' = (\A i \in 1..Len(M) : M[i] <= submitted')
    BY DEF Bounded
  <2> HIDE DEF L, M
  <2>3. /\ Len(M) = Len(L) + 1
        /\ \A i \in 1..Len(L) : M[i] = L[i]
        /\ M[Len(L) + 1] = submitted + 1
        /\ Len(L) \in Nat
        /\ \A i \in 1..Len(L) : L[i] \in Int
    BY <1>0, <2>1
  <2>4. \A i, j \in 1..Len(M) : i < j => M[i] < M[j]
    BY <1>0, <2>2, <2>3
  <2>5. \A i \in 1..Len(M) : M[i] <= submitted + 1
    BY <1>0, <2>2, <2>3
  <2>6. QED
    BY <1>2, <2>a, <2>b, <2>4, <2>5 DEF OrderInv
<1>3. QED
  BY <1>1, <1>2 DEF LineGrows

\* Texts reach the modem in the order of the calls, none of them twice.
THEOREM Ordering == Spec => []InOrder
<1>1. Init => OrderInv
  BY DEF Init, OrderInv, InOrder, Bounded, Line
<1>2. OrderInv => InOrder
  BY DEF OrderInv
<1>3. QED
  BY <1>1, <1>2, OrderStep, Typing, PTL DEF Spec

(***************************************************************************)
(* Acknowledged texts.                                                     *)
(***************************************************************************)
LEMMA ElementsAppend ==
    ASSUME NEW s \in Seq(Msgs), NEW m \in Msgs
    PROVE  Elements(Append(s, m)) = Elements(s) \cup {m}
<1>1. /\ Len(Append(s, m)) = Len(s) + 1
      /\ \A i \in 1..Len(s) : Append(s, m)[i] = s[i]
      /\ Append(s, m)[Len(s) + 1] = m
      /\ Len(s) \in Nat
  OBVIOUS
<1>2. QED
  BY <1>1 DEF Elements

LEMMA AckedStep ==
    TypeOK /\ TimerHasWork /\ AckedIsLive /\ [Next]_vars => AckedIsLive'
<1> SUFFICES ASSUME TypeOK, TimerHasWork, AckedIsLive, [Next]_vars
             PROVE  AckedIsLive'
  OBVIOUS
<1> USE DEF AckedIsLive, spanVars, resultVars
<1>0. /\ queue \in Seq(Msgs)
      /\ handed \in Seq(Msgs)
      /\ dequeueTimers \in Nat
  BY DEF TypeOK
<1>1. CASE \E m \in Msgs : SendText(m)
  <2> PICK m \in Msgs : SendText(m)
    BY <1>1
  <2>1. /\ Append(queue, m) # <<>>
        /\ queue # <<>> => Head(Append(queue, m)) = Head(queue)
        /\ queue = <<>> => Head(Append(queue, m)) = m
    BY <1>0
  <2>2. CASE SendTextNoMemory(m)
    BY <2>2 DEF SendTextNoMemory, Returns
  <2>3. CASE SendTextFirst(m)
    <3>1. dequeueTimers' = 1
      BY <1>0, <2>3 DEF SendTextFirst, TimerHasWork
    <3>2. QED
      BY <2>1, <2>3, <3>1 DEF SendTextFirst, Returns, QueueEnter
  <2>4. CASE SendTextFirstTableFull(m)
    BY <2>4 DEF SendTextFirstTableFull, Returns
  <2>5. CASE SendTextBehind(m)
    BY <2>1, <2>5 DEF SendTextBehind, Returns, QueueEnter
  <2>6. CASE SendTextNow(m)
    BY <1>0, <2>6, ElementsAppend DEF SendTextNow, Returns, ModuleSendText
  <2>7. QED
    BY <2>2, <2>3, <2>4, <2>5, <2>6 DEF SendText
<1>2. CASE DequeueBlocked
  BY <1>0, <1>2 DEF DequeueBlocked
<1>3. CASE DequeueSends
  <2>1. Head(queue) \in Msgs
    BY <1>0, <1>3 DEF DequeueSends
  <2>2. Elements(handed') = Elements(handed) \cup {Head(queue)}
    BY <1>0, <1>3, <2>1, ElementsAppend DEF DequeueSends, ModuleSendText
  <2>3. QED
    BY <1>3, <2>2 DEF DequeueSends
<1>4. CASE SmsEnds \/ SpanMoves \/ OtherTimers \/ UNCHANGED vars
  BY <1>4 DEF SmsEnds, SpanMoves, OtherTimers, vars
<1>5. QED
  BY <1>1, <1>2, <1>3, <1>4 DEF Next, DequeueFires

\* A text whose call returned 0 is with the modem, or next in a list that has
\* its timer: no full slot table and no failed call strands it.
THEOREM AckedSafety == Spec => []AckedIsLive
<1>1. Init => AckedIsLive
  BY DEF Init, AckedIsLive
<1>2. QED
  BY <1>1, AckedStep, Typing, TimerSafety, PTL DEF Spec

(***************************************************************************)
(* Refinement of the abstract pipe.                                        *)
(***************************************************************************)
LEMMA FifoStep == TypeOK /\ [Next]_vars => [Fifo!FifoNext]_(Fifo!fifoVars)
<1> SUFFICES ASSUME TypeOK, [Next]_vars
             PROVE  [Fifo!FifoNext]_(Fifo!fifoVars)
  OBVIOUS
<1> USE DEF Fifo!fifoVars, spanVars, resultVars
<1>1. CASE \E m \in Msgs : SendText(m)
  <2> PICK m \in Msgs : SendText(m)
    BY <1>1
  <2>1. ASSUME Returns(m, 0) \/ Returns(m, -1)
        PROVE  Fifo!Offer(m)
    BY <2>1, SmsQueueAssumption DEF Returns, Fifo!Offer, TypeOK, Msgs
  <2>2. CASE SendTextNoMemory(m)
    BY <2>1, <2>2 DEF SendTextNoMemory, Fifo!FifoNext, Fifo!Drop, Msgs
  <2>3. CASE SendTextFirst(m) \/ SendTextFirstTableFull(m) \/ SendTextBehind(m)
    BY <2>1, <2>3 DEF SendTextFirst, SendTextFirstTableFull, SendTextBehind,
                      QueueEnter, Fifo!FifoNext, Fifo!Accept, Msgs
  <2>4. CASE SendTextNow(m)
    BY <2>1, <2>4 DEF SendTextNow, ModuleSendText,
                      Fifo!FifoNext, Fifo!PassDirectly, Msgs
  <2>5. QED
    BY <2>2, <2>3, <2>4 DEF SendText
<1>2. CASE DequeueSends
  BY <1>2 DEF DequeueSends, ModuleSendText, Fifo!FifoNext, Fifo!PassOldest
<1>3. CASE DequeueBlocked \/ SmsEnds \/ SpanMoves \/ OtherTimers \/ UNCHANGED vars
  BY <1>3 DEF DequeueBlocked, SmsEnds, SpanMoves, OtherTimers, vars
<1>4. QED
  BY <1>1, <1>2, <1>3 DEF Next, DequeueFires

\* Direct path, list and timer implement the abstract pipe: initial states map
\* to initial states, every step to a step of SmsFifo or a stutter.
THEOREM Refinement == Spec => ImplementsFifo
<1>1. Init => Fifo!FifoInit
  BY DEF Init, Fifo!FifoInit
<1>2. QED
  BY <1>1, FifoStep, Typing, PTL DEF Spec, ImplementsFifo, Fifo!FifoSpec
==============================================================================
