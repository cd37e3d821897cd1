----------------------------- MODULE CardProofs -----------------------------
(***************************************************************************)
(* What holds of Card for every number of spans and every size: its types, *)
(* that the driver is freed only when its work has ended, and that the     *)
(* spans' audio is not mixed.                                              *)
(***************************************************************************)
EXTENDS Card, TLAPS

\* What the work has counted is still there when it reads, for only it reads.
CountHolds ==
    /\ pc \in {"recount", "read"} => size <= fifo[turn] /\ size > 0
    /\ pc = "rest" => size >= 2 * MaxRead /\ size - MaxRead <= fifo[turn]

IInv == TypeOK /\ CountHolds

USE SpansAssumption, CardAssumption
------------------------------------------------------------------------------
\* A read takes what is there, and the watched byte with it or nearer.
LEMMA TakesKeepsType ==
    ASSUME IInv, NEW n \in Nat, n <= fifo[turn], Takes(n)
    PROVE  /\ fifo' \in [Spans -> 0..FifoSize] /\ mark' \in [Spans -> 0..InBuffer]
           /\ \A s \in Spans : mark'[s] <= fifo'[s] \/ mark'[s] = InBuffer
           /\ fifo'[turn] = fifo[turn] - n
<1> USE DEF IInv, TypeOK, Takes, InBuffer
<1>1. turn \in Spans /\ fifo[turn] \in 0..FifoSize /\ fifo[turn] - n \in 0..FifoSize
  OBVIOUS
<1>2. fifo' \in [Spans -> 0..FifoSize] /\ fifo'[turn] = fifo[turn] - n
  BY <1>1
<1>3. mark' \in [Spans -> 0..InBuffer]
  BY <1>1
<1>4. ASSUME NEW s \in Spans PROVE mark'[s] <= fifo'[s] \/ mark'[s] = InBuffer
  <2>1. CASE s = turn
    BY <2>1, <1>1, <1>2
  <2>2. CASE s # turn
    BY <2>2, <1>1, <1>2
  <2> QED BY <2>1, <2>2
<1> QED BY <1>2, <1>3, <1>4

LEMMA InitIInv == Init => IInv
<1> SUFFICES ASSUME Init PROVE IInv
  OBVIOUS
<1>1. turn \in Spans
  BY DEF Init, Spans
<1>2. \A s \in Spans : mark[s] = 0 /\ fifo[s] \in 0..FifoSize /\ txq[s] = 0
  BY DEF Init
<1>3. mark \in [Spans -> 0..InBuffer] /\ txq \in [Spans -> 0..MaxCommand]
  BY DEF Init, InBuffer
<1>4. TypeOK
  <2>1. \A s \in Spans : mark[s] <= fifo[s]
    BY <1>2
  <2>2. /\ phase \in Phases /\ running \subseteq Spans /\ pc \in Steps
        /\ stopDma \in BOOLEAN /\ pending \in BOOLEAN
    BY Zenon DEF Init, Phases, Steps
  <2>5. size \in 0..FifoSize /\ order \in Orders /\ filled \subseteq Spans \X Orders
    BY DEF Init, Orders
  <2>3. fifo \in [Spans -> 0..FifoSize]
    BY DEF Init
  <2> QED BY <1>1, <1>3, <2>1, <2>2, <2>3, <2>5 DEF TypeOK
<1>5. CountHolds
  BY DEF Init, CountHolds
<1> QED BY <1>4, <1>5 DEF IInv

LEMMA OrdersGoOn == order \in Orders => NextOrder \in Orders
BY DEF Orders, NextOrder, LastOrder

LEMMA NextIInv == IInv /\ [Next]_vars => IInv'
<1> SUFFICES ASSUME IInv, [Next]_vars PROVE IInv'
  OBVIOUS
<1> USE DEF IInv, TypeOK, CountHolds, Phases, Steps, InBuffer, chunkVars
<1>1. ASSUME NEW s \in Spans, Startup(s) \/ Shutdown(s) PROVE IInv'
  BY <1>1 DEF Startup, Shutdown
<1>2. ASSUME NEW s \in Talkers, NEW n \in 1..MaxCommand, Command(s, n) PROVE IInv'
  BY <1>2 DEF Command
<1>3. ASSUME NEW s \in Talkers, Answer(s) PROVE IInv'
  <2>1. s \in Spans /\ fifo[s] + 1 \in 0..FifoSize
    BY <1>3 DEF Answer
  <2>2. fifo' = [fifo EXCEPT ![s] = fifo[s] + 1]
    BY <1>3 DEF Answer
  <2>3. fifo' \in [Spans -> 0..FifoSize] /\ \A t \in Spans : fifo'[t] >= fifo[t]
    BY <2>1, <2>2
  <2>4. mark' \in [Spans -> 0..InBuffer]
    BY <1>3, <2>1 DEF Answer
  <2>5. \A t \in Spans : mark'[t] <= fifo'[t] \/ mark'[t] = InBuffer
    BY <1>3, <2>1, <2>2, <2>3 DEF Answer
  <2> QED BY <1>3, <2>3, <2>4, <2>5 DEF Answer
<1>4. CASE Irq
  BY <1>4 DEF Irq
<1>5. CASE Begin
  BY <1>5 DEF Begin
<1>6. CASE Xmit
  BY <1>6 DEF Xmit
<1>7. CASE Count
  BY <1>7 DEF Count
<1>8. CASE Recount
  BY <1>8 DEF Recount
<1>9. CASE Read
  <2>1. FirstRead \in Nat /\ FirstRead <= fifo[turn]
    BY <1>9 DEF Read, FirstRead
  <2>2. Takes(FirstRead)
    BY <1>9 DEF Read
  <2>3. pc' = "rest" => size >= 2 * MaxRead /\ FirstRead = MaxRead
    BY <1>9 DEF Read, TwoReads, FirstRead
  <2>4. pc' = "rest" => size - MaxRead <= fifo[turn] - FirstRead
    BY <1>9, <2>3 DEF Read
  <2> HIDE DEF FirstRead, TwoReads
  <2> QED BY <1>9, <2>1, <2>2, <2>3, <2>4, TakesKeepsType DEF Read
<1>10. CASE Rest
  <2>1. RestRead \in Nat /\ RestRead <= fifo[turn]
    BY <1>10 DEF Rest, RestRead
  <2>2. Takes(RestRead)
    BY <1>10 DEF Rest
  <2> HIDE DEF RestRead
  <2> QED BY <1>10, <2>1, <2>2, TakesKeepsType DEF Rest
<1>11. CASE Put
  BY <1>11 DEF Put
<1>12. CASE Out
  <2>1. order' \in Orders /\ filled' \subseteq Spans \X Orders
    BY <1>12, OrdersGoOn DEF Out
  <2>2. turn' \in Spans
    BY <1>12 DEF Out, NextTurn, Spans
  <2> QED BY <1>12, <2>1, <2>2 DEF Out
<1>13. CASE Swap \/ In
  BY <1>13, OrdersGoOn DEF Swap, In
<1>14. CASE Removal
  BY <1>14 DEF Removal, Unregister, HardwareStop, FreeIrq, Free
<1>15. CASE UNCHANGED vars
  BY <1>15 DEF vars
<1> QED
  BY <1>1, <1>2, <1>3, <1>4, <1>5, <1>6, <1>7, <1>8, <1>9, <1>10, <1>11, <1>12,
     <1>13, <1>14, <1>15 DEF Next, Work

\* The driver's variables keep their sets: the reads of an answer never take more
\* than the card holds of it, however the two reads and the counts fall.
THEOREM TypeCorrect == Spec => []TypeOK
<1>1. IInv => TypeOK
  BY DEF IInv
<1> QED BY <1>1, InitIInv, NextIInv, PTL DEF Spec
------------------------------------------------------------------------------
\* _g4_remove_one frees the card only when its work is neither queued nor running.
THEOREM FreedUnused == Spec => []FreedIsUnused
<1>1. Init => FreedIsUnused
  BY DEF Init, FreedIsUnused
<1>2. FreedIsUnused /\ [Next]_vars => FreedIsUnused'
  BY DEF FreedIsUnused, Next, Startup, Shutdown, Command, Answer, Irq, Work, Begin,
     Xmit, Count, Recount, Read, Rest, Put, Out, Swap, In, Removal, Unregister,
     HardwareStop, FreeIrq, Free, Flushed, vars, chunkVars
<1> QED BY <1>1, <1>2, PTL DEF Spec
------------------------------------------------------------------------------
(* Audio.  Up to four milliseconds the card's buffers and the channels'    *)
(* chunks share no cell in either direction.                               *)
Disjoint ==
    /\ \A s, t \in Spans, o \in Orders : WriteChunk(s) # TxCell(o, t) /\ ReadChunk(s) # RxCell(o, t)
    /\ \A s, t \in Spans, o, p \in Orders :
          /\ TxCell(o, s) = TxCell(p, t) => o = p /\ s = t
          /\ RxCell(o, s) = RxCell(p, t) => o = p /\ s = t
    /\ \A s, t \in Spans : /\ WriteChunk(s) = WriteChunk(t) => s = t
                          /\ ReadChunk(s) = ReadChunk(t) => s = t

LEMMA FourAreDisjoint == MsPerIrq <= 4 => Disjoint
<1> SUFFICES ASSUME MsPerIrq <= 4
             PROVE  Disjoint
  OBVIOUS
<1>1. MsPerIrq \in 1..4 /\ Spans \subseteq 0..3 /\ Orders \subseteq 0..3
  BY DEF Spans, Orders
<1>2. QED
  BY <1>1 DEF Disjoint, Spans, Orders, WriteChunk, ReadChunk, TxCell, RxCell, ReadsAt

\* What a modem is to be sent is in its buffer, from the millisecond it was
\* filled for until the card has it; what the card gave stays there.
OutHeld == \A f \in filled : mem[TxCell(f[2], f[1])] = <<"out", f[1], f[2]>>
InHeld == \A s \in Spans, o \in Orders : mem[RxCell(o, s)] = <<"in", s, o>>
Passed ==
    /\ pc = "out" => \A f \in filled : f[2] < order
    /\ pc \in {"out", "swap"} => OutHeld
    /\ pc \notin {"out", "swap"} => filled = {}
    /\ pc = "in" => InHeld
    /\ pc \notin {"out", "in"} => order = 0

LEMMA CellsAreThere ==
    ASSUME NEW s \in Spans, NEW o \in Orders
    PROVE  {WriteChunk(s), ReadChunk(s), TxCell(o, s), RxCell(o, s)} \subseteq Cells
<1> DEFINE Of(t, p) == {WriteChunk(t), ReadChunk(t), TxCell(p, t), RxCell(p, t)}
<1>1. Of(s, o) \in {Of(t, p) : t \in Spans, p \in Orders}
  OBVIOUS
<1>2. Cells = UNION {Of(t, p) : t \in Spans, p \in Orders}
  BY DEF Cells
<1> HIDE DEF Of
<1>3. Of(s, o) \subseteq Cells
  BY <1>1, <1>2
<1> QED BY <1>3 DEF Of

\* One millisecond is filled: its own buffer holds what the running spans have
\* now, and the buffers of the others are left alone.
LEMMA FilledCells ==
    ASSUME Disjoint, running \subseteq Spans, order \in Orders
    PROVE  /\ \A s \in running : Filled(running, mem, order)[TxCell(order, s)] = <<"out", s, order>>
           /\ \A s \in Spans, p \in Orders \ {order} : Filled(running, mem, order)[TxCell(p, s)] = mem[TxCell(p, s)]
<1> DEFINE f == [c \in Cells |-> IF \E s \in running : c = WriteChunk(s)
                     THEN <<"out", CHOOSE s \in running : c = WriteChunk(s), order>> ELSE mem[c]]
<1>1. \A s \in Spans, p \in Orders : TxCell(p, s) \in Cells /\ WriteChunk(s) \in Cells
  BY CellsAreThere
<1>2. Filled(running, mem, order) = [c \in Cells |-> IF \E s \in Spans : c = TxCell(order, s)
                         THEN f[WriteChunk(CHOOSE s \in Spans : c = TxCell(order, s))] ELSE f[c]]
  BY DEF Filled
<1>3. ASSUME NEW s \in running
      PROVE  Filled(running, mem, order)[TxCell(order, s)] = <<"out", s, order>>
  <2>1. (CHOOSE t \in Spans : TxCell(order, s) = TxCell(order, t)) = s
    BY DEF Disjoint
  <2>2. (CHOOSE t \in running : WriteChunk(s) = WriteChunk(t)) = s
    BY DEF Disjoint
  <2>3. f[WriteChunk(s)] = <<"out", s, order>>
    BY <1>1, <2>2
  <2> HIDE DEF f
  <2> QED BY <1>1, <1>2, <2>1, <2>3
<1>4. ASSUME NEW s \in Spans, NEW p \in Orders \ {order}
      PROVE  Filled(running, mem, order)[TxCell(p, s)] = mem[TxCell(p, s)]
  <2>1. ~\E t \in Spans : TxCell(p, s) = TxCell(order, t)
    BY DEF Disjoint
  <2>2. ~\E t \in running : TxCell(p, s) = WriteChunk(t)
    BY DEF Disjoint
  <2>3. f[TxCell(p, s)] = mem[TxCell(p, s)]
    BY <1>1, <2>2
  <2> HIDE DEF f
  <2> QED BY <1>1, <1>2, <2>1, <2>3
<1> QED BY <1>3, <1>4

\* What the card gives is each span's own of each millisecond.
LEMMA TakenCells ==
    ASSUME NEW m, NEW s \in Spans, NEW o \in Orders
    PROVE  Taken(m)[RxCell(o, s)] = <<"in", s, o>>
<1>1. RxCell(o, s) \in Cells
  BY CellsAreThere
<1>2. RxCell(o, s) % 4 = s /\ (RxCell(o, s) - RxCell(0, 0)) \div 4 = o
  BY DEF RxCell, ReadsAt, Spans, Orders
<1> QED BY <1>1, <1>2 DEF Taken

\* The chunks get their own and leave the card's buffers alone.
LEMMA ReceivedCells ==
    ASSUME Disjoint, InHeld, NEW o \in Orders
    PROVE  /\ \A s \in Spans : Received(mem, o)[ReadChunk(s)] = <<"in", s, o>>
           /\ \A s \in Spans, p \in Orders : Received(mem, o)[RxCell(p, s)] = <<"in", s, p>>
<1>1. \A s \in Spans, p \in Orders : RxCell(p, s) \in Cells /\ ReadChunk(s) \in Cells
  BY CellsAreThere
<1>2. ASSUME NEW s \in Spans
      PROVE  Received(mem, o)[ReadChunk(s)] = <<"in", s, o>>
  <2>1. (CHOOSE t \in Spans : ReadChunk(s) = ReadChunk(t)) = s
    BY DEF Disjoint
  <2> QED BY <1>1, <2>1 DEF Received, InHeld
<1>3. ASSUME NEW s \in Spans, NEW p \in Orders
      PROVE  Received(mem, o)[RxCell(p, s)] = <<"in", s, p>>
  <2>1. ~\E t \in Spans : RxCell(p, s) = ReadChunk(t)
    BY DEF Disjoint
  <2> QED BY <1>1, <2>1 DEF Received, InHeld
<1> QED BY <1>2, <1>3

LEMMA NextPassed == Disjoint /\ IInv /\ Passed /\ [Next]_vars => Passed'
<1> SUFFICES ASSUME Disjoint, IInv, Passed, [Next]_vars
             PROVE  Passed'
  OBVIOUS
<1>1. running \in SUBSET Spans /\ order \in Orders /\ filled \subseteq Spans \X Orders
  BY DEF IInv, TypeOK
<1>2. CASE Out
  <2>1. \A t \in Spans, p \in Orders \ {order} :
           Filled(running, mem, order)[TxCell(p, t)] = mem[TxCell(p, t)]
    BY <1>1, FilledCells
  <2>2. \A t \in running : Filled(running, mem, order)[TxCell(order, t)] = <<"out", t, order>>
    BY <1>1, FilledCells
  <2>3. OutHeld'
    <3> SUFFICES ASSUME NEW f \in filled'
                 PROVE  mem'[TxCell(f[2], f[1])] = <<"out", f[1], f[2]>>
      BY DEF OutHeld
    <3>1. mem' = Filled(running, mem, order)
      BY <1>2 DEF Out
    <3>2. CASE f \in filled
      <4>1. f[1] \in Spans /\ f[2] \in Orders \ {order}
        BY <1>1, <1>2, <3>2 DEF Out, Passed, Orders
      <4>2. Filled(running, mem, order)[TxCell(f[2], f[1])] = mem[TxCell(f[2], f[1])]
        BY <2>1, <4>1
      <4> QED BY <1>2, <3>1, <3>2, <4>2 DEF Out, Passed, OutHeld
    <3>3. CASE f \in running \X {order}
      <4>1. f[1] \in running /\ f[2] = order
        BY <3>3
      <4>2. Filled(running, mem, order)[TxCell(order, f[1])] = <<"out", f[1], order>>
        BY <2>2, <4>1
      <4> QED BY <3>1, <4>1, <4>2
    <3> QED BY <1>2, <3>2, <3>3 DEF Out
  <2>4. pc' = "out" => \A f \in filled' : f[2] < order'
    <3> SUFFICES ASSUME pc' = "out", NEW f \in filled'
                 PROVE  f[2] < order'
      OBVIOUS
    <3>1. order' = order + 1
      BY <1>2 DEF Out, NextOrder
    <3>2. CASE f \in filled
      BY <1>1, <1>2, <3>1, <3>2 DEF Out, Passed, Orders
    <3>3. CASE f \in running \X {order}
      BY <1>1, <3>1, <3>3 DEF Orders
    <3> QED BY <1>2, <3>2, <3>3 DEF Out
  <2>5. pc' \in {"out", "swap"} /\ (pc' = "swap" => order' = 0)
    BY <1>2 DEF Out, NextOrder
  <2> QED BY <2>3, <2>4, <2>5 DEF Passed
<1>3. CASE Swap
  <2>1. InHeld'
    BY <1>3, TakenCells DEF Swap, InHeld
  <2> QED BY <1>3, <2>1 DEF Swap, Passed
<1>4. CASE In
  <2>1. pc' = "in" => mem' = Received(mem, order)
    BY <1>4 DEF In
  <2>2. InHeld
    BY <1>4 DEF In, Passed
  <2>3. pc' = "in" => InHeld'
    BY <1>1, <2>1, <2>2, ReceivedCells DEF InHeld
  <2>4. pc' \in {"in", "idle"} /\ (pc' = "idle" => order' = 0) /\ filled' = {}
    BY <1>4 DEF In, NextOrder, Passed
  <2> QED BY <2>3, <2>4 DEF Passed
<1>5. CASE Begin \/ Xmit \/ Count \/ Recount \/ Read \/ Rest \/ Put
  <2>1. UNCHANGED chunkVars /\ pc \notin {"out", "swap", "in"} /\ pc' \notin {"swap", "in"}
    BY <1>5 DEF Begin, Xmit, Count, Recount, Read, Rest, Put, chunkVars
  <2> QED BY <2>1 DEF Passed, OutHeld, chunkVars
<1>6. CASE UNCHANGED <<pc, chunkVars>>
  BY <1>6 DEF Passed, OutHeld, InHeld, chunkVars
<1>7. CASE \E s \in Spans : Startup(s) \/ Shutdown(s)
  BY <1>6, <1>7 DEF Startup, Shutdown
<1>8. CASE (\E s \in Talkers, n \in 1..MaxCommand : Command(s, n))
           \/ (\E s \in Talkers : Answer(s)) \/ Irq
  BY <1>6, <1>8 DEF Command, Answer, Irq
<1>9. CASE Removal
  BY <1>6, <1>9 DEF Removal, Unregister, HardwareStop, FreeIrq, Free
<1>10. CASE UNCHANGED vars
  <2>1. UNCHANGED <<pc, chunkVars>>
    BY <1>10 DEF vars, chunkVars
  <2> QED BY <1>6, <2>1
<1> QED
  BY <1>2, <1>3, <1>4, <1>5, <1>7, <1>8, <1>9, <1>10 DEF Next, Work

\* The work sends a modem its own span's audio of each millisecond and hands a
\* span its own modem's, for one to four spans, whoever starts and stops
\* meanwhile.  ms_per_irq is 4 unless the module is loaded with another value;
\* from 8 on the chunks lie in the card's buffers.
THEOREM AudioApart ==
    ASSUME MsPerIrq <= 4
    PROVE  Spec => []OwnAudio
<1>1. Disjoint
  BY MsPerIrq <= 4, FourAreDisjoint
<1>2. Init => Passed
  BY DEF Init, Passed
<1>3. IInv /\ Passed => OwnAudio
  BY <1>1, ReceivedCells DEF IInv, TypeOK, Passed, OutHeld, OwnAudio
<1> QED BY <1>1, <1>2, <1>3, InitIInv, NextIInv, NextPassed, PTL DEF Spec
=============================================================================
