-------------------------------- MODULE Card --------------------------------
(***************************************************************************)
(* The kernel driver of a card (allo2aCG/base.c, private.c): an interrupt  *)
(* every few milliseconds queues one piece of work, which hands the spans' *)
(* commands to the modems, reads the answers of one span in its turn and   *)
(* exchanges the audio of all.  Meanwhile the modems write, processes      *)
(* start and shut down spans, and the driver is removed.  Every access to  *)
(* the card is one step, as spisem makes it.                               *)
(***************************************************************************)
EXTENDS Integers

CONSTANTS NumSpans,   \* numspans, and the 4 of intcount % 4
          MaxRead,    \* MAX_RX_READ
          Piece,      \* the buffer of g4_hdlc_xmit_fifo
          MsPerIrq,   \* ms_per_irq
          FifoSize,   \* of a modem's answers, in the card
          MaxCommand, \* bound: of a command, in bytes
          Talkers     \* bound: the spans with commands and answers

Spans == 0..(NumSpans - 1)
Orders == 0..(MsPerIrq - 1)

ASSUME SpansAssumption == NumSpans \in 1..4
ASSUME CardAssumption ==
    /\ MaxRead \in Nat \ {0} /\ Piece \in Nat \ {0} /\ MsPerIrq \in Nat \ {0}
    /\ FifoSize \in Nat /\ FifoSize > 2 * MaxRead /\ MaxCommand \in Nat
    /\ Talkers \subseteq Spans

VARIABLES
    phase,    \* how far the driver is removed
    running,  \* the spans with DAHDI_FLAG_RUNNING
    stopDma,  \* G4_STOP_DMA
    pending,  \* mykmod_work is queued
    pc,       \* where the work is
    turn,     \* intcount, as far as it counts
    size,     \* readsize, as first asked of the card
    fifo,     \* answers in the card, by span
    mark,     \* the place of one byte of them, 0 if none is watched
    txq,      \* bytes of a command the card has yet to get, by span
    order,    \* the millisecond the exchange of audio is at
    mem,      \* the chunks, while the work exchanges audio
    filled    \* history: <<s, o>> where span s ran when millisecond o was filled

chunkVars == <<order, mem, filled>>
vars == <<phase, running, stopDma, pending, pc, turn, size, fifo, mark, txq, order, mem, filled>>

InBuffer == FifoSize + 1    \* a mark that has been read
Steps == {"idle", "xmit", "count", "recount", "read", "rest", "put", "out", "swap", "in"}
Phases == {"up", "leaving", "stopped", "unhooked", "freed"}

(* The chunks, in cells of DAHDI_CHUNKSIZE bytes from writechunk on.  The  *)
(* card's buffers hold four cells for each millisecond; the channels'      *)
(* chunks are spread over 32 cells a span, so that some chunks that are    *)
(* written lie where others are read.                                      *)
ReadsAt == 16 * MsPerIrq
\* mutant: the channels' chunks lie close together.
WriteChunkClose(s) == 8 * s + 1
WriteChunk(s) == 32 * s + 1
ReadChunk(s) == ReadsAt + 32 * s + 1
TxCell(o, s) == 4 * MsPerIrq + 4 * o + s
RxCell(o, s) == ReadsAt + 4 * MsPerIrq + 4 * o + s
Cells == UNION {{WriteChunk(s), ReadChunk(s), TxCell(o, s), RxCell(o, s)} : s \in Spans, o \in Orders}
Stale == <<"stale", 0, 0>>
Silence == [c \in Cells |-> Stale]

\* What clear_fpga_buff and rw_test_bulk leave in the card is any of it.
Init ==
    /\ phase = "up" /\ running = {} /\ stopDma = FALSE
    /\ pending = FALSE /\ pc = "idle" /\ turn = 0 /\ size = 0
    /\ fifo \in [Spans -> 0..FifoSize] /\ \A s \in Spans \ Talkers : fifo[s] = 0
    /\ mark = [s \in Spans |-> 0] /\ txq = [s \in Spans |-> 0]
    /\ order = 0 /\ mem = Silence /\ filled = {}
------------------------------------------------------------------------------
(* Processes and modems.                                                   *)
Startup(s) ==
    /\ phase = "up"
    /\ running' = running \cup {s}
    /\ UNCHANGED <<phase, stopDma, pending, pc, turn, size, fifo, mark, txq, chunkVars>>

\* mutant: the last span counts alone.
LastDownAny(s) == s = NumSpans - 1
LastDown(s) == running \subseteq {s}

\* Never undone: g4_startup clears another bit.
Shutdown(s) ==
    /\ phase = "up"
    /\ running' = running \ {s}
    /\ stopDma' = (stopDma \/ LastDown(s))
    /\ UNCHANGED <<phase, pending, pc, turn, size, fifo, mark, txq, chunkVars>>

Command(s, n) ==
    /\ phase = "up" /\ s \in running /\ txq[s] = 0
    /\ txq' = [txq EXCEPT ![s] = n]
    /\ UNCHANGED <<phase, running, stopDma, pending, pc, turn, size, fifo, mark, chunkVars>>

\* A modem writes a byte, which may be watched from here on.
Answer(s) ==
    /\ phase # "freed" /\ fifo[s] < FifoSize
    /\ fifo' = [fifo EXCEPT ![s] = @ + 1]
    /\ \/ UNCHANGED mark
       \/ mark[s] = 0 /\ mark' = [mark EXCEPT ![s] = fifo[s] + 1]
    /\ UNCHANGED <<phase, running, stopDma, pending, pc, turn, size, txq, chunkVars>>

\* The handler queues the work, unless it is still queued.
Irq ==
    /\ phase \in {"up", "leaving", "stopped"} /\ ~pending
    /\ pending' = TRUE
    /\ UNCHANGED <<phase, running, stopDma, pc, turn, size, fifo, mark, txq, chunkVars>>
------------------------------------------------------------------------------
(* The work.                                                               *)
Begin ==
    /\ pc = "idle" /\ pending
    /\ pending' = FALSE
    /\ pc' = IF stopDma THEN "idle" ELSE "xmit"
    /\ UNCHANGED <<phase, running, stopDma, turn, size, fifo, mark, txq, chunkVars>>

\* mutant: nothing is sent while answers wait.
XmitsHalf(s) == s \in running /\ fifo[s] = 0
Xmits(s) == s \in running

Xmit ==
    /\ pc = "xmit"
    /\ txq' = [s \in Spans |-> IF Xmits(s) /\ txq[s] > Piece THEN txq[s] - Piece
                               ELSE IF Xmits(s) THEN 0 ELSE txq[s]]
    /\ pc' = "count"
    /\ UNCHANGED <<phase, running, stopDma, pending, turn, size, fifo, mark, chunkVars>>

Count ==
    /\ pc = "count"
    /\ size' = fifo[turn]
    /\ pc' = IF size' = 0 THEN "out" ELSE IF size' <= MaxRead THEN "recount" ELSE "read"
    /\ UNCHANGED <<phase, running, stopDma, pending, turn, fifo, mark, txq, chunkVars>>

\* A short answer to which more has come is left for the span's next turn.
Recount ==
    /\ pc = "recount"
    /\ pc' = IF fifo[turn] > size THEN "out" ELSE "read"
    /\ UNCHANGED <<phase, running, stopDma, pending, turn, size, fifo, mark, txq, chunkVars>>

Takes(n) ==
    /\ fifo' = [fifo EXCEPT ![turn] = @ - n]
    /\ mark' = [mark EXCEPT ![turn] = IF @ \in {0, InBuffer} THEN @
                                      ELSE IF @ <= n THEN InBuffer ELSE @ - n]

FirstRead == IF size > MaxRead THEN MaxRead ELSE size
RestRead == IF size - MaxRead > MaxRead THEN MaxRead ELSE size - MaxRead

\* Twice as much is read only of an answer that fills both reads.
\* mutant: even a short answer is read twice.
TwoReadsAlways == size > 0
TwoReads == size >= 2 * MaxRead

Read ==
    /\ pc = "read"
    /\ Takes(FirstRead)
    /\ pc' = IF TwoReads THEN "rest" ELSE "put"
    /\ UNCHANGED <<phase, running, stopDma, pending, turn, size, txq, chunkVars>>
Rest ==
    /\ pc = "rest"
    /\ Takes(RestRead)
    /\ pc' = "put"
    /\ UNCHANGED <<phase, running, stopDma, pending, turn, size, txq, chunkVars>>

\* dahdi_hdlc_putbuf and dahdi_hdlc_finish.
Put ==
    /\ pc = "put"
    /\ mark' = [mark EXCEPT ![turn] = IF @ = InBuffer THEN 0 ELSE @]
    /\ pc' = "out"
    /\ UNCHANGED <<phase, running, stopDma, pending, turn, size, fifo, txq, chunkVars>>

\* mutant: only an interrupt that read something counts.
NextTurnStays == IF size = 0 THEN turn ELSE (turn + 1) % NumSpans
NextTurn == (turn + 1) % NumSpans

\* For each millisecond DAHDI fills the chunks of the spans that run by then,
\* and those of all are copied for the card.
Filled(r, m, o) ==
    LET f == [c \in Cells |-> IF \E s \in r : c = WriteChunk(s)
                              THEN <<"out", CHOOSE s \in r : c = WriteChunk(s), o>> ELSE m[c]]
    IN  [c \in Cells |-> IF \E s \in Spans : c = TxCell(o, s)
                         THEN f[WriteChunk(CHOOSE s \in Spans : c = TxCell(o, s))] ELSE f[c]]
LastOrder == order = MsPerIrq - 1
NextOrder == IF LastOrder THEN 0 ELSE order + 1

Out ==
    /\ pc = "out"
    /\ pc' = IF LastOrder THEN "swap" ELSE "out"
    /\ order' = NextOrder
    /\ turn' = IF order = 0 THEN NextTurn ELSE turn
    /\ filled' = filled \cup (running \X {order})
    /\ mem' = Filled(running, mem, order)
    /\ UNCHANGED <<phase, running, stopDma, pending, size, fifo, mark, txq>>

\* The card is given the milliseconds of all spans, and gives its own.
Taken(m) == [c \in Cells |-> IF \E o \in Orders, s \in Spans : c = RxCell(o, s)
                             THEN <<"in", c % 4, (c - RxCell(0, 0)) \div 4>> ELSE m[c]]
Swap ==
    /\ pc = "swap"
    /\ pc' = "in"
    /\ filled' = {}
    /\ mem' = Taken(mem)
    /\ UNCHANGED <<phase, running, stopDma, pending, turn, size, fifo, mark, txq, order>>

\* Again for each millisecond the chunks of all spans are copied from what the
\* card gave, and those of the spans that run go to DAHDI.
Received(m, o) ==
    [c \in Cells |-> IF \E s \in Spans : c = ReadChunk(s)
                     THEN m[RxCell(o, CHOOSE s \in Spans : c = ReadChunk(s))] ELSE m[c]]
In ==
    /\ pc = "in"
    /\ pc' = IF LastOrder THEN "idle" ELSE "in"
    /\ order' = NextOrder
    /\ mem' = IF LastOrder THEN Silence ELSE Received(mem, order)
    /\ UNCHANGED <<phase, running, stopDma, pending, turn, size, fifo, mark, txq, filled>>
------------------------------------------------------------------------------
(* Removal of the driver.                                                  *)
\* dahdi_unregister_device shuts down every span that runs.
Unregister ==
    /\ phase = "up"
    /\ phase' = "leaving" /\ running' = {}
    /\ stopDma' = (stopDma \/ running # {})
    /\ UNCHANGED <<pending, pc, turn, size, fifo, mark, txq, chunkVars>>
\* g4_hardware_stop; an interrupt of before may still come.
HardwareStop ==
    /\ phase = "leaving"
    /\ phase' = "stopped" /\ stopDma' = TRUE
    /\ UNCHANGED <<running, pending, pc, turn, size, fifo, mark, txq, chunkVars>>
FreeIrq ==
    /\ phase = "stopped"
    /\ phase' = "unhooked"
    /\ UNCHANGED <<running, stopDma, pending, pc, turn, size, fifo, mark, txq, chunkVars>>
\* mutant: it waits for what is queued but not for what runs.
FlushedQueue == ~pending
Flushed == ~pending /\ pc = "idle"
Free ==
    /\ phase = "unhooked" /\ Flushed
    /\ phase' = "freed"
    /\ UNCHANGED <<running, stopDma, pending, pc, turn, size, fifo, mark, txq, chunkVars>>
------------------------------------------------------------------------------
Work == Begin \/ Xmit \/ Count \/ Recount \/ Read \/ Rest \/ Put \/ Out \/ Swap \/ In
Removal == Unregister \/ HardwareStop \/ FreeIrq \/ Free
Next ==
    \/ \E s \in Spans : Startup(s) \/ Shutdown(s)
    \/ \E s \in Talkers, n \in 1..MaxCommand : Command(s, n)
    \/ \E s \in Talkers : Answer(s)
    \/ Irq \/ Work \/ Removal

Spec == Init /\ [][Next]_vars

\* The card interrupts until it is stopped, and the kernel runs the work.
LiveSpec == Spec /\ WF_vars(Irq) /\ WF_vars(Work)
------------------------------------------------------------------------------
\* The sets the variables are in; a count is never more than the card holds.
TypeOK ==
    /\ phase \in Phases /\ running \subseteq Spans /\ stopDma \in BOOLEAN
    /\ pending \in BOOLEAN /\ pc \in Steps /\ turn \in Spans /\ size \in 0..FifoSize
    /\ fifo \in [Spans -> 0..FifoSize] /\ mark \in [Spans -> 0..InBuffer]
    /\ txq \in [Spans -> 0..MaxCommand]
    /\ \A s \in Spans : mark[s] <= fifo[s] \/ mark[s] = InBuffer
    /\ order \in Orders /\ filled \subseteq Spans \X Orders

\* The driver is freed only when its work is neither queued nor running, whatever
\* interrupts come while it stops.
FreedIsUnused == phase = "freed" => ~pending /\ pc = "idle"

\* A modem is sent the audio its own span had when it was filled, and a span is
\* handed its own modem's of each millisecond, though the chunks of one span are
\* laid over those of another.
OwnAudio ==
    /\ pc = "swap" => \A f \in filled : mem[TxCell(f[2], f[1])] = <<"out", f[1], f[2]>>
    /\ pc = "in" => \A s \in Spans : Received(mem, order)[ReadChunk(s)] = <<"in", s, order>>

\* Every byte a modem writes is handed to DAHDI, however much follows it and
\* whoever else writes, unless the card is stopped.
Served == \A s \in Talkers : mark[s] # 0 ~> mark[s] = 0 \/ stopDma

\* Every command is given to the card, unless its span is shut down or the card
\* is stopped.
Sent == \A s \in Talkers : txq[s] > 0 ~> txq[s] = 0 \/ s \notin running \/ stopDma
=============================================================================
