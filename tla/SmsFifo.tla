------------------------------- MODULE SmsFifo -------------------------------
(***************************************************************************)
(* What the SMS queue of a span promises to the callers of                 *)
(* allogsm_send_text: every offered text is either dropped at once or      *)
(* passed to the modem exactly once, in the order of the offers.  Texts    *)
(* are numbered by the order in which they are offered.  The value a call  *)
(* returns is not part of this promise.  SmsQueue implements it.           *)
(***************************************************************************)
EXTENDS Naturals, Sequences

CONSTANT MaxMsgs        \* how many texts are offered at most

VARIABLES offered,      \* number of texts offered so far
          waiting,      \* texts taken over and not yet passed on
          sent          \* texts passed to the modem

fifoVars == <<offered, waiting, sent>>

FifoInit ==
    /\ offered = 0
    /\ waiting = <<>>
    /\ sent = <<>>

Offer(m) ==
    /\ offered < MaxMsgs
    /\ m = offered + 1
    /\ offered' = m

Drop(m) ==
    /\ Offer(m)
    /\ UNCHANGED <<waiting, sent>>

Accept(m) ==
    /\ Offer(m)
    /\ waiting' = Append(waiting, m)
    /\ UNCHANGED sent

PassDirectly(m) ==
    /\ Offer(m)
    /\ waiting = <<>>
    /\ sent' = Append(sent, m)
    /\ UNCHANGED waiting

PassOldest ==
    /\ waiting # <<>>
    /\ sent' = Append(sent, Head(waiting))
    /\ waiting' = Tail(waiting)
    /\ UNCHANGED offered

FifoNext ==
    \/ \E m \in 1..MaxMsgs : Drop(m) \/ Accept(m) \/ PassDirectly(m)
    \/ PassOldest

FifoSpec == FifoInit /\ [][FifoNext]_fifoVars
==============================================================================
