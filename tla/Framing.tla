------------------------------ MODULE Framing -------------------------------
(***************************************************************************)
(* How the bytes of a modem become lines: allogsm_check_event collects     *)
(* what it reads until a line ends, gsm_san takes the lines off.  A buffer *)
(* is a sequence of characters, of which these four matter here.           *)
(***************************************************************************)
EXTENDS Integers, SequencesExt

CR == -1
LF == -2
GT == -3
SP == -4
Ends == {CR, LF}
Prompts == {<<GT>>, <<GT, SP>>, <<GT, SP, SP>>}

\* allogsm_check_event: what is collected goes to module_receive at the end of
\* a line; while a text waits for its prompt also with '>' one before the end,
\* or as the first of two characters at most.
Passes(acc, sending) ==
    /\ acc # <<>>
    /\ \/ Last(acc) \in Ends
       \/ sending /\ acc[IF Len(acc) > 2 THEN Len(acc) - 1 ELSE 1] = GT

\* A read that does not fit drops itself and what was collected.
Collects(acc, chunk, capacity) == IF Len(acc) + Len(chunk) > capacity THEN <<>> ELSE acc \o chunk

\* gsm_san on the buffer b, which it has appended to: the line and what stays.
\* A line ends at a CR, and the LF behind it goes with it; a prompt needs no end.
\* With neither, what is behind the leading line ends is given out but stays.
San[b \in Seq(Int)] ==
    LET skip == SelectInSeq(Append(b, 0), LAMBDA c : c \notin Ends) - 1
        end == SelectInSubSeq(b, skip + 1, Len(b), LAMBDA c : c = CR)
        behind == SubSeq(b, skip + 1, Len(b))
        next == IF end < Len(b) /\ b[end + 1] = LF THEN end + 2 ELSE end
    IN  CASE end > 0 -> [line |-> SubSeq(b, skip + 1, end - 1),
                         rest |-> SubSeq(b, next, Len(b)), more |-> TRUE]
          [] end = 0 /\ behind \in Prompts -> [line |-> behind, rest |-> <<>>, more |-> TRUE]
          [] end = 0 /\ behind = <<>> -> [line |-> <<>>, rest |-> <<>>, more |-> FALSE]
          [] OTHER -> [line |-> behind, rest |-> b, more |-> FALSE]
=============================================================================
