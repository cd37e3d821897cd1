------------------------------ MODULE MCTexts -------------------------------
(* Values for Texts: small limits and texts that reach them.               *)
EXTENDS Texts

\* Escapes across a part's end, and characters of two and three bytes.
MCMessages == {<<97, 123, 98, 123>>, <<195, 169, 97, 228, 189, 160>>}
MCPhoneTexts == {<<64, 98>>}
MCOwn == <<Plus, 4, 9, 1>>
MCPhone == <<Plus, 4, 9, 2, 2>>
MCNoSmsc == <<>>

\* What the theorems about the parts and the events ask of the texts and the numbers.
ASSUME MessagesRecoverable ==
    /\ MCOwn # <<Plus>> /\ MCPhone # <<Plus>>
    /\ \A text \in MCPhoneTexts :
          /\ Recoverable(text)
          /\ Len(IF IsAscii(text) THEN ToSeptets[text] ELSE ToUnits[text]) <= 255
    /\ \A text \in MCMessages :
          Recoverable(text) /\ \A cmd \in {"file", "sms"} : Len(Parts(cmd, text).parts) <= 255
=============================================================================
