------------------------------- MODULE Texts --------------------------------
(***************************************************************************)
(* A text's whole way: a command splits it into parts and encodes each     *)
(* (PduCodec), the span sends them one by one at the modem's prompt, the   *)
(* network delivers them in any order, and the reading thread cuts what    *)
(* the modem writes into lines (Framing) and decodes them into events.     *)
(* The texts go to the gateway's own number, so that one span plays both   *)
(* ends; a phone sends to it too.                                          *)
(***************************************************************************)
EXTENDS PduCodec, Framing, FiniteSets

CONSTANTS Commands,     \* of "file", "sms", "app", "forward"
          Messages,     \* the texts the commands are given
          PhoneTexts,   \* the texts the phone sends
          Smsc,         \* the configured centre, <<>> if none
          Own, Phone,   \* the numbers of the span and of the phone
          Modes,        \* of "pdu", "text": how the modem reports a phone's text
          Length7,      \* PDU_LENGTH_7BIT
          LengthUcs2,   \* PDU_LENGTH_UCS2
          Capacity,     \* of at_last_recv, in characters
          Ahead,        \* bound: the modem writes no more than this ahead of the reader
          MaxTexts      \* bound: texts asked of the span or sent by the phone

\* Numbers have digits, behind a plus or not; texts are strings of bytes that are
\* not empty; a length and what the header adds to it fit into an octet.
IsNumber(n) == n \in Seq(0..9 \cup {Plus}) /\ ValidNumber(n) /\ Len(n) <= 255
ASSUME NumbersAssumption ==
    IsNumber(Own) /\ IsNumber(Phone) /\ (Smsc = <<>> \/ IsNumber(Smsc))
ASSUME TextsAssumption ==
    /\ Commands \subseteq {"file", "sms", "app", "forward"} /\ Modes \subseteq {"pdu", "text"}
    /\ Messages \cup PhoneTexts \subseteq Seq(1..255) \ {<<>>}
\* What a modem in text mode writes of a text has no line end and no '>' of its own.
ASSUME LinesAssumption ==
    "text" \in Modes => \A text \in PhoneTexts : ToSet(text) \cap {10, 13, 62} = {}
ASSUME LimitsAssumption == Length7 \in 4..248 /\ LengthUcs2 \in 4..Length7
\* Header and TextHeader, below, name texts 1 to 99 by characters of their own.
ASSUME HeadersAssumption == MaxTexts \in 0..99

VARIABLES
    asked,    \* history: the texts, in the order they were given
    todo,     \* the encoded parts that wait in the span
    sending,  \* the part the modem is to prompt for, at most one
    air,      \* the parts the network holds
    stream,   \* what the modem has written and nobody has read, in chunks
    acc,      \* at_last_recv
    san,      \* sanbuf
    inbox,    \* the events, in their order
    apart     \* history: texts whose header line came without its body

vars == <<asked, todo, sending, air, stream, acc, san, inbox, apart>>

\* A header line of a reported text, one character here that names the text.
Header(id) == -100 - id
TextHeader(id) == -200 - id
IsHeader(c) == c <= -100
IdOf(c) == IF c <= -200 THEN -200 - c ELSE -100 - c

Init ==
    /\ asked = <<>> /\ todo = {} /\ sending = {} /\ air = {}
    /\ stream = <<>> /\ acc = <<>> /\ san = <<>>
    /\ inbox = <<>> /\ apart = {}
------------------------------------------------------------------------------
(* Splitting, one byte after another: need is what a byte asks for, grows  *)
(* what it adds, by byte.                                                  *)
Split(text, need, grows, limit) ==
    LET Put(s, b) ==
            IF s.size + need[b] <= limit
            THEN [parts |-> Append(Front(s.parts), Append(Last(s.parts), b)),
                  size |-> s.size + grows[b]]
            ELSE [parts |-> Append(s.parts, <<b>>), size |-> grows[b]]
        upTo[i \in 0..Len(text)] ==
            IF i = 0 THEN [parts |-> <<<<>>>>, size |-> 0] ELSE Put(upTo[i - 1], text[i])
    IN  upTo[Len(text)].parts

IsAscii(text) == \A i \in DOMAIN text : text[i] < 128
Continues(b) == 128 <= b /\ b < 192
\* mutant: an escape is counted as one septet.
EscapeLengthOne(b) == 1
EscapeLength(b) == IF \E e \in Escapes : e[1] = b THEN 2 ELSE 1
UnitLength(b) == IF Continues(b) THEN 0 ELSE 2
Escaped == [b \in 0..255 |-> EscapeLength(b)]
Units == [b \in 0..255 |-> UnitLength(b)]
\* UTF-8 of characters of three bytes at most: what continues a character is
\* behind its first byte, and all of it is there.
WellFormed(text) ==
    \A i \in DOMAIN text :
        /\ text[i] < 240
        /\ Continues(text[i]) <=> (i > 1 /\ text[i - 1] >= 192) \/ (i > 2 /\ text[i - 2] >= 224)
        /\ (text[i] >= 192 => i < Len(text)) /\ (text[i] >= 224 => i + 1 < Len(text))
\* The characters the tables of the 7-bit alphabet have a place for.
SevenBit == 0..127
Alphabet ==
    {c \in SevenBit : (\E e \in Escapes : e[1] = c) \/ (\E v \in SevenBit : Ascii(v) = c)}
\* UTF-8 in its shortest form, and no surrogate: what has a unit of its own.
Shortest(text) ==
    \A i \in DOMAIN text :
        /\ text[i] \notin {192, 193} /\ (text[i] = 224 => text[i + 1] >= 160)
        /\ (text[i] = 237 => text[i + 1] < 160)
\* What both alphabets can give back.
Recoverable(text) ==
    /\ WellFormed(text) /\ Shortest(text)
    /\ \A i \in DOMAIN text : text[i] < 128 => text[i] \in Alphabet
\* The bytes of a character that starts with b.
Octets8(b) == CASE b \in 192..223 -> 2
                [] b \in 224..239 -> 3
                [] b \in 240..247 -> 4
                [] OTHER -> 1
Wide == [b \in 0..255 |-> Octets8(b)]

\* handle_gsm_send_sms_file, and what it encodes with.
FileParts(text) ==
    IF IsAscii(text) /\ \A i \in DOMAIN text : text[i] # 96
    THEN [coding |-> "ASCII", parts |-> Split(text, Escaped, Escaped, Length7)]
    ELSE [coding |-> "UTF-8", parts |-> Split(text, Units, Units, LengthUcs2)]
\* handle_gsm_send_sms, with UTF-8 as the configured coding: two for each
\* character in both alphabets.
SmsParts(text) ==
    [coding |-> "UTF-8",
     parts |-> Split(text, Units, Units,
                     IF IsAscii(text) THEN Length7 ELSE LengthUcs2)]
\* sendsms_exec without an ID: total is the index of the last part, and the
\* loop that sends ends before it.
AppParts(text) ==
    [coding |-> "UTF-8", parts |-> Front(Split(text, Wide, [b \in 0..255 |-> 1], Length7))]
Parts(cmd, text) == CASE cmd = "file" -> FileParts(text)
                      [] cmd = "sms" -> SmsParts(text)
                      [] cmd = "app" -> AppParts(text)

\* What allogsm_send_pdu keeps of a PDU: the number it would file a failed text
\* under and the length it announces to the modem.
Queued(id, part, pdu) ==
    [id |-> id, part |-> part, pdu |-> pdu, number |-> SendNumber(pdu),
     len |-> (Len(pdu) \div 2) - 1 - Byte(pdu, 1)]

Ask(cmd, text) ==
    LET p == Parts(cmd, text)
        id == Len(asked) + 1
        n == Len(p.parts)
        Pdu(i) == EncodeText(Smsc, Own, p.coding, p.parts[i], i, n)
    IN  /\ cmd \in Commands \ {"forward"} /\ Len(asked) < MaxTexts
        /\ asked' = Append(asked, [cmd |-> cmd, text |-> text, plain |-> TRUE])
        /\ todo' = todo \cup {Queued(id, i, Pdu(i)) : i \in 1..n}
        /\ UNCHANGED <<sending, air, stream, acc, san, inbox, apart>>

\* forwardsms_exec, of an event that came as a PDU: to the span's own number.
Forward(k) ==
    LET id == Len(asked) + 1
    IN  /\ "forward" \in Commands /\ Len(asked) < MaxTexts
        /\ inbox[k].pdu # <<>>
        /\ asked' = Append(asked, [cmd |-> "forward", text |-> inbox[k].text,
                                  plain |-> inbox[k].total = 0])
        /\ todo' = todo \cup {Queued(id, 1, ForwardPdu(inbox[k].pdu, Own, Smsc))}
        /\ UNCHANGED <<sending, air, stream, acc, san, inbox, apart>>
------------------------------------------------------------------------------
(* The modem and the network.                                              *)
Written(chunks) == Len(FlattenSeq(chunks))
Writes(chunks) ==
    /\ Written(stream \o chunks) <= Ahead
    /\ stream' = stream \o chunks

\* What the modem writes, in the chunks between which a read may end.
Prompt == <<<<CR, LF, GT>>, <<SP>>>>
Lines(header, body) ==
    LET half == Len(body) \div 2
    IN  <<<<CR, LF, header, CR>>, <<LF>>, SubSeq(body, 1, half),
          SubSeq(body, half + 1, Len(body)) \o <<CR, LF>>>>

\* The span has the modem ask for the text of a PDU.
Send(t) ==
    /\ sending = {}
    /\ sending' = {t} /\ todo' = todo \ {t}
    /\ Writes(Prompt)
    /\ UNCHANGED <<asked, air, acc, san, inbox, apart>>

\* Where the destination and what follows it stand in a submitted PDU, its
\* number, and the PDU its receiver gets of it.
DestinationAt(p) == 7 + 2 * Byte(p, 1)
BehindDestination(p) == DestinationAt(p) + 4 + Even(Byte(p, DestinationAt(p)))
SubmittedTo(p) ==
    LET da == DestinationAt(p)
        digits == Dso2String(SubSeq(p, da + 4, BehindDestination(p) - 1))
    IN  IF Byte(p, da + 2) = 145 THEN <<Plus>> \o digits ELSE digits
Centre == Hex(<<2, 145>>) \o <<2, 1>>
\* 17:00:59 on 2012-05-28, eight hours ahead of Greenwich.
Stamp == <<2, 1, 5, 0, 8, 2, 7, 1, 0, 0, 9, 5, 2, 3>>
Delivered(p) ==
    LET udhi == (Byte(p, DestinationAt(p) - 4) \div 64) % 2
        pid == BehindDestination(p)
    IN  Centre \o Hex(<<4 + 64 * udhi>>) \o Address(Own) \o Copied(p, pid, 4)
        \o Stamp \o SubSeq(p, pid + 6, Len(p))
FromPhone(text) ==
    Centre \o Hex(<<4>>) \o Address(Phone)
    \o (IF IsAscii(text)
        THEN Hex(<<0, 0>>) \o Stamp \o Hex(<<Len(ToSeptets[text])>> \o Pack[ToSeptets[text]])
        ELSE Hex(<<0, 8>>) \o Stamp \o Hex(<<Len(ToUnits[text])>> \o ToUnits[text]))

PhoneSends(text, mode) ==
    LET id == Len(asked) + 1
    IN  /\ Len(asked) < MaxTexts
        /\ asked' = Append(asked, [cmd |-> mode, text |-> text, plain |-> TRUE])
        /\ IF mode = "pdu" THEN Writes(Lines(Header(id), FromPhone(text)))
           ELSE Writes(Lines(TextHeader(id), text))
        /\ UNCHANGED <<todo, sending, air, acc, san, inbox, apart>>

Deliver(t) ==
    /\ air' = air \ {t}
    /\ Writes(Lines(Header(t.id), Delivered(t.pdu)))
    /\ UNCHANGED <<asked, todo, sending, acc, san, inbox, apart>>
------------------------------------------------------------------------------
(* The reading thread.                                                     *)
\* mutant: what was collected is forgotten with every read.
CollectedForgets(n) == Collects(<<>>, FlattenSeq(SubSeq(stream, 1, n)), Capacity)
Collected(n) == Collects(acc, FlattenSeq(SubSeq(stream, 1, n)), Capacity)

\* It reads only when gsm_san has left nothing behind.
Read(n) ==
    /\ san = <<>> /\ n \in DOMAIN stream
    /\ stream' = SubSeq(stream, n + 1, Len(stream))
    /\ IF Passes(Collected(n), sending # {})
       THEN san' = Collected(n) /\ acc' = <<>>
       ELSE acc' = Collected(n) /\ UNCHANGED san
    /\ UNCHANGED <<asked, todo, sending, air, inbox, apart>>

\* module_receive, any line but a text's: at the prompt gsm_transmit_sms hands the
\* waiting part over.
TakeLine ==
    LET s == San[san]
    IN  /\ s.more /\ s.line # <<>> /\ ~IsHeader(s.line[1])
        /\ san' = s.rest
        /\ IF GT \in ToSet(s.line) THEN air' = air \cup sending /\ sending' = {}
           ELSE UNCHANGED <<air, sending>>
        /\ UNCHANGED <<asked, todo, stream, acc, inbox, apart>>

\* gsm_text2sm_event2: the sender keeps the blank before it.
TextEvent(id, body) ==
    [id |-> id, pdu |-> <<>>, sender |-> <<SP>> \o Phone, zone |-> 8, part |-> 0,
     total |-> 0, text |-> body]
PduReport(id, body) ==
    LET e == PduEvent(body)
    IN  [id |-> id, pdu |-> body, sender |-> e.sender, zone |-> e.zone, part |-> e.part,
         total |-> e.total, text |-> e.text]

\* module_check_sms takes the header and the next line at once.  With no line
\* behind it the header itself stands for the body, and is too short for a PDU.
TakeText ==
    LET s == San[san]
        b == San[s.rest]
        id == IdOf(s.line[1])
        body == IF b.line = <<>> THEN s.line ELSE b.line
    IN  /\ s.more /\ s.line # <<>> /\ IsHeader(s.line[1])
        /\ san' = b.rest
        /\ apart' = IF b.line = <<>> THEN apart \cup {id} ELSE apart
        /\ \/ /\ s.line[1] = TextHeader(id)
              /\ \/ inbox' = Append(inbox, TextEvent(id, body))
                 \/ UNCHANGED inbox
           \/ /\ s.line[1] = Header(id)
              /\ inbox' = IF Len(body) < 14 THEN inbox
                          ELSE Append(inbox, PduReport(id, body))
        /\ UNCHANGED <<asked, todo, sending, air, stream, acc>>

\* Nothing but line ends is left; gsm_san clears them.
TakeEnds ==
    /\ san # <<>> /\ ~San[san].more /\ San[san].rest = <<>>
    /\ san' = <<>>
    /\ UNCHANGED <<asked, todo, sending, air, stream, acc, inbox, apart>>
------------------------------------------------------------------------------
Reads == \E n \in DOMAIN stream : Read(n)
Takes == TakeLine \/ TakeText \/ TakeEnds
Sends == \E t \in todo : Send(t)
Delivers == \E t \in air : Deliver(t)
Next ==
    \/ \E cmd \in Commands, text \in Messages : Ask(cmd, text)
    \/ \E k \in DOMAIN inbox : Forward(k)
    \/ \E text \in PhoneTexts, mode \in Modes : PhoneSends(text, mode)
    \/ Sends \/ Delivers \/ Reads \/ Takes

Spec == Init /\ [][Next]_vars
------------------------------------------------------------------------------
Ids == DOMAIN asked
\* The parts in which a text is to be reported, as <<part, total, text>>; of
\* SendSMS those that it hands to the span.
Reported(id) ==
    LET a == asked[id]
        parts == Parts(a.cmd, a.text).parts
    IN  IF a.cmd \in {"file", "sms", "app"}
        THEN {<<i, Len(parts), parts[i]>> : i \in DOMAIN parts} ELSE {<<0, 0, a.text>>}
Sender(id) == CASE asked[id].cmd = "pdu" -> Phone
                [] asked[id].cmd = "text" -> <<SP>> \o Phone
                [] OTHER -> Own
EventsOf(id) == {k \in DOMAIN inbox : inbox[k].id = id}

\* The sets the variables are in: an event has decoded fields, what waits is
\* encoded, and one part at most is with the modem.
TypeOK ==
    /\ Ids \subseteq 1..MaxTexts /\ apart \subseteq Ids
    /\ \A t \in todo \cup sending \cup air : t.id \in Ids /\ t.pdu \in Seq(0..15)
    /\ Cardinality(sending) <= 1
    /\ \A k \in DOMAIN inbox : inbox[k].id \in Ids /\ inbox[k].part <= inbox[k].total
    /\ Written(stream) <= Ahead /\ Len(acc) <= Capacity /\ Len(san) <= Capacity

\* No part is longer than its alphabet allows, however its bytes fall: an escape
\* or a character of several bytes is not cut, and the header has its place.
PartFits ==
    \A t \in todo \cup sending \cup air :
        LET pid == BehindDestination(t.pdu)
        IN  asked[t.id].cmd \in {"file", "sms"} =>
                Byte(t.pdu, pid + 6) <=
                    IF Byte(t.pdu, pid + 2) = 8 THEN LengthUcs2 + 6 ELSE Length7 + 7

\* Every PDU on its way goes to the number it was asked for, and a failed one
\* would be filed under that number.
Addressed ==
    \A t \in todo \cup sending \cup air :
        /\ SubmittedTo(t.pdu) = Own
        /\ Smsc = <<>> => t.number = Without(Plus, Own)

\* What is reported of a text is what was written, from whom it came, each part
\* once: in whatever order the parts come and wherever the reads cut them.
Exact ==
    \A k \in DOMAIN inbox :
        LET e == inbox[k]
        IN  asked[e.id].plain /\ e.id \notin apart =>
                /\ <<e.part, e.total, e.text>> \in Reported(e.id) \cup
                       (IF asked[e.id].cmd = "forward" THEN {<<0, 0, asked[e.id].text>>} ELSE {})
                /\ e.sender = Sender(e.id) /\ e.zone = 8
                /\ \A j \in EventsOf(e.id) : inbox[j].part = e.part => j = k

\* Whenever the span, the network and the reading thread have nothing left that
\* they can do, every text is reported in all its parts, unless a read came
\* between its header and its body: nothing is dropped, and the thread is not
\* left with a buffer it neither empties nor reads behind.  (A phone's text in
\* text mode may be dropped.)
ReaderStopped ==
    IF san = <<>> THEN stream = <<>> ELSE ~San[san].more /\ San[san].rest # <<>>
Stopped ==
    /\ ReaderStopped
    /\ todo = {} \/ sending # {} \/ stream # <<>>
    /\ air = {} \/ stream # <<>>
Due == {id \in Ids : asked[id].cmd # "text" /\ asked[id].plain}
Arrived == {id \in Ids : \A r \in Reported(id) : \E k \in EventsOf(id) : inbox[k].part = r[1]}
AllArrive == Stopped => Due \subseteq apart \cup Arrived
=============================================================================
