------------------------------ MODULE PduCodec ------------------------------
(***************************************************************************)
(* The PDU codec of gsm_sms.c.  A PDU is the sequence of its hexadecimal   *)
(* digits, a text the sequence of its bytes, a number the sequence of its  *)
(* digits, with Plus for a '+'.                                            *)
(***************************************************************************)
EXTENDS Integers, SequencesExt

Plus == 16

\* gsm_hex2int of two digits; what is none counts as zero, and behind the end
\* there are zeros.
Digit(p, i) == IF i \in DOMAIN p /\ p[i] \in 0..15 THEN p[i] ELSE 0
Byte(p, i) == 16 * Digit(p, i) + Digit(p, i + 1)
Hex(octets) ==
    [i \in 1..(2 * Len(octets)) |->
        LET o == octets[(i + 1) \div 2] IN IF i % 2 = 1 THEN o \div 16 ELSE o % 16]
Octets(p, from, n) == [i \in 1..n |-> Byte(p, from + 2 * (i - 1))]
Even(n) == n + (n % 2)
Without(c, s) == FlattenSeq([i \in DOMAIN s |-> IF s[i] = c THEN <<>> ELSE <<s[i]>>])
\* A table read from its first entry on: out[i] is given out, and step[i] entries
\* are passed.
Scan(out, step) ==
    LET from[i \in 1..(Len(out) + 3)] ==
            IF i > Len(out) THEN <<>> ELSE out[i] \o from[i + step[i]]
    IN  from[1]
------------------------------------------------------------------------------
(* Numbers, in swapped semi-octets with F at the end of an odd one.        *)
Invert(n) ==
    [i \in 1..Even(Len(n)) |->
        IF i % 2 = 0 THEN n[i - 1] ELSE IF i = Len(n) THEN 15 ELSE n[i + 1]]
Dso2String(d) ==
    LET swapped == [i \in 1..(Len(d) - (Len(d) % 2)) |-> IF i % 2 = 1 THEN d[i + 1] ELSE d[i - 1]]
    IN  Without(15, swapped)
ValidNumber(n) == n # <<>> /\ \A i \in 2..Len(n) : n[i] # Plus

SmscField(sca) ==
    IF sca = <<>> THEN Hex(<<0>>)
    ELSE Hex(<<Even(Len(sca)) \div 2 + 1, 145>>) \o Invert(sca)
Address(n) ==
    IF Head(n) = Plus THEN Hex(<<Len(n) - 1, 145>>) \o Invert(Tail(n))
    ELSE Hex(<<Len(n), 129>>) \o Invert(n)
------------------------------------------------------------------------------
(* The 7-bit alphabet.                                                     *)
Escapes == {<<12, 10>>, <<94, 20>>, <<123, 40>>, <<125, 41>>, <<92, 47>>, <<91, 60>>,
            <<126, 61>>, <<93, 62>>, <<124, 64>>}
Low == <<64, 163, 36, 165, 232, 223, 249, 236, 242, 199, 10, 216, 248, 13, 197, 229,
         255, 95, 255, 255, 255, 255, 255, 255, 255, 255, 255, 255, 198, 230, 223, 201>>
High == <<196, 204, 209, 220, 167, 191>>
\* EQ7BIT2ASCII.
Ascii(s) == CASE s < 32 -> Low[s + 1]
              [] s = 36 -> 164
              [] s = 64 -> 161
              [] s \in 91..96 -> High[s - 90]
              [] s \in 123..127 -> <<228, 246, 241, 252, 224>>[s - 122]
              [] OTHER -> s

\* What gsmEncode7bit makes of a character: an escape, its place in the
\* table, or itself.
Septets7(c) ==
    IF \E e \in Escapes : e[1] = c THEN <<27, (CHOOSE e \in Escapes : e[1] = c)[2]>>
    ELSE LET places == {s \in 0..127 : Ascii(s) = c}
         IN  <<IF places = {} THEN c ELSE CHOOSE s \in places : \A t \in places : s <= t>>
ToSeptets[text \in Seq(0..127)] == FlattenSeq([i \in DOMAIN text |-> Septets7(text[i])])

\* Packing from the first bit on; the zero behind the last septet is packed
\* with it.
Septet(s, i) == IF i < Len(s) THEN s[i + 1] ELSE 0
Pack[s \in Seq(0..127)] ==
    [i \in 1..((7 * Len(s) + 7) \div 8) |->
        LET bit == 8 * (i - 1)
            q == bit \div 7
            r == bit % 7
        IN  (Septet(s, q) \div 2^r + Septet(s, q + 1) * 2^(7 - r)) % 256]
\* gsmEncode7bit: the first septet fills the octet the header ends in.
Encode7bit(text) ==
    LET s == ToSeptets[text] IN <<Head(s) * 2>> \o Pack[Tail(s)]

\* gsm_to8Bit: n septets from octets, with flag 1 behind a header of length 5.
Unpacked(o, n, flag) ==
    LET At(i) == IF i < Len(o) THEN o[i + 1] ELSE 0
        From(bit) == (At(bit \div 8) \div 2^(bit % 8)
                      + At(bit \div 8 + 1) * 2^(8 - (bit % 8))) % 128
    IN  [i \in 1..n |-> IF flag = 0 THEN From(7 * (i - 1))
                        ELSE IF i = 1 THEN At(0) \div 2 ELSE From((7 * i) - 6)]
EscapedBy(s, i) == {e \in Escapes : s[i] = 27 /\ i < Len(s) /\ e[2] = s[i + 1]}
Chars[s \in Seq(0..127)] ==
    Scan([i \in 1..Len(s) |-> IF EscapedBy(s, i) # {}
                              THEN <<(CHOOSE e \in EscapedBy(s, i) : TRUE)[1]>>
                              ELSE <<Ascii(s[i])>>],
         [i \in 1..Len(s) |-> IF EscapedBy(s, i) # {} THEN 2 ELSE 1])
To8Bit(o, n, flag) == Chars[Unpacked(o, n, flag)]
------------------------------------------------------------------------------
(* UCS-2.                                                                  *)
\* myUTF8_to_UNICODE: two or three bytes make a unit, four bytes do not
\* exist for it.
ToUnits[b \in Seq(0..255)] ==
    LET Low6(i) == IF i <= Len(b) THEN b[i] % 64 ELSE 0
        Length(i) == IF b[i] < 128 THEN 1 ELSE IF b[i] < 224 THEN 2 ELSE 3
        Code(i) == CASE Length(i) = 1 -> b[i]
                     [] Length(i) = 2 -> (b[i] % 32) * 64 + Low6(i + 1)
                     [] Length(i) = 3 -> (b[i] % 16) * 4096 + Low6(i + 1) * 64 + Low6(i + 2)
    IN  Scan([i \in 1..Len(b) |-> <<Code(i) \div 256, Code(i) % 256>>],
             [i \in 1..Len(b) |-> Length(i)])
\* iconv from UTF-16 to UTF-8, as sms_get_str uses it.
Utf8[o \in Seq(0..255)] ==
    LET Bytes(v) == CASE v < 128 -> <<v>>
                      [] 128 <= v /\ v < 2048 -> <<192 + (v \div 64), 128 + (v % 64)>>
                      [] OTHER -> <<224 + (v \div 4096), 128 + ((v \div 64) % 64), 128 + (v % 64)>>
    IN  FlattenSeq([i \in 1..(Len(o) \div 2) |-> Bytes(256 * o[(2 * i) - 1] + o[2 * i])])
------------------------------------------------------------------------------
(* Submitted PDUs.                                                         *)
\* The header of a part: its reference is always 0.
UserData(ucs2, text, part, total) ==
    LET header == <<5, 0, 3, 0, total, part>>
    IN  IF ucs2 THEN Hex(<<Len(ToUnits[text]) + 6>> \o header \o ToUnits[text])
        ELSE Hex(<<Len(ToSeptets[text]) + 7>> \o header \o Encode7bit(text))

\* gsm_encode_pdu; an empty PDU is its 0.
EncodePdu(sca, tpa, ucs2, text, part, total) ==
    IF ~ValidNumber(tpa) \/ (sca # <<>> /\ ~ValidNumber(sca)) THEN <<>>
    ELSE SmscField(sca) \o Hex(<<113, 0>>) \o Address(tpa)
         \o Hex(<<0, IF ucs2 THEN 8 ELSE 0, 0>>) \o UserData(ucs2, text, part, total)

\* allogsm_encode_pdu_ucs2 for the codings the driver names: UTF-8 with a
\* byte that is not ASCII is UCS-2.
EncodeText(sca, tpa, coding, text, part, total) ==
    EncodePdu(sca, tpa, coding = "UTF-8" /\ \E i \in DOMAIN text : text[i] >= 128, text,
              part, total)

\* strncpy: n digits from a place on, as far as there are some.
Copied(p, from, n) == SubSeq(p, from, IF from + n > Len(p) THEN Len(p) ELSE from + n - 1)
\* mutant: without a centre the type of the centre is skipped as well.
SendNumberLate(p) ==
    LET at == 9 + 2 * Byte(p, 1)
    IN  Dso2String(Copied(p, at + 4, Even(Byte(p, at))))
\* pdu_get_send_number: the number a submitted PDU goes to; with a centre it is
\* sought an octet too late.
SendNumber(p) ==
    LET at == IF Byte(p, 1) = 0 THEN 7 ELSE 9 + 2 * Byte(p, 1)
    IN  Dso2String(Copied(p, at + 4, Even(Byte(p, at))))
------------------------------------------------------------------------------
(* Delivered PDUs.                                                         *)
\* allogsm_decode_pdu.
DecodePdu[p \in Seq(0..15)] ==
    LET fo == 3 + 2 * Byte(p, 1)
        oaLen == Byte(p, fo + 2)
        toa == IF oaLen > 0 THEN Byte(p, fo + 4) ELSE 0
        pid == IF oaLen > 0 THEN fo + 6 + Even(oaLen) ELSE fo + 4
        dso == SubSeq(p, fo + 6, fo + 5 + Even(oaLen))
        n == oaLen \div 2
    IN  [fo |-> Byte(p, fo),
         sender |-> CASE toa = 145 -> <<Plus>> \o Dso2String(dso)
                      [] (toa \div 64) % 4 = 3 /\ (toa \div 16) % 2 = 1 ->
                           To8Bit(Octets(dso, 1, n), n + n \div 7, 0)
                      [] OTHER -> Dso2String(dso),
         dcs |-> Byte(p, pid + 2), scts |-> Dso2String(SubSeq(p, pid + 4, pid + 17)),
         udl |-> Byte(p, pid + 18), ud |-> SubSeq(p, pid + 20, Len(p))]

\* format_time_for_pdu: the zone in hours.  The sign is looked for in bit 7 of a
\* decimal number of two digits, and a digit above 9 ends the number.
Zone(scts) == IF scts[13] > 9 THEN 0 ELSE (10 * scts[13] + scts[14]) \div 4

\* mutant: the octet the header ends in is not skipped.
PduEventUnskipped(p) ==
    LET d == DecodePdu[p]
        header == IF (d.fo \div 64) % 2 = 1 THEN Byte(d.ud, 1) + 1 ELSE 0
        octets == Octets(d.ud, 1 + 2 * header, d.udl - header)
    IN  [sender |-> IF Byte(p, 1) > 0 THEN d.sender ELSE <<>>,
         zone |-> Zone(d.scts),
         part |-> IF header > 0 THEN Byte(d.ud, 11) ELSE 0,
         total |-> IF header > 0 THEN Byte(d.ud, 9) ELSE 0,
         text |-> IF d.dcs = 8 THEN Utf8[octets]
                  ELSE To8Bit(octets, d.udl - header, 0)]
\* mutant: the number of the part and the total are taken from each other's place.
PduEventSwapped(p) ==
    LET d == DecodePdu[p]
        header == IF (d.fo \div 64) % 2 = 1 THEN Byte(d.ud, 1) + 1 ELSE 0
        octets == Octets(d.ud, 1 + 2 * header, d.udl - header)
    IN  [sender |-> IF Byte(p, 1) > 0 THEN d.sender ELSE <<>>,
         zone |-> Zone(d.scts),
         part |-> IF header > 0 THEN Byte(d.ud, 9) ELSE 0,
         total |-> IF header > 0 THEN Byte(d.ud, 11) ELSE 0,
         text |-> IF d.dcs = 8 THEN Utf8[octets]
                  ELSE IF header = 6 THEN To8Bit(octets, d.udl - 7, 1)
                  ELSE To8Bit(octets, d.udl - header, 0)]
\* gsm_pdu2sm_event, for a PDU of 14 digits at least; " (part/total)" behind
\* the text stands for these two.  Without an SMSC there is no sender.
PduEvent(p) ==
    LET d == DecodePdu[p]
        header == IF (d.fo \div 64) % 2 = 1 THEN Byte(d.ud, 1) + 1 ELSE 0
        octets == Octets(d.ud, 1 + 2 * header, d.udl - header)
    IN  [sender |-> IF Byte(p, 1) > 0 THEN d.sender ELSE <<>>,
         zone |-> Zone(d.scts),
         part |-> IF header > 0 THEN Byte(d.ud, 11) ELSE 0,
         total |-> IF header > 0 THEN Byte(d.ud, 9) ELSE 0,
         text |-> IF d.dcs = 8 THEN Utf8[octets]
                  ELSE IF header = 6 THEN To8Bit(octets, d.udl - 7, 1)
                  ELSE To8Bit(octets, d.udl - header, 0)]

\* allogsm_forward_pdu: a delivered PDU is submitted again; the header
\* indicator of its first octet is not.  Where it ends, the copy ends.
ForwardPdu(p, tpa, sca) ==
    LET oa == 5 + 2 * Byte(p, 1)
        pid == oa + 4 + Even(Byte(p, oa))
    IN  SmscField(sca) \o Hex(<<49, 0>>) \o Address(tpa) \o Copied(p, pid, 4)
        \o (IF pid + 3 > Len(p) THEN <<>> ELSE Hex(<<0>>) \o SubSeq(p, pid + 18, Len(p)))
=============================================================================
