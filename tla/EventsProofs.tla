---------------------------- MODULE EventsProofs -----------------------------
(***************************************************************************)
(* Proofs about Framing and the events of Texts: what is reported is what  *)
(* was written, each part once.                                            *)
(*                                                                         *)
(* The argument is about one sequence, the tape: all that the modem has    *)
(* written and the reading thread has not taken.  Every header on it has a *)
(* line of its own and the body on the next, wherever the reads cut it;    *)
(* and every part of a text is a parcel on its way, or stands on the tape, *)
(* or is an event, only one of them and once.                              *)
(***************************************************************************)
EXTENDS TextsProofs

------------------------------------------------------------------------------
(* Lines.                                                                  *)
\* gsm_san, told by where the leading line ends stop and where the line ends.
SanAs(b, skip, end) ==
    LET n == Len(b)
        behind == SubSeq(b, skip + 1, n)
        next == IF end < n /\ b[end + 1] = LF THEN end + 2 ELSE end
    IN  /\ skip \in 0..n /\ end \in {0} \cup (skip + 1)..n
        /\ \A j \in 1..skip : b[j] \in Ends
        /\ skip < n => b[skip + 1] \notin Ends
        /\ end > 0 => b[end] = CR
        /\ \A j \in (skip + 1)..n : (end = 0 \/ j < end) => b[j] # CR
        /\ end > 0 => San[b] = [line |-> SubSeq(b, skip + 1, end - 1),
                                rest |-> SubSeq(b, next, n), more |-> TRUE]
        /\ end = 0 /\ behind \in Prompts =>
              San[b] = [line |-> behind, rest |-> <<>>, more |-> TRUE]
        /\ end = 0 /\ behind = <<>> =>
              San[b] = [line |-> <<>>, rest |-> <<>>, more |-> FALSE]
        /\ end = 0 /\ behind \notin Prompts /\ behind # <<>> =>
              San[b] = [line |-> behind, rest |-> b, more |-> FALSE]

LEMMA LeastIs ==
  ASSUME NEW S \in SUBSET Nat, S # {}
  PROVE  Min(S) \in S /\ \A t \in S : Min(S) <= t
<1>1. \E m \in S : \A t \in S : m <= t
  BY Least
<1> QED
  BY <1>1 DEF Min

LEMMA SanIs ==
  ASSUME NEW b \in Seq(Int)
  PROVE  \E skip \in Nat, end \in Nat : SanAs(b, skip, end)
<1> DEFINE a == Append(b, 0)
           S == {i \in 1..Len(a) : a[i] \notin Ends}
           skip == (IF S # {} THEN Min(S) ELSE 0) - 1
           n == Len(b)
           E == {i \in (skip + 1)..n : b[i] = CR}
           end == IF E # {} THEN Min(E) ELSE 0
           behind == SubSeq(b, skip + 1, n)
           next == IF end < n /\ b[end + 1] = LF THEN end + 2 ELSE end
           one == [line |-> SubSeq(b, skip + 1, end - 1), rest |-> SubSeq(b, next, n), more |-> TRUE]
           two == [line |-> behind, rest |-> <<>>, more |-> TRUE]
           three == [line |-> <<>>, rest |-> <<>>, more |-> FALSE]
           four == [line |-> behind, rest |-> b, more |-> FALSE]
<1>1. San[b] = CASE end > 0 -> one
                 [] end = 0 /\ behind \in Prompts -> two
                 [] end = 0 /\ behind = <<>> -> three
                 [] OTHER -> four
  BY DEF San, SelectInSeq, SelectInSubSeq
<1>2. n \in Nat /\ Len(a) = n + 1 /\ a[n + 1] = 0 /\ \A i \in 1..n : a[i] = b[i]
  OBVIOUS
<1>3. /\ skip \in 0..n /\ (\A j \in 1..skip : b[j] \in Ends)
      /\ skip < n => b[skip + 1] \notin Ends
  <2>1. n + 1 \in S
    BY <1>2 DEF Ends, CR, LF
  <2>2. S \in SUBSET Nat /\ \A i \in S : i \in 1..(n + 1) /\ a[i] \notin Ends
    BY <1>2
  <2>3. \A i \in 1..(n + 1) : a[i] \notin Ends => i \in S
    BY <1>2
  <2> HIDE DEF S
  <2> DEFINE m == Min(S)
  <2>4. m \in S /\ \A t \in S : m <= t
    BY <2>1, <2>2, LeastIs, Zenon
  <2> HIDE DEF m
  <2>5. m \in 1..(n + 1) /\ a[m] \notin Ends
    BY <2>2, <2>4
  <2>6. \A j \in 1..(n + 1) : j < m => a[j] \in Ends
    BY <2>3, <2>4, <2>5, <1>2
  <2>7. skip = m - 1
    BY <2>1 DEF m
  <2> HIDE DEF skip, a, n
  <2> QED
    BY <1>2, <2>5, <2>6, <2>7
<1> HIDE DEF skip
<1>4. /\ end \in {0} \cup (skip + 1)..n /\ (end > 0 => b[end] = CR)
      /\ \A j \in (skip + 1)..n : (end = 0 \/ j < end) => b[j] # CR
  <2>1. E \in SUBSET Nat /\ \A i \in E : i \in (skip + 1)..n /\ b[i] = CR
    BY <1>2, <1>3
  <2>2. \A i \in (skip + 1)..n : b[i] = CR => i \in E
    OBVIOUS
  <2> HIDE DEF E, n
  <2>3. CASE E = {}
    <3>1. end = 0
      BY <2>3
    <3> HIDE DEF end
    <3> QED
      BY <2>2, <2>3, <3>1
  <2>4. CASE E # {}
    <3> DEFINE m == Min(E)
    <3>1. m \in E /\ \A t \in E : m <= t
      BY <2>1, <2>4, LeastIs, Zenon
    <3>2. end = m
      BY <2>4
    <3> HIDE DEF m, end
    <3>3. m \in (skip + 1)..n /\ b[m] = CR
      BY <2>1, <3>1
    <3>4. \A j \in (skip + 1)..n : j < m => b[j] # CR
      BY <1>2, <1>3, <2>2, <3>1, <3>3
    <3>5. m # 0
      BY <1>2, <1>3, <3>3
    <3> QED
      BY <3>2, <3>3, <3>4, <3>5
  <2> QED
    BY <2>3, <2>4
<1> HIDE DEF end
<1>5. skip \in Nat /\ end \in Nat
  BY <1>2, <1>3, <1>4
<1>6. SanAs(b, skip, end)
  <2>1. end > 0 => San[b] = one
    BY <1>1
  <2>2. end = 0 => ~(end > 0)
    BY <1>5
  <2> HIDE DEF one, two, three, four, behind
  <2>3. <<>> \notin Prompts
    BY DEF Prompts
  <2>4. end = 0 /\ behind \in Prompts => San[b] = two
    BY <1>1, <2>2, <2>3
  <2>5. end = 0 /\ behind = <<>> => San[b] = three
    BY <1>1, <2>2, <2>3
  <2>6. end = 0 /\ behind \notin Prompts /\ behind # <<>> => San[b] = four
    BY <1>1, <2>2
  <2>7. /\ end > 0 => San[b] = [line |-> SubSeq(b, skip + 1, end - 1),
                               rest |-> SubSeq(b, next, n), more |-> TRUE]
        /\ end = 0 /\ behind \in Prompts =>
              San[b] = [line |-> behind, rest |-> <<>>, more |-> TRUE]
        /\ end = 0 /\ behind = <<>> =>
              San[b] = [line |-> <<>>, rest |-> <<>>, more |-> FALSE]
        /\ end = 0 /\ behind \notin Prompts /\ behind # <<>> =>
              San[b] = [line |-> behind, rest |-> b, more |-> FALSE]
    BY <2>1, <2>4, <2>5, <2>6, Zenon DEF one, two, three, four
  <2> QED
    BY <1>3, <1>4, <2>7, Zenon DEF SanAs, behind
<1> QED
  BY <1>5, <1>6, Zenon

------------------------------------------------------------------------------
(* The tape: what has been written and not been taken, one character after *)
(* another.                                                                *)
\* Behind the i-th character, a line of m characters stands between line ends.
Frame(p, i, m) ==
    /\ i + m + 4 <= Len(p) /\ p[i + 1] = CR /\ p[i + 2] = LF
    /\ p[i + m + 3] = CR /\ p[i + m + 4] = LF /\ \A j \in 1..m : p[i + 2 + j] >= 0
Body(p, i, m) == SubSeq(p, i + 3, i + 2 + m)
\* Every header is on a line of its own, its body on the next, and a prompt has its blank.
Framed(p) ==
    \A i \in 1..Len(p) :
        /\ IsHeader(p[i]) => \E m \in Nat \ {0} : Frame(p, i, m)
        /\ p[i] = GT => i < Len(p) /\ p[i + 1] = SP
\* The header h stands at i, with the body b.
Post(p, i, h, b) ==
    /\ i \in 1..Len(p) /\ p[i] = h /\ IsHeader(h)
    /\ \E m \in Nat \ {0} : Frame(p, i, m) /\ b = Body(p, i, m)
\* s is what p ends in, behind k characters.
EndsIn(s, p, k) == k \in 0..Len(p) /\ s = SubSeq(p, k + 1, Len(p))

LEMMA FrameOnce ==
  ASSUME NEW p \in Seq(Int), NEW i \in 1..Len(p), NEW m \in Nat \ {0}, NEW k \in Nat \ {0},
         Frame(p, i, m), Frame(p, i, k)
  PROVE  m = k
<1>1. ASSUME NEW l \in Nat \ {0}, NEW n \in Nat \ {0}, l < n, Frame(p, i, l), Frame(p, i, n)
      PROVE  FALSE
  <2>1. l + 1 \in 1..n /\ i + 2 + (l + 1) = i + l + 3
    BY <1>1
  <2>2. p[i + l + 3] >= 0
    BY <1>1, <2>1 DEF Frame
  <2>3. p[i + l + 3] = CR
    BY <1>1 DEF Frame
  <2> QED
    BY <2>2, <2>3 DEF CR
<1>2. ~(m < k) /\ ~(k < m)
  BY <1>1
<1> QED
  BY <1>2

LEMMA PostOnce ==
  ASSUME NEW p \in Seq(Int), NEW i, NEW h, NEW g, NEW b, NEW c, Post(p, i, h, b), Post(p, i, g, c)
  PROVE  h = g /\ b = c
<1>1. i \in 1..Len(p) /\ h = g
  BY DEF Post
<1>2. PICK m \in Nat \ {0} : Frame(p, i, m) /\ b = Body(p, i, m)
  BY DEF Post
<1>3. PICK k \in Nat \ {0} : Frame(p, i, k) /\ c = Body(p, i, k)
  BY DEF Post
<1>4. m = k
  BY <1>1, <1>2, <1>3, FrameOnce
<1> QED
  BY <1>1, <1>2, <1>3, <1>4

LEMMA SuffixPlaces ==
  ASSUME NEW p \in Seq(Int), NEW k, NEW s, EndsIn(s, p, k)
  PROVE  /\ s \in Seq(Int) /\ k \in Nat /\ k <= Len(p) /\ Len(s) = Len(p) - k
         /\ \A i \in 1..Len(s) : s[i] = p[k + i]
BY DEF EndsIn

\* The m characters of a body behind i.
Holds3(b, p, i, m) ==
    b \in Seq(Int) /\ Len(b) = m /\ \A j \in 1..m : b[j] = p[i + 2 + j]

LEMMA BodyPlaces ==
  ASSUME NEW p \in Seq(Int), NEW i \in Nat, NEW m \in Nat, i + m + 4 <= Len(p)
  PROVE  Holds3(Body(p, i, m), p, i, m)
<1> DEFINE l == Len(p)
           a == i + 3
           e == i + 2 + m
           b == SubSeq(p, a, e)
<1>1. l \in Nat /\ a \in Nat \ {0} /\ e \in Nat /\ e <= l /\ e + 1 >= a /\ e - a + 1 = m
  OBVIOUS
<1>2. \A j \in 1..m : a + j - 1 = i + 2 + j
  OBVIOUS
<1> HIDE DEF a, e, l
<1>3. b \in Seq(Int) /\ Len(b) = m /\ \A j \in 1..m : b[j] = p[a + j - 1]
  BY <1>1 DEF l
<1> QED
  BY <1>2, <1>3 DEF Holds3, Body, a, e

LEMMA FrameSuffix ==
  ASSUME NEW p \in Seq(Int), NEW k, NEW s, EndsIn(s, p, k), NEW i \in 1..Len(s), NEW m \in Nat \ {0}
  PROVE  /\ Frame(s, i, m) <=> Frame(p, k + i, m)
         /\ Frame(s, i, m) => Body(s, i, m) = Body(p, k + i, m)
<1> DEFINE n == Len(s)
           l == Len(p)
<1>1. s \in Seq(Int) /\ k \in Nat /\ n = l - k /\ n \in Nat /\ l \in Nat
      /\ \A j \in 1..n : s[j] = p[k + j]
  BY SuffixPlaces
<1> HIDE DEF n, l
<1>2. \A y \in 1..n : \A z : z = k + y => s[y] = p[z]
  BY <1>1
<1>3. ASSUME i + m + 4 <= n
      PROVE  /\ Frame(s, i, m) <=> Frame(p, k + i, m)
             /\ \A j \in 1..m : s[i + 2 + j] = p[k + i + 2 + j]
  <2>1. k + i + m + 4 <= l
    BY <1>1, <1>3
  <2>2. /\ i + 1 \in 1..n /\ k + i + 1 = k + (i + 1)
        /\ i + 2 \in 1..n /\ k + i + 2 = k + (i + 2)
        /\ i + m + 3 \in 1..n /\ k + i + m + 3 = k + (i + m + 3)
        /\ i + m + 4 \in 1..n /\ k + i + m + 4 = k + (i + m + 4)
    BY <1>1, <1>3
  <2>3. s[i + 1] = p[k + i + 1] /\ s[i + 2] = p[k + i + 2]
    BY <1>2, <2>2
  <2>4. s[i + m + 3] = p[k + i + m + 3]
    BY <1>2, <2>2
  <2>5. s[i + m + 4] = p[k + i + m + 4]
    BY <1>2, <2>2
  <2>6. ASSUME NEW j \in 1..m PROVE s[i + 2 + j] = p[k + i + 2 + j]
    <3>1. i + 2 + j \in 1..n /\ k + i + 2 + j = k + (i + 2 + j)
      BY <1>1, <1>3
    <3> QED
      BY <1>2, <3>1
  <2> QED
    BY <1>3, <2>1, <2>3, <2>4, <2>5, <2>6 DEF Frame, n, l
<1>4. CASE i + m + 4 <= n
  <2>1. Body(s, i, m) = Body(p, k + i, m)
    <3> DEFINE b == Body(s, i, m)
               c == Body(p, k + i, m)
    <3>1. Holds3(b, s, i, m)
      <4>1. i \in Nat /\ m \in Nat /\ i + m + 4 <= Len(s) /\ s \in Seq(Int)
        BY <1>1, <1>4 DEF n
      <4> QED
        BY <4>1, BodyPlaces, Zenon
    <3>2. Holds3(c, p, k + i, m)
      <4>1. k + i \in Nat /\ m \in Nat /\ k + i + m + 4 <= Len(p)
        BY <1>1, <1>4 DEF n, l
      <4> QED
        BY <4>1, BodyPlaces, Zenon
    <3> HIDE DEF b, c
    <3>3. \A j \in 1..m : s[i + 2 + j] = p[k + i + 2 + j]
      BY <1>3, <1>4
    <3>4. \A j \in 1..m : b[j] = c[j]
      BY <3>1, <3>2, <3>3 DEF Holds3
    <3>5. b \in Seq(Int) /\ c \in Seq(Int) /\ Len(b) = m /\ Len(c) = m
      BY <3>1, <3>2 DEF Holds3
    <3>6. b = c
      BY <3>4, <3>5, SeqEqual
    <3> QED
      BY <3>6 DEF b, c
  <2> QED
    BY <1>3, <1>4, <2>1
<1>5. CASE ~(i + m + 4 <= n)
  <2>1. ~(k + i + m + 4 <= l)
    BY <1>1, <1>5
  <2> QED
    BY <1>5, <2>1 DEF Frame, n, l
<1> QED
  BY <1>4, <1>5

\* A part of the tape's end has the headers of the tape there.
LEMMA PostSuffix ==
  ASSUME NEW p \in Seq(Int), Framed(p), NEW k, NEW s, EndsIn(s, p, k)
  PROVE  /\ Framed(s) /\ s \in Seq(Int)
         /\ \A i, h, b : Post(s, i, h, b) => Post(p, k + i, h, b)
<1> DEFINE n == Len(s)
           l == Len(p)
<1>1. s \in Seq(Int) /\ k \in Nat /\ n = l - k /\ n \in Nat /\ l \in Nat
      /\ \A j \in 1..n : s[j] = p[k + j]
  BY SuffixPlaces
<1>2. \A i \in 1..n, m \in Nat \ {0} :
         (Frame(s, i, m) <=> Frame(p, k + i, m))
         /\ (Frame(s, i, m) => Body(s, i, m) = Body(p, k + i, m))
  BY FrameSuffix
<1> HIDE DEF n
<1>3. \A i \in 1..n : k + i \in 1..l /\ (i + 1 \in 1..n => k + (i + 1) = k + i + 1)
                      /\ (k + i < l => i < n /\ i + 1 \in 1..n)
  BY <1>1
<1> HIDE DEF l
<1>4. Framed(s)
  <2> SUFFICES ASSUME NEW i \in 1..n
               PROVE  /\ IsHeader(s[i]) => \E m \in Nat \ {0} : Frame(s, i, m)
                      /\ s[i] = GT => i < n /\ s[i + 1] = SP
    BY DEF Framed, n
  <2>1. k + i \in 1..l /\ s[i] = p[k + i]
    BY <1>1, <1>3
  <2>2. /\ IsHeader(p[k + i]) => \E m \in Nat \ {0} : Frame(p, k + i, m)
        /\ p[k + i] = GT => k + i < l /\ p[k + i + 1] = SP
    BY <2>1 DEF Framed, l
  <2>3. IsHeader(s[i]) => \E m \in Nat \ {0} : Frame(s, i, m)
    BY <1>2, <2>1, <2>2, Zenon
  <2>4. ASSUME s[i] = GT PROVE i < n /\ s[i + 1] = SP
    <3>1. k + i < l /\ p[k + i + 1] = SP
      BY <2>1, <2>2, <2>4
    <3>2. i < n /\ i + 1 \in 1..n /\ k + (i + 1) = k + i + 1
      BY <1>3, <3>1
    <3> QED
      BY <1>1, <3>1, <3>2
  <2> QED
    BY <2>3, <2>4
<1>5. ASSUME NEW i, NEW h, NEW b, Post(s, i, h, b) PROVE Post(p, k + i, h, b)
  <2>1. i \in 1..n /\ s[i] = h /\ IsHeader(h)
    BY <1>5 DEF Post, n
  <2>2. PICK m \in Nat \ {0} : Frame(s, i, m) /\ b = Body(s, i, m)
    BY <1>5 DEF Post
  <2>3. k + i \in 1..l /\ p[k + i] = h
    BY <1>1, <1>3, <2>1
  <2>4. Frame(p, k + i, m) /\ b = Body(p, k + i, m)
    BY <1>2, <2>1, <2>2
  <2> QED
    BY <2>1, <2>3, <2>4 DEF Post, l
<1> QED
  BY <1>1, <1>4, <1>5

LEMMA FrameFront ==
  ASSUME NEW p \in Seq(Int), NEW u \in Seq(Int), NEW i \in 1..Len(p), NEW m \in Nat \ {0},
         Frame(p, i, m)
  PROVE  Frame(p \o u, i, m) /\ Body(p \o u, i, m) = Body(p, i, m)
<1> DEFINE q == p \o u
           n == Len(p)
           l == Len(q)
<1>1. q \in Seq(Int) /\ n \in Nat /\ l \in Nat /\ n <= l /\ \A j \in 1..n : q[j] = p[j]
  OBVIOUS
<1>2. i + m + 4 <= n
  BY DEF Frame
<1> HIDE DEF q, n, l
<1>3. i + 1 \in 1..n /\ i + 2 \in 1..n /\ i + m + 3 \in 1..n /\ i + m + 4 \in 1..n
      /\ \A j \in 1..m : i + 2 + j \in 1..n
  BY <1>1, <1>2 DEF n
<1>4. i + m + 4 <= l
  BY <1>1, <1>2
<1>5. Frame(q, i, m)
  BY <1>1, <1>3, <1>4 DEF Frame, l
<1> DEFINE b == Body(q, i, m)
           c == Body(p, i, m)
<1>6. Holds3(b, q, i, m)
  <2>1. i \in Nat /\ m \in Nat /\ i + m + 4 <= Len(q)
    BY <1>4 DEF l
  <2> QED
    BY <1>1, <2>1, BodyPlaces, Zenon
<1>7. Holds3(c, p, i, m)
  <2>1. i \in Nat /\ m \in Nat /\ i + m + 4 <= Len(p)
    BY <1>2 DEF n
  <2> QED
    BY <2>1, BodyPlaces, Zenon
<1> HIDE DEF b, c
<1>8. \A j \in 1..m : b[j] = c[j]
  BY <1>1, <1>3, <1>6, <1>7 DEF Holds3
<1>9. b \in Seq(Int) /\ c \in Seq(Int) /\ Len(b) = m /\ Len(c) = m
  BY <1>6, <1>7 DEF Holds3
<1>10. b = c
  BY <1>8, <1>9, SeqEqual
<1> QED
  BY <1>5, <1>10 DEF b, c, q

LEMMA JoinEnds ==
  ASSUME NEW p \in Seq(Int), NEW u \in Seq(Int)
  PROVE  p \o u \in Seq(Int) /\ EndsIn(u, p \o u, Len(p))
<1> DEFINE q == p \o u
           n == Len(p)
           l == Len(q)
           s == SubSeq(q, n + 1, l)
<1>1. q \in Seq(Int) /\ n \in Nat /\ Len(u) \in Nat /\ l = n + Len(u)
      /\ \A j \in 1..Len(u) : q[n + j] = u[j]
  OBVIOUS
<1> HIDE DEF q, n, l
<1>2. s \in Seq(Int) /\ Len(s) = Len(u) /\ \A j \in 1..Len(u) : s[j] = q[n + j]
  BY <1>1 DEF l
<1> HIDE DEF s
<1>3. s = u
  BY <1>1, <1>2, SeqEqual
<1>4. n \in 0..l
  BY <1>1
<1> QED
  BY <1>1, <1>3, <1>4 DEF EndsIn, q, n, l, s

\* What is written behind the tape has headers of its own.
LEMMA PostAppend ==
  ASSUME NEW p \in Seq(Int), Framed(p), NEW u \in Seq(Int), Framed(u)
  PROVE  /\ Framed(p \o u) /\ p \o u \in Seq(Int)
         /\ \A i, h, b : Post(p \o u, i, h, b) =>
               \/ Post(p, i, h, b)
               \/ \E j \in 1..Len(u) : i = Len(p) + j /\ Post(u, j, h, b)
<1> DEFINE q == p \o u
           n == Len(p)
           k == Len(u)
           l == Len(q)
<1>1. q \in Seq(Int) /\ n \in Nat /\ k \in Nat /\ l = n + k
      /\ (\A j \in 1..n : q[j] = p[j]) /\ (\A j \in 1..k : q[n + j] = u[j])
  OBVIOUS
<1>2. EndsIn(u, q, n)
  BY JoinEnds
<1>3. \A i \in 1..k, m \in Nat \ {0} :
         (Frame(u, i, m) <=> Frame(q, n + i, m))
         /\ (Frame(u, i, m) => Body(u, i, m) = Body(q, n + i, m))
  <2> HIDE DEF q, n
  <2> QED
    BY <1>1, <1>2, FrameSuffix
<1>4. \A i \in 1..n, m \in Nat \ {0} :
         Frame(p, i, m) => Frame(q, i, m) /\ Body(q, i, m) = Body(p, i, m)
  BY FrameFront
<1> HIDE DEF q, n, k, l
<1>5. \A i \in 1..l : i \in 1..n \/ \E j \in 1..k : i = n + j
  <2> SUFFICES ASSUME NEW i \in 1..l, i \notin 1..n PROVE \E j \in 1..k : i = n + j
    OBVIOUS
  <2>1. i - n \in 1..k /\ i = n + (i - n)
    BY <1>1
  <2> QED
    BY <2>1
<1>6. \A i \in 1..n : i \in 1..l /\ (i < n => i < l /\ i + 1 \in 1..n)
  BY <1>1
<1>7. \A j \in 1..k : n + j \in 1..l /\ (j < k => n + j < l /\ j + 1 \in 1..k /\ n + j + 1 = n + (j + 1))
  BY <1>1
<1>8. ASSUME NEW i \in 1..n
      PROVE  /\ IsHeader(q[i]) => \E m \in Nat \ {0} : Frame(p, i, m) /\ Frame(q, i, m)
             /\ q[i] = GT => i < l /\ q[i + 1] = SP
  <2>1. /\ IsHeader(p[i]) => \E m \in Nat \ {0} : Frame(p, i, m)
        /\ p[i] = GT => i < n /\ p[i + 1] = SP
    BY DEF Framed, n
  <2>2. q[i] = p[i]
    BY <1>1
  <2>3. IsHeader(q[i]) => \E m \in Nat \ {0} : Frame(p, i, m) /\ Frame(q, i, m)
    BY <1>4, <2>1, <2>2, Zenon
  <2>4. ASSUME q[i] = GT PROVE i < l /\ q[i + 1] = SP
    <3>1. i < n /\ p[i + 1] = SP
      BY <2>1, <2>2, <2>4
    <3> QED
      BY <1>1, <1>6, <3>1
  <2> QED
    BY <2>3, <2>4
<1>9. ASSUME NEW j \in 1..k
      PROVE  /\ IsHeader(q[n + j]) => \E m \in Nat \ {0} : Frame(q, n + j, m)
             /\ q[n + j] = GT => n + j < l /\ q[n + j + 1] = SP
  <2>1. /\ IsHeader(u[j]) => \E m \in Nat \ {0} : Frame(u, j, m)
        /\ u[j] = GT => j < k /\ u[j + 1] = SP
    BY DEF Framed, k
  <2>2. q[n + j] = u[j]
    BY <1>1
  <2>3. IsHeader(q[n + j]) => \E m \in Nat \ {0} : Frame(q, n + j, m)
    BY <1>3, <2>1, <2>2, Zenon
  <2>4. ASSUME q[n + j] = GT PROVE n + j < l /\ q[n + j + 1] = SP
    <3>1. j < k /\ u[j + 1] = SP
      BY <2>1, <2>2, <2>4
    <3>2. j + 1 \in 1..k /\ n + j + 1 = n + (j + 1) /\ n + j < l
      BY <1>7, <3>1
    <3> QED
      BY <1>1, <3>1, <3>2
  <2> QED
    BY <2>3, <2>4
<1>10. Framed(q)
  <2> SUFFICES ASSUME NEW i \in 1..l
               PROVE  /\ IsHeader(q[i]) => \E m \in Nat \ {0} : Frame(q, i, m)
                      /\ q[i] = GT => i < l /\ q[i + 1] = SP
    BY DEF Framed, l
  <2>1. CASE i \in 1..n
    BY <1>8, <2>1, Zenon
  <2>2. CASE \E j \in 1..k : i = n + j
    BY <1>9, <2>2, Zenon
  <2> QED
    BY <1>5, <2>1, <2>2, Zenon
<1>11. ASSUME NEW i, NEW h, NEW b, Post(q, i, h, b)
       PROVE  Post(p, i, h, b) \/ \E j \in 1..k : i = n + j /\ Post(u, j, h, b)
  <2>1. i \in 1..l /\ q[i] = h /\ IsHeader(h)
    BY <1>11 DEF Post, l
  <2>2. PICK m \in Nat \ {0} : Frame(q, i, m) /\ b = Body(q, i, m)
    BY <1>11 DEF Post
  <2>3. CASE i \in 1..n
    <3>1. PICK o \in Nat \ {0} : Frame(p, i, o) /\ Frame(q, i, o)
      BY <1>8, <2>1, <2>3, Zenon
    <3>2. o = m
      BY <1>1, <2>1, <2>2, <3>1, FrameOnce DEF l
    <3>3. b = Body(p, i, m) /\ Frame(p, i, m)
      BY <1>4, <2>2, <2>3, <3>1, <3>2
    <3>4. p[i] = h
      BY <1>1, <2>1, <2>3
    <3> QED
      BY <2>1, <2>3, <3>3, <3>4 DEF Post, n
  <2>4. CASE \E j \in 1..k : i = n + j
    <3>1. PICK j \in 1..k : i = n + j
      BY <2>4
    <3>2. Frame(u, j, m) /\ b = Body(u, j, m)
      BY <1>3, <2>2, <3>1
    <3>3. u[j] = h
      BY <1>1, <2>1, <3>1
    <3>4. Post(u, j, h, b)
      BY <2>1, <3>2, <3>3 DEF Post, k
    <3> QED
      BY <3>1, <3>4
  <2> QED
    BY <1>5, <2>1, <2>3, <2>4, Zenon
<1> QED
  BY <1>1, <1>10, <1>11, Zenon DEF q, n, k

\* A header with its body, and a prompt, as the modem writes them.
LineUnit(h, b) == <<CR, LF, h, CR, LF>> \o b \o <<CR, LF>>
PromptUnit == <<CR, LF, GT, SP>>
UnitPlaces(u, h, b) ==
    LET m == Len(b)
    IN  /\ u \in Seq(Int) /\ Len(u) = m + 7
        /\ u[1] = CR /\ u[2] = LF /\ u[3] = h /\ u[4] = CR /\ u[5] = LF
        /\ \A j \in 1..m : u[5 + j] = b[j]
        /\ u[m + 6] = CR /\ u[m + 7] = LF

LEMMA JoinPlaces ==
  ASSUME NEW p \in Seq(Int), NEW u \in Seq(Int)
  PROVE  /\ p \o u \in Seq(Int) /\ Len(p \o u) = Len(p) + Len(u)
         /\ \A j \in 1..Len(p) : (p \o u)[j] = p[j]
         /\ \A j \in 1..Len(u) : (p \o u)[Len(p) + j] = u[j]
OBVIOUS

LEMMA UnitIs ==
  ASSUME NEW h \in Int, NEW b \in Seq(Int)
  PROVE  UnitPlaces(LineUnit(h, b), h, b)
<1> DEFINE s == <<CR, LF, h, CR, LF>>
           e == <<CR, LF>>
           m == Len(b)
           t == s \o b
           u == t \o e
<1>1. CR \in Int /\ LF \in Int
  BY DEF CR, LF
<1>2. s \in Seq(Int) /\ Len(s) = 5 /\ e \in Seq(Int) /\ Len(e) = 2 /\ m \in Nat
      /\ s[1] = CR /\ s[2] = LF /\ s[3] = h /\ s[4] = CR /\ s[5] = LF /\ e[1] = CR /\ e[2] = LF
  BY <1>1
<1> HIDE DEF s, e
<1>3. t \in Seq(Int) /\ Len(t) = 5 + m /\ (\A j \in 1..5 : t[j] = s[j])
      /\ \A j \in 1..m : t[5 + j] = b[j]
  <2>1. /\ t \in Seq(Int) /\ Len(t) = Len(s) + Len(b)
        /\ \A j \in 1..Len(s) : t[j] = s[j]
        /\ \A j \in 1..Len(b) : t[Len(s) + j] = b[j]
    BY <1>2, JoinPlaces, Zenon
  <2> HIDE DEF t
  <2> QED
    BY <1>2, <2>1
<1> HIDE DEF t, m
<1>4. u \in Seq(Int) /\ Len(u) = 5 + m + 2 /\ (\A j \in 1..(5 + m) : u[j] = t[j])
      /\ u[5 + m + 1] = e[1] /\ u[5 + m + 2] = e[2]
  <2>1. /\ u \in Seq(Int) /\ Len(u) = Len(t) + Len(e)
        /\ \A j \in 1..Len(t) : u[j] = t[j]
        /\ \A j \in 1..Len(e) : u[Len(t) + j] = e[j]
    BY <1>2, <1>3, JoinPlaces, Zenon
  <2> HIDE DEF u
  <2>2. 1 \in 1..Len(e) /\ 2 \in 1..Len(e)
    BY <1>2
  <2> QED
    BY <1>2, <1>3, <2>1, <2>2
<1> HIDE DEF u
<1>5. \A j \in 1..m : u[5 + j] = b[j]
  <2> SUFFICES ASSUME NEW j \in 1..m PROVE u[5 + j] = b[j]
    OBVIOUS
  <2>1. 5 + j \in 1..(5 + m)
    BY <1>2
  <2> QED
    BY <1>3, <1>4, <2>1
<1>6. \A j \in 1..5 : u[j] = s[j]
  <2> SUFFICES ASSUME NEW j \in 1..5 PROVE u[j] = s[j]
    OBVIOUS
  <2>1. j \in 1..(5 + m)
    BY <1>2
  <2> QED
    BY <1>3, <1>4, <2>1
<1>7. u[1] = CR /\ u[2] = LF /\ u[3] = h /\ u[4] = CR /\ u[5] = LF
  BY <1>2, <1>6
<1>8. 5 + m + 2 = m + 7 /\ 5 + m + 1 = m + 6
  BY <1>2
<1> QED
  BY <1>2, <1>4, <1>5, <1>7, <1>8 DEF UnitPlaces, LineUnit, s, e, t, u, m

\* Of what the modem writes at a time, the header is the only one, its body the body.
LEMMA UnitPosts ==
  ASSUME NEW h \in Int, IsHeader(h), NEW b \in Seq(Nat), b # <<>>
  PROVE  /\ LineUnit(h, b) \in Seq(Int) /\ Framed(LineUnit(h, b))
         /\ \A i, g, c : Post(LineUnit(h, b), i, g, c) => i = 3 /\ g = h /\ c = b
<1> DEFINE u == LineUnit(h, b)
           m == Len(b)
<1>1. b \in Seq(Int) /\ m \in Nat \ {0} /\ (\A j \in 1..m : b[j] >= 0)
  OBVIOUS
<1>2. UnitPlaces(u, h, b)
  BY <1>1, UnitIs
<1> HIDE DEF u
<1>3. /\ u \in Seq(Int) /\ Len(u) = m + 7
      /\ u[1] = CR /\ u[2] = LF /\ u[3] = h /\ u[4] = CR /\ u[5] = LF
      /\ \A j \in 1..m : u[5 + j] = b[j]
      /\ u[m + 6] = CR /\ u[m + 7] = LF
  BY <1>2 DEF UnitPlaces
<1> HIDE DEF m
<1>a. \A j \in 1..m : 3 + 2 + j = 5 + j
  BY <1>1
<1>4. Frame(u, 3, m)
  <2>1. 3 + 1 = 4 /\ 3 + 2 = 5 /\ 3 + m + 3 = m + 6 /\ 3 + m + 4 = m + 7
    BY <1>1
  <2>2. \A j \in 1..m : u[3 + 2 + j] >= 0
    <3> SUFFICES ASSUME NEW j \in 1..m PROVE u[3 + 2 + j] >= 0
      OBVIOUS
    <3>1. u[3 + 2 + j] = b[j]
      BY <1>3, <1>a
    <3> QED
      BY <1>1, <3>1
  <2>3. 3 + m + 4 <= Len(u)
    BY <1>1, <1>3
  <2> QED
    BY <1>3, <2>1, <2>2, <2>3 DEF Frame
<1>5. Body(u, 3, m) = b
  <2> DEFINE c == Body(u, 3, m)
  <2>1. Holds3(c, u, 3, m)
    <3>1. 3 \in Nat /\ m \in Nat /\ 3 + m + 4 <= Len(u)
      BY <1>1, <1>3
    <3> QED
      BY <1>3, <3>1, BodyPlaces, Zenon
  <2> HIDE DEF c
  <2>2. \A j \in 1..m : c[j] = b[j]
    <3> SUFFICES ASSUME NEW j \in 1..m PROVE c[j] = b[j]
      OBVIOUS
    <3>1. c[j] = u[3 + 2 + j]
      BY <2>1 DEF Holds3
    <3> QED
      BY <1>3, <1>a, <3>1
  <2>3. c \in Seq(Int) /\ Len(c) = m
    BY <2>1 DEF Holds3
  <2>4. c = b
    BY <1>1, <2>2, <2>3, SeqEqual DEF m
  <2> QED
    BY <2>4 DEF c
<1>6. \A i \in 1..Len(u) : (u[i] = h /\ i = 3) \/ (u[i] > -100 /\ u[i] # GT)
  <2> SUFFICES ASSUME NEW i \in 1..Len(u), i # 3 PROVE u[i] > -100 /\ u[i] # GT
    BY <1>3
  <2>1. i \in {1, 2, 4, 5, m + 6, m + 7} \/ i - 5 \in 1..m
    BY <1>1, <1>3
  <2>2. CASE i \in {1, 2, 4, 5, m + 6, m + 7}
    <3>1. u[i] \in {CR, LF}
      <4>1. h # h \/ i # 3
        OBVIOUS
      <4> QED
        BY <1>1, <1>3, <2>2, <4>1
    <3> QED
      BY <3>1 DEF CR, LF, GT
  <2>3. CASE i - 5 \in 1..m
    <3>0. PICK k \in 1..m : i = 5 + k
      <4>1. i \in Int /\ i = 5 + (i - 5)
        BY <1>3
      <4> QED
        BY <2>3, <4>1
    <3>1. u[5 + k] = b[k] /\ b[k] >= 0
      BY <1>1, <1>3
    <3>2. u[i] >= 0
      BY <3>0, <3>1
    <3>3. u[i] \in Int
      BY <1>3
    <3> QED
      BY <3>2, <3>3 DEF GT
  <2> QED
    BY <2>1, <2>2, <2>3
<1>7. h # GT
  BY DEF IsHeader, GT
<1>8. Framed(u)
  <2> SUFFICES ASSUME NEW i \in 1..Len(u)
               PROVE  /\ IsHeader(u[i]) => \E n \in Nat \ {0} : Frame(u, i, n)
                      /\ u[i] = GT => i < Len(u) /\ u[i + 1] = SP
    BY DEF Framed
  <2>1. CASE u[i] = h /\ i = 3
    BY <1>1, <1>4, <1>7, <2>1
  <2>2. CASE u[i] > -100 /\ u[i] # GT
    BY <1>3, <2>2 DEF IsHeader
  <2> QED
    BY <1>6, <2>1, <2>2
<1>9. ASSUME NEW i, NEW g, NEW c, Post(u, i, g, c) PROVE i = 3 /\ g = h /\ c = b
  <2>1. i \in 1..Len(u) /\ u[i] = g /\ IsHeader(g)
    BY <1>9 DEF Post
  <2>2. i = 3 /\ g = h
    BY <1>3, <1>6, <2>1 DEF IsHeader
  <2>3. Post(u, 3, h, b)
    <3>1. 3 \in 1..Len(u)
      BY <1>1, <1>3
    <3> QED
      BY <1>1, <1>3, <1>4, <1>5, <3>1, Zenon DEF Post
  <2> QED
    BY <1>3, <1>9, <2>2, <2>3, PostOnce
<1> QED
  BY <1>3, <1>8, <1>9 DEF u

LEMMA PromptPosts ==
  /\ PromptUnit \in Seq(Int) /\ Framed(PromptUnit)
  /\ \A i, g, c : ~Post(PromptUnit, i, g, c)
<1> DEFINE u == PromptUnit
<1>1. u \in Seq(Int) /\ Len(u) = 4 /\ u[1] = -1 /\ u[2] = -2 /\ u[3] = -3 /\ u[4] = -4
  BY DEF PromptUnit, CR, LF, GT, SP
<1> HIDE DEF u
<1>2. \A i \in 1..Len(u) : ~IsHeader(u[i]) /\ (u[i] = -3 => i = 3)
  <2> SUFFICES ASSUME NEW i \in 1..Len(u) PROVE ~IsHeader(u[i]) /\ (u[i] = -3 => i = 3)
    OBVIOUS
  <2>1. i \in {1, 2, 3, 4}
    BY <1>1
  <2> QED
    BY <1>1, <2>1 DEF IsHeader
<1>3. Framed(u)
  BY <1>1, <1>2 DEF Framed, GT, SP
<1>4. \A i, g, c : ~Post(u, i, g, c)
  BY <1>2 DEF Post
<1> QED
  BY <1>1, <1>3, <1>4 DEF u

\* The places of what p ends in, and that they make it so.
LEMMA EndsBy ==
  ASSUME NEW p \in Seq(Int), NEW k \in 0..Len(p), NEW s \in Seq(Int), Len(s) = Len(p) - k,
         \A i \in 1..Len(s) : s[i] = p[k + i]
  PROVE  EndsIn(s, p, k)
<1> DEFINE n == Len(p)
           c == SubSeq(p, k + 1, n)
<1>1. n \in Nat /\ k \in Nat /\ k <= n
  OBVIOUS
<1>2. c \in Seq(Int) /\ Len(c) = n - k /\ \A i \in 1..(n - k) : c[i] = p[k + i]
  BY <1>1
<1> HIDE DEF c
<1>3. c = s
  BY <1>2, SeqEqual
<1> QED
  BY <1>3 DEF EndsIn, c

LEMMA EndsJoin ==
  ASSUME NEW p \in Seq(Int), NEW r \in Seq(Int), NEW k, NEW s, EndsIn(s, p, k)
  PROVE  EndsIn(s \o r, p \o r, k)
<1> DEFINE a == s \o r
           b == p \o r
           n == Len(p)
           m == Len(s)
           l == Len(r)
<1>1. s \in Seq(Int) /\ k \in Nat /\ k <= n /\ m = n - k /\ \A i \in 1..m : s[i] = p[k + i]
  BY SuffixPlaces
<1>2. /\ a \in Seq(Int) /\ Len(a) = m + l /\ (\A j \in 1..m : a[j] = s[j])
      /\ \A j \in 1..l : a[m + j] = r[j]
  BY <1>1, JoinPlaces
<1>3. /\ b \in Seq(Int) /\ Len(b) = n + l /\ (\A j \in 1..n : b[j] = p[j])
      /\ \A j \in 1..l : b[n + j] = r[j]
  BY JoinPlaces
<1>4. n \in Nat /\ m \in Nat /\ l \in Nat
  BY <1>1
<1> HIDE DEF a, b, n, m, l
<1>5. ASSUME NEW i \in 1..(m + l) PROVE a[i] = b[k + i]
  <2>1. CASE i \in 1..m
    <3>1. k + i \in 1..n
      BY <1>1, <1>4, <2>1
    <3> QED
      BY <1>1, <1>2, <1>3, <2>1, <3>1
  <2>2. CASE i \notin 1..m
    <3>1. i - m \in 1..l /\ m + (i - m) = i /\ n + (i - m) = k + i
      BY <1>1, <1>4, <2>2
    <3>2. a[m + (i - m)] = r[i - m] /\ b[n + (i - m)] = r[i - m]
      BY <1>2, <1>3, <3>1
    <3> QED
      BY <3>1, <3>2
  <2> QED
    BY <2>1, <2>2
<1>6. k \in 0..Len(b) /\ Len(a) = Len(b) - k /\ \A i \in 1..Len(a) : a[i] = b[k + i]
  BY <1>1, <1>2, <1>3, <1>4, <1>5
<1>7. EndsIn(a, b, k)
  BY <1>2, <1>3, <1>6, EndsBy
<1> QED
  BY <1>7 DEF a, b

LEMMA EndsTwice ==
  ASSUME NEW p \in Seq(Int), NEW k, NEW s, EndsIn(s, p, k), NEW j, NEW t, EndsIn(t, s, j)
  PROVE  EndsIn(t, p, k + j)
<1> DEFINE n == Len(p)
           m == Len(s)
           l == Len(t)
<1>1. s \in Seq(Int) /\ k \in Nat /\ k <= n /\ m = n - k /\ \A i \in 1..m : s[i] = p[k + i]
  BY SuffixPlaces
<1>2. t \in Seq(Int) /\ j \in Nat /\ j <= m /\ l = m - j /\ \A i \in 1..l : t[i] = s[j + i]
  BY <1>1, SuffixPlaces
<1>3. n \in Nat /\ m \in Nat /\ l \in Nat
  BY <1>1, <1>2
<1> HIDE DEF n, m, l
<1>4. ASSUME NEW i \in 1..l PROVE t[i] = p[k + j + i]
  <2>1. j + i \in 1..m /\ k + (j + i) = k + j + i
    BY <1>1, <1>2, <1>3
  <2>2. s[j + i] = p[k + (j + i)]
    BY <1>1, <2>1
  <2> QED
    BY <1>2, <2>1, <2>2
<1>5. k + j \in 0..n /\ l = n - (k + j)
  BY <1>1, <1>2, <1>3
<1> QED
  BY <1>2, <1>4, <1>5, EndsBy DEF n, l

LEMMA EndsSub ==
  ASSUME NEW p \in Seq(Int), NEW a \in 1..(Len(p) + 1)
  PROVE  EndsIn(SubSeq(p, a, Len(p)), p, a - 1)
<1>1. a - 1 \in 0..Len(p) /\ a - 1 + 1 = a
  OBVIOUS
<1> QED
  BY <1>1, Zenon DEF EndsIn

LEMMA EndsItself ==
  ASSUME NEW p \in Seq(Int)
  PROVE  EndsIn(p, p, 0) /\ EndsIn(<<>>, p, Len(p))
<1>1. p \in Seq(Int) /\ 0 \in 0..Len(p) /\ Len(p) \in 0..Len(p) /\ Len(p) = Len(p) - 0
      /\ \A i \in 1..Len(p) : 0 + i = i
  OBVIOUS
<1>2. <<>> \in Seq(Int) /\ Len(<<>>) = Len(p) - Len(p) /\ \A i \in 1..Len(<<>>) : FALSE
  OBVIOUS
<1>3. EndsIn(p, p, 0)
  BY <1>1, EndsBy
<1>4. EndsIn(<<>>, p, Len(p))
  BY <1>1, <1>2, EndsBy
<1> QED
  BY <1>3, <1>4

\* What a read passes on ends with a line end or with a prompt and its blank.
Closed(b) == b # <<>> => b[Len(b)] \in Ends \cup {GT, SP}

LEMMA EndsClosed ==
  ASSUME NEW p \in Seq(Int), Closed(p), NEW k, NEW s, EndsIn(s, p, k)
  PROVE  Closed(s)
<1> DEFINE n == Len(p)
           m == Len(s)
<1>1. s \in Seq(Int) /\ k \in Nat /\ k <= n /\ m = n - k /\ \A i \in 1..m : s[i] = p[k + i]
  BY SuffixPlaces
<1>2. ASSUME s # <<>> PROVE s[m] \in Ends \cup {GT, SP}
  <2>1. m \in 1..m /\ n \in Nat
    BY <1>1, <1>2
  <2> HIDE DEF n, m
  <2>2. k + m = n /\ n # 0
    BY <1>1, <2>1
  <2>3. p # <<>>
    BY <2>2 DEF n
  <2>4. p[n] \in Ends \cup {GT, SP}
    BY <2>3 DEF Closed, n
  <2> QED
    BY <1>1, <2>1, <2>2, <2>4
<1> QED
  BY <1>2 DEF Closed

\* gsm_san leaves the end of what it was given.
LEMMA RestIsEnd ==
  ASSUME NEW b \in Seq(Int)
  PROVE  \E k \in Nat : EndsIn(San[b].rest, b, k)
<1> DEFINE n == Len(b)
<1>1. PICK skip \in Nat, end \in Nat : SanAs(b, skip, end)
  BY SanIs
<1>2. EndsIn(b, b, 0) /\ EndsIn(<<>>, b, n)
  BY EndsItself
<1>3. n \in Nat
  OBVIOUS
<1> DEFINE behind == SubSeq(b, skip + 1, n)
           next == IF end < n /\ b[end + 1] = LF THEN end + 2 ELSE end
<1>4. CASE end > 0
  <2>1. San[b].rest = SubSeq(b, next, n) /\ end \in {0} \cup (skip + 1)..n /\ skip \in 0..n
    <3>1. /\ end \in {0} \cup (skip + 1)..n /\ skip \in 0..n
          /\ San[b] = [line |-> SubSeq(b, skip + 1, end - 1), rest |-> SubSeq(b, next, n), more |-> TRUE]
      BY <1>1, <1>4, Zenon DEF SanAs
    <3> DEFINE l == SubSeq(b, skip + 1, end - 1)
               r == SubSeq(b, next, n)
    <3>2. San[b] = [line |-> l, rest |-> r, more |-> TRUE]
      BY <3>1
    <3> HIDE DEF l, r
    <3>3. San[b].rest = r
      BY <3>2
    <3> QED
      BY <3>1, <3>3, Zenon DEF r
  <2>2. next \in 1..(n + 1)
    <3>1. end \in 1..n
      <4>1. end \in (skip + 1)..n
        BY <1>4, <2>1
      <4> QED
        BY <1>3, <4>1
    <3> HIDE DEF n
    <3>2. end \in 1..(n + 1) /\ (end < n => end + 2 \in 1..(n + 1))
      BY <1>3, <3>1
    <3>3. next = end \/ (end < n /\ next = end + 2)
      BY Zenon
    <3> QED
      BY <3>2, <3>3
  <2> HIDE DEF next
  <2>3. EndsIn(SubSeq(b, next, n), b, next - 1) /\ next - 1 \in Nat
    BY <2>2, EndsSub
  <2> QED
    BY <2>1, <2>3
<1>5. CASE end = 0
  <2>1. San[b].rest \in {<<>>, b}
    <3> HIDE DEF behind
    <3>1. /\ behind \in Prompts => San[b].rest = <<>>
          /\ behind = <<>> => San[b].rest = <<>>
          /\ behind \notin Prompts /\ behind # <<>> => San[b].rest = b
      BY <1>1, <1>5 DEF SanAs, behind
    <3> QED
      BY <3>1
  <2> QED
    BY <1>2, <1>3, <2>1
<1> QED
  BY <1>4, <1>5

\* Where a header line stands in what gsm_san takes lines off, on the tape p.
HeaderAt(p, b, i, m, e) ==
    /\ i \in 1..Len(b) /\ m \in Nat \ {0} /\ Frame(p, i, m) /\ p[i] = b[i]
    /\ i + 1 <= Len(b) /\ e \in {i + 1, i + 3}
    /\ San[b].line = <<b[i]>> /\ San[b].rest = SubSeq(b, e, Len(b))
    /\ e = i + 3 => i + 2 <= Len(b)
    /\ e = i + 1 => i + 1 = Len(b)

\* A line whose first character is a header is that character alone.
LEMMA HeaderAlone ==
  ASSUME NEW b \in Seq(Int), NEW r \in Seq(Int), Framed(b \o r), San[b].more, San[b].line # <<>>,
         IsHeader(San[b].line[1])
  PROVE  \E i, m, e : HeaderAt(b \o r, b, i, m, e)
<1> DEFINE p == b \o r
           n == Len(b)
<1>1. PICK skip \in Nat, end \in Nat : SanAs(b, skip, end)
  BY SanIs
<1> DEFINE behind == SubSeq(b, skip + 1, n)
           next == IF end < n /\ b[end + 1] = LF THEN end + 2 ELSE end
<1>2. n \in Nat /\ p \in Seq(Int) /\ \A j \in 1..n : p[j] = b[j] /\ j \in 1..Len(p)
  OBVIOUS
<1> HIDE DEF p
<1>3. end # 0
  <2> SUFFICES ASSUME end = 0 PROVE FALSE
    OBVIOUS
  <2>1. /\ behind \in Prompts => San[b].line = behind
        /\ behind = <<>> => San[b].line = <<>>
        /\ behind \notin Prompts /\ behind # <<>> => ~San[b].more
    BY <1>1 DEF SanAs
  <2>2. San[b].line \in Prompts
    BY <2>1
  <2>3. San[b].line[1] = GT
    BY <2>2 DEF Prompts
  <2> QED
    BY <2>3 DEF IsHeader, GT
<1>4. /\ end \in (skip + 1)..n /\ skip \in 0..n /\ b[end] = CR
      /\ \A j \in (skip + 1)..n : j < end => b[j] # CR
      /\ San[b].line = SubSeq(b, skip + 1, end - 1) /\ San[b].rest = SubSeq(b, next, n)
  <2>1. end > 0
    BY <1>3
  <2>2. /\ end \in {0} \cup (skip + 1)..n /\ skip \in 0..n /\ b[end] = CR
        /\ \A j \in (skip + 1)..n : (end = 0 \/ j < end) => b[j] # CR
        /\ San[b] = [line |-> SubSeq(b, skip + 1, end - 1), rest |-> SubSeq(b, next, n), more |-> TRUE]
    BY <1>1, <2>1, Zenon DEF SanAs
  <2>3. San[b].line = SubSeq(b, skip + 1, end - 1) /\ San[b].rest = SubSeq(b, next, n)
    <3> DEFINE front == SubSeq(b, skip + 1, end - 1)
               back == SubSeq(b, next, n)
    <3>1. San[b] = [line |-> front, rest |-> back, more |-> TRUE]
      BY <2>2
    <3> HIDE DEF front, back
    <3>2. San[b].line = front /\ San[b].rest = back
      BY <3>1
    <3> QED
      BY <3>2, Zenon DEF front, back
  <2> HIDE DEF next
  <2>4. end \in (skip + 1)..n
    BY <2>2, <1>3
  <2> QED
    BY <2>2, <2>3, <2>4
<1> DEFINE i == skip + 1
<1>5. i \in 1..n /\ end \in i..n /\ end - 1 \in 0..n
  <2> HIDE DEF n, next, behind
  <2>1. end \in (skip + 1)..n /\ skip \in 0..n
    BY <1>4
  <2> QED
    BY <1>2, <2>1
<1>6. end # i
  <2> SUFFICES ASSUME end = i PROVE FALSE
    OBVIOUS
  <2>1. SubSeq(b, i, i - 1) = <<>>
    BY <1>5
  <2> QED
    BY <1>4, <2>1
<1> HIDE DEF n, i, behind, next
<1>7. end - 1 \in i..n
  BY <1>2, <1>5, <1>6
<1>8. San[b].line[1] = b[i]
  <2>1. San[b].line = SubSeq(b, i, end - 1)
    BY <1>4 DEF i
  <2>2. i \in 1..n /\ end - 1 \in i..n
    BY <1>5, <1>7
  <2> QED
    BY <2>1, <2>2 DEF n
<1>9. PICK m \in Nat \ {0} : Frame(p, i, m)
  <2>1. p[i] = b[i] /\ i \in 1..Len(p)
    BY <1>2, <1>5
  <2> QED
    BY <1>8, <2>1 DEF Framed, p
<1>10. p[i + 1] = CR /\ p[i + 2] = LF
  BY <1>9 DEF Frame
<1>11. i + 1 \in 1..n /\ i + 1 <= end
  BY <1>2, <1>5, <1>6
<1>12. end = i + 1
  <2>1. b[i + 1] = CR
    BY <1>2, <1>10, <1>11
  <2>2. i + 1 \in (skip + 1)..n
    BY <1>1, <1>2, <1>11 DEF i
  <2> QED
    BY <1>4, <1>5, <1>11, <2>1, <2>2
<1>13. San[b].line = <<b[i]>>
  <2>1. SubSeq(b, i, i) = <<b[i]>>
    <3> DEFINE c == SubSeq(b, i, i)
    <3>1. i \in 1..Len(b) /\ i \in Nat
      BY <1>5 DEF n
    <3>2. c \in Seq(Int) /\ Len(c) = i - i + 1 /\ \A j \in 1..(i - i + 1) : c[j] = b[i + j - 1]
      BY <3>1
    <3> HIDE DEF c
    <3>3. i - i + 1 = 1 /\ i + 1 - 1 = i
      BY <3>1
    <3>4. Len(c) = 1 /\ c[1] = b[i]
      BY <3>2, <3>3
    <3> DEFINE d == <<b[i]>>
    <3>5. d \in Seq(Int) /\ Len(d) = 1 /\ d[1] = b[i]
      BY <3>1
    <3> HIDE DEF d
    <3>6. \A j \in 1..1 : c[j] = d[j]
      BY <3>4, <3>5
    <3>7. c = d
      BY <3>2, <3>4, <3>5, <3>6, SeqEqual
    <3> QED
      BY <3>7 DEF c, d
  <2>2. end - 1 = i
    BY <1>5, <1>12
  <2> QED
    BY <1>4, <2>1, <2>2 DEF i
<1>14. (end < n => b[end + 1] = LF /\ next = i + 3 /\ i + 2 <= n) /\ (~(end < n) => next = i + 1 /\ i + 1 = n)
  <2>1. ASSUME end < n PROVE b[end + 1] = LF /\ next = i + 3 /\ i + 2 <= n
    <3>1. end + 1 = i + 2 /\ i + 2 \in 1..n /\ end + 2 = i + 3
      BY <1>2, <1>5, <1>12, <2>1
    <3>2. b[i + 2] = LF
      BY <1>2, <1>10, <3>1
    <3> QED
      BY <1>5, <2>1, <3>1, <3>2 DEF next
  <2>2. ASSUME ~(end < n) PROVE next = i + 1 /\ i + 1 = n
    BY <1>2, <1>5, <1>12, <2>2 DEF next
  <2> QED
    BY <2>1, <2>2
<1>15. HeaderAt(p, b, i, m, next)
  <2>1. p[i] = b[i] /\ i + 1 <= n
    BY <1>2, <1>5, <1>11
  <2>2. next \in {i + 1, i + 3} /\ (next = i + 3 => i + 2 <= n) /\ (next = i + 1 => i + 1 = n)
    <3>1. i + 1 # i + 3
      BY <1>5
    <3> QED
      BY <1>14, <3>1
  <2> QED
    BY <1>4, <1>5, <1>9, <1>13, <2>1, <2>2 DEF HeaderAt, n
<1> QED
  BY <1>15 DEF p

\* Line ends alone are no line.
LEMMA SanNothing ==
  ASSUME NEW b \in Seq(Int), \A j \in 1..Len(b) : b[j] \in Ends
  PROVE  San[b].line = <<>>
<1> DEFINE n == Len(b)
<1>1. PICK skip \in Nat, end \in Nat : SanAs(b, skip, end)
  BY SanIs
<1> DEFINE behind == SubSeq(b, skip + 1, n)
<1>2. skip \in 0..n /\ end \in {0} \cup (skip + 1)..n /\ (skip < n => b[skip + 1] \notin Ends)
  BY <1>1, Zenon DEF SanAs
<1>3. n \in Nat
  OBVIOUS
<1>4. skip = n
  <2>1. ASSUME skip < n PROVE FALSE
    <3>1. skip + 1 \in 1..n
      BY <1>2, <1>3, <2>1
    <3> QED
      BY <1>2, <2>1, <3>1
  <2> QED
    BY <1>2, <1>3, <2>1
<1>5. end = 0
  BY <1>2, <1>3, <1>4
<1>6. behind = <<>>
  BY <1>3, <1>4
<1>7. San[b] = [line |-> <<>>, rest |-> <<>>, more |-> FALSE]
  BY <1>1, <1>5, <1>6, Zenon DEF SanAs
<1> QED
  BY <1>7

\* A body with its line end is given out as it is.
LEMMA SanBody ==
  ASSUME NEW b \in Seq(Int), NEW m \in Nat \ {0}, m + 1 <= Len(b),
         \A j \in 1..m : b[j] >= 0, b[m + 1] = CR
  PROVE  San[b].line = SubSeq(b, 1, m)
<1> DEFINE n == Len(b)
<1>1. PICK skip \in Nat, end \in Nat : SanAs(b, skip, end)
  BY SanIs
<1> DEFINE next == IF end < n /\ b[end + 1] = LF THEN end + 2 ELSE end
<1>2. /\ skip \in 0..n /\ end \in {0} \cup (skip + 1)..n /\ (\A j \in 1..skip : b[j] \in Ends)
      /\ end > 0 => b[end] = CR
      /\ \A j \in (skip + 1)..n : (end = 0 \/ j < end) => b[j] # CR
      /\ end > 0 => San[b] = [line |-> SubSeq(b, skip + 1, end - 1),
                              rest |-> SubSeq(b, next, n), more |-> TRUE]
  BY <1>1, Zenon DEF SanAs
<1>3. n \in Nat /\ m + 1 \in 1..n /\ 1 \in 1..m
  OBVIOUS
<1> HIDE DEF n, next
<1>4. skip = 0
  <2>1. ASSUME skip # 0 PROVE FALSE
    <3>1. 1 \in 1..skip
      BY <2>1
    <3>2. b[1] \in Ends /\ b[1] >= 0
      BY <1>2, <1>3, <3>1
    <3> QED
      BY <3>2 DEF Ends, CR, LF
  <2> QED
    BY <2>1
<1>5. end # 0
  <2>1. m + 1 \in (skip + 1)..n
    BY <1>3, <1>4
  <2> QED
    BY <1>2, <2>1
<1>6. end = m + 1
  <2>1. end \in 1..n /\ b[end] = CR /\ end > 0
    BY <1>2, <1>4, <1>5
  <2>2. end \notin 1..m
    BY <2>1 DEF CR
  <2>3. ~(m + 1 < end)
    <3>1. m + 1 \in (skip + 1)..n
      BY <1>3, <1>4
    <3> QED
      BY <1>2, <3>1
  <2> QED
    BY <1>3, <2>1, <2>2, <2>3
<1>7. end > 0 /\ skip + 1 = 1 /\ end - 1 = m
  BY <1>4, <1>6
<1> DEFINE front == SubSeq(b, skip + 1, end - 1)
           back == SubSeq(b, next, n)
<1>8. San[b] = [line |-> front, rest |-> back, more |-> TRUE]
  BY <1>2, <1>7
<1>9. front = SubSeq(b, 1, m)
  BY <1>7, Zenon
<1> HIDE DEF front, back
<1> QED
  BY <1>8, <1>9

LEMMA NoFramedEnd ==
  ASSUME NEW c \in Int, c >= 0
  PROVE  c \notin Ends \cup {GT, SP}
BY DEF Ends, CR, LF, GT, SP

\* What is taken next is the body, or nothing.
LEMMA BodyNext ==
  ASSUME NEW b \in Seq(Int), NEW r \in Seq(Int), NEW p, p = b \o r, Closed(b),
         NEW i, NEW m, NEW e, HeaderAt(p, b, i, m, e)
  PROVE  LET s == San[b].rest
         IN  /\ s \in Seq(Int) /\ EndsIn(s, b, e - 1) /\ i <= e - 1
             /\ San[s].line \in {<<>>, Body(p, i, m)}
<1> DEFINE n == Len(b)
           s == San[b].rest
<1>1. n \in Nat /\ p \in Seq(Int) /\ \A j \in 1..n : p[j] = b[j]
  OBVIOUS
<1>2. /\ i \in 1..n /\ m \in Nat \ {0} /\ Frame(p, i, m) /\ i + 1 <= n /\ e \in {i + 1, i + 3}
      /\ s = SubSeq(b, e, n) /\ (e = i + 3 => i + 2 <= n) /\ (e = i + 1 => i + 1 = n)
  BY Zenon DEF HeaderAt
<1> HIDE DEF s, n
<1>3. e \in 1..(n + 1) /\ i <= e - 1 /\ e - 1 \in Nat
  <2>1. i \in Nat /\ i + 1 <= n
    BY <1>1, <1>2
  <2>2. CASE e = i + 1
    BY <1>1, <2>1, <2>2
  <2>3. CASE e = i + 3
    <3>1. i + 2 <= n
      BY <1>2, <2>3
    <3> QED
      BY <1>1, <2>1, <2>3, <3>1
  <2> QED
    BY <1>2, <2>2, <2>3
<1>4. EndsIn(s, b, e - 1)
  BY <1>2, <1>3, EndsSub DEF n
<1>5. s \in Seq(Int) /\ Len(s) = n - (e - 1) /\ \A j \in 1..Len(s) : s[j] = b[e - 1 + j]
  <2>1. /\ s \in Seq(Int) /\ Len(s) = Len(b) - (e - 1)
        /\ \A j \in 1..Len(s) : s[j] = b[(e - 1) + j]
    BY <1>4, SuffixPlaces
  <2> QED
    BY <2>1, Zenon DEF n
<1>6. San[s].line \in {<<>>, Body(p, i, m)}
  <2>1. CASE e = i + 1
    <3>1. Len(s) = 1 /\ e - 1 + 1 = i + 1
      BY <1>1, <1>2, <1>5, <2>1
    <3>2. s[1] = b[i + 1]
      <4>1. 1 \in 1..Len(s)
        BY <3>1
      <4> QED
        BY <1>5, <3>1, <4>1
    <3>3. b[i + 1] = CR
      <4>1. p[i + 1] = CR
        BY <1>2 DEF Frame
      <4>2. i + 1 \in 1..n
        BY <1>1, <1>2
      <4> QED
        BY <1>1, <4>1, <4>2
    <3>4. \A j \in 1..Len(s) : s[j] \in Ends
      BY <3>1, <3>2, <3>3 DEF Ends
    <3> QED
      BY <1>5, <3>4, SanNothing
  <2>2. CASE e = i + 3 /\ i + 2 = n
    <3>1. Len(s) = 0
      BY <1>1, <1>2, <1>5, <2>2
    <3>2. \A j \in 1..Len(s) : s[j] \in Ends
      BY <3>1
    <3> QED
      BY <1>5, <3>2, SanNothing
  <2>3. CASE e = i + 3 /\ i + 2 < n
    <3>1. i \in Nat /\ e - 1 = i + 2 /\ Len(s) = n - (i + 2) /\ i + 3 <= n
      BY <1>1, <1>2, <1>5, <2>3
    <3>2. /\ i + m + 4 <= Len(p) /\ p[i + m + 3] = CR /\ \A j \in 1..m : p[i + 2 + j] >= 0
      BY <1>2 DEF Frame
    <3>3. i + m + 3 <= n
      <4>1. ASSUME n < i + m + 3 PROVE FALSE
        <5>1. n - (i + 2) \in 1..m /\ i + 2 + (n - (i + 2)) = n
          BY <1>1, <1>2, <3>1, <4>1
        <5>2. p[n] >= 0
          BY <3>2, <5>1
        <5>3. n \in 1..n /\ b # <<>>
          BY <1>1, <3>1 DEF n
        <5>4. b[n] >= 0 /\ b[n] \in Int
          BY <1>1, <5>2, <5>3 DEF n
        <5>5. b[n] \in Ends \cup {GT, SP}
          BY <5>3 DEF Closed, n
        <5> QED
          BY <5>4, <5>5, NoFramedEnd
      <4> QED
        BY <1>1, <1>2, <3>1, <4>1
    <3>4. \A j \in 1..m : s[j] = p[i + 2 + j]
      <4> SUFFICES ASSUME NEW j \in 1..m PROVE s[j] = p[i + 2 + j]
        OBVIOUS
      <4>1. j \in 1..Len(s) /\ i + 2 + j \in 1..n
        BY <1>1, <1>2, <3>1, <3>3
      <4>2. s[j] = b[i + 2 + j]
        BY <1>5, <3>1, <4>1
      <4> QED
        BY <1>1, <4>1, <4>2
    <3>5. m + 1 <= Len(s) /\ s[m + 1] = CR
      <4>1. m + 1 \in 1..Len(s) /\ i + m + 3 \in 1..n /\ i + 2 + (m + 1) = i + m + 3
        BY <1>1, <1>2, <3>1, <3>3
      <4>2. s[m + 1] = b[i + m + 3]
        BY <1>5, <3>1, <4>1
      <4>3. b[i + m + 3] = CR
        BY <1>1, <3>2, <4>1
      <4> QED
        BY <4>1, <4>2, <4>3
    <3>6. \A j \in 1..m : s[j] >= 0
      BY <3>2, <3>4
    <3>7. San[s].line = SubSeq(s, 1, m)
      BY <1>2, <1>5, <3>5, <3>6, SanBody
    <3>8. SubSeq(s, 1, m) = Body(p, i, m)
      <4> DEFINE c == SubSeq(s, 1, m)
                 d == Body(p, i, m)
      <4>1. m \in Nat /\ m <= Len(s)
        BY <1>2, <1>5, <3>5
      <4>2. c \in Seq(Int) /\ Len(c) = m /\ \A j \in 1..m : c[j] = s[j]
        BY <1>5, <4>1
      <4>3. Holds3(d, p, i, m)
        <5>1. i \in Nat /\ i + m + 4 <= Len(p)
          BY <3>1, <3>2
        <5> QED
          BY <1>1, <4>1, <5>1, BodyPlaces, Zenon
      <4> HIDE DEF c, d
      <4>4. d \in Seq(Int) /\ Len(d) = m /\ \A j \in 1..m : d[j] = p[i + 2 + j]
        BY <4>3 DEF Holds3
      <4>5. \A j \in 1..m : c[j] = d[j]
        BY <3>4, <4>2, <4>4
      <4>6. c = d
        BY <4>2, <4>4, <4>5, SeqEqual
      <4> QED
        BY <4>6 DEF c, d
    <3> QED
      BY <3>7, <3>8
  <2> QED
    BY <1>1, <1>2, <2>1, <2>2, <2>3
<1> QED
  BY <1>3, <1>4, <1>5, <1>6 DEF s

\* What module_receive takes when it comes on a header: the header's body, if it is
\* there, and the tape goes on behind the header.
TakesAt(p, b, r, i, c, k) ==
    LET s == San[b]
        t == San[s.rest]
    IN  /\ Post(p, i, s.line[1], c) /\ s.line = <<s.line[1]>> /\ t.line \in {<<>>, c}
        /\ k \in Nat /\ i <= k /\ EndsIn(t.rest \o r, p, k) /\ Closed(t.rest)

LEMMA HeaderTaken ==
  ASSUME NEW b \in Seq(Int), NEW r \in Seq(Int), NEW p, p = b \o r, Framed(p), Closed(b),
         San[b].more, San[b].line # <<>>, IsHeader(San[b].line[1])
  PROVE  \E i, c, k : TakesAt(p, b, r, i, c, k)
<1> DEFINE s == San[b]
           t == San[s.rest]
<1>1. PICK i, m, e : HeaderAt(p, b, i, m, e)
  BY HeaderAlone
<1>2. /\ i \in 1..Len(b) /\ m \in Nat \ {0} /\ Frame(p, i, m) /\ p[i] = b[i]
      /\ s.line = <<b[i]>>
  BY <1>1, Zenon DEF HeaderAt
<1>3. s.rest \in Seq(Int) /\ EndsIn(s.rest, b, e - 1) /\ i <= e - 1 /\ t.line \in {<<>>, Body(p, i, m)}
  BY <1>1, BodyNext, Zenon
<1>4. PICK j \in Nat : EndsIn(t.rest, s.rest, j)
  BY <1>3, RestIsEnd
<1> DEFINE k == e - 1 + j
<1>5. EndsIn(t.rest, b, k)
  BY <1>3, <1>4, EndsTwice
<1>6. Closed(t.rest)
  BY <1>5, EndsClosed
<1>7. EndsIn(t.rest \o r, p, k)
  BY <1>5, EndsJoin
<1>8. s.line = <<s.line[1]>> /\ s.line[1] = b[i] /\ i \in 1..Len(p) /\ IsHeader(b[i])
  BY <1>2
<1>9. Post(p, i, s.line[1], Body(p, i, m))
  BY <1>2, <1>8, Zenon DEF Post
<1>10. k \in Nat /\ i <= k
  <2>1. k \in 0..Len(b)
    BY <1>5, Zenon DEF EndsIn
  <2>2. e - 1 \in 0..Len(b)
    BY <1>3, Zenon DEF EndsIn
  <2> QED
    BY <1>2, <1>3, <2>1, <2>2
<1> HIDE DEF k
<1>11. TakesAt(p, b, r, i, Body(p, i, m), k)
  BY <1>3, <1>6, <1>7, <1>8, <1>9, <1>10, Zenon DEF TakesAt
<1> QED
  BY <1>11

------------------------------------------------------------------------------
(* What is written and read of the tape.                                   *)
Joined(s, p, u, V) ==
    /\ s \in Seq(V) /\ Len(s) = Len(p) + Len(u) /\ (\A j \in 1..Len(p) : s[j] = p[j])
    /\ \A j \in 1..Len(u) : s[Len(p) + j] = u[j]

LEMMA JoinedPlaces ==
  ASSUME NEW V, NEW p \in Seq(V), NEW u \in Seq(V)
  PROVE  Joined(p \o u, p, u, V)
BY DEF Joined

LEMMA CutJoins ==
  ASSUME NEW V, NEW b \in Seq(V), NEW h \in 0..Len(b)
  PROVE  SubSeq(b, 1, h) \o SubSeq(b, h + 1, Len(b)) = b
<1> DEFINE n == Len(b)
           c == SubSeq(b, 1, h)
           d == SubSeq(b, h + 1, n)
           s == c \o d
<1>1. n \in Nat /\ h \in Nat /\ h <= n
  OBVIOUS
<1>2. c \in Seq(V) /\ Len(c) = h /\ \A i \in 1..h : c[i] = b[i]
  BY <1>1
<1>3. d \in Seq(V) /\ Len(d) = n - h /\ \A i \in 1..(n - h) : d[i] = b[h + i]
  BY <1>1
<1> HIDE DEF c, d, n
<1>4. /\ s \in Seq(V) /\ Len(s) = Len(c) + Len(d) /\ (\A j \in 1..Len(c) : s[j] = c[j])
      /\ \A j \in 1..Len(d) : s[Len(c) + j] = d[j]
  <2>1. Joined(s, c, d, V)
    BY <1>2, <1>3, JoinedPlaces, Zenon
  <2> QED
    BY <2>1 DEF Joined
<1> HIDE DEF s
<1>5. Len(s) = n
  BY <1>1, <1>2, <1>3, <1>4
<1>6. ASSUME NEW i \in 1..n PROVE s[i] = b[i]
  <2>1. CASE i <= h
    BY <1>1, <1>2, <1>4, <2>1
  <2>2. CASE h < i
    <3>1. i - h \in 1..(n - h) /\ h + (i - h) = i
      BY <1>1, <2>2
    <3>2. s[h + (i - h)] = d[i - h] /\ d[i - h] = b[h + (i - h)]
      BY <1>2, <1>3, <1>4, <3>1
    <3> QED
      BY <3>1, <3>2
  <2> QED
    BY <1>1, <2>1, <2>2
<1>7. s = b
  BY <1>4, <1>5, <1>6, SeqEqual DEF n
<1> QED
  BY <1>7 DEF s, c, d, n

LEMMA FlattenTwo ==
  ASSUME NEW V, NEW a \in Seq(V), NEW b \in Seq(V)
  PROVE  FlattenSeq(<<a, b>>) = a \o b
<1> DEFINE W == Seq(V)
<1>1. a \in W /\ b \in W
  OBVIOUS
<1> HIDE DEF W
<1>2. <<a>> \in Seq(W) /\ <<a, b>> = Append(<<a>>, b)
  BY <1>1
<1>3. FlattenSeq(Append(<<a>>, b)) = FlattenSeq(<<a>>) \o b
  BY <1>1, <1>2, FlattenAppend, Zenon DEF W
<1>4. FlattenSeq(<<a>>) = a
  BY <1>1, FlattenOne, Zenon DEF W
<1> QED
  BY <1>2, <1>3, <1>4, Zenon

FlatFour(a, b, c, d) == FlattenSeq(<<a, b, c, d>>) = a \o b \o c \o d

LEMMA FlattenFour ==
  ASSUME NEW V, NEW a \in Seq(V), NEW b \in Seq(V), NEW c \in Seq(V), NEW d \in Seq(V)
  PROVE  FlatFour(a, b, c, d)
<1> DEFINE W == Seq(V)
<1>1. a \in W /\ b \in W /\ c \in W /\ d \in W
  OBVIOUS
<1> HIDE DEF W
<1>2. /\ <<a, b>> \in Seq(W) /\ <<a, b, c>> \in Seq(W) /\ <<a, b, c>> = Append(<<a, b>>, c)
      /\ <<a, b, c, d>> = Append(<<a, b, c>>, d)
  BY <1>1
<1>3. FlattenSeq(Append(<<a, b>>, c)) = FlattenSeq(<<a, b>>) \o c
  BY <1>1, <1>2, FlattenAppend, Zenon DEF W
<1>4. FlattenSeq(Append(<<a, b, c>>, d)) = FlattenSeq(<<a, b, c>>) \o d
  BY <1>1, <1>2, FlattenAppend, Zenon DEF W
<1>5. FlattenSeq(<<a, b>>) = a \o b
  BY <1>1, FlattenTwo, Zenon DEF W
<1> QED
  BY <1>2, <1>3, <1>4, <1>5, Zenon DEF FlatFour

LEMMA JoinOne ==
  ASSUME NEW s \in Seq(Int), NEW x \in Int
  PROVE  s \o <<x>> = Append(s, x)
<1> DEFINE t == <<x>>
           a == s \o t
           b == Append(s, x)
           n == Len(s)
<1>1. n \in Nat /\ t \in Seq(Int) /\ Len(t) = 1 /\ t[1] = x
  OBVIOUS
<1>2. b \in Seq(Int) /\ Len(b) = n + 1 /\ b[n + 1] = x /\ \A i \in 1..n : b[i] = s[i]
  OBVIOUS
<1> HIDE DEF t, b
<1>3. /\ a \in Seq(Int) /\ Len(a) = Len(s) + Len(t) /\ (\A j \in 1..Len(s) : a[j] = s[j])
      /\ \A j \in 1..Len(t) : a[Len(s) + j] = t[j]
  BY <1>1, JoinPlaces
<1> HIDE DEF a
<1>4. Len(a) = n + 1 /\ a[n + 1] = x
  <2>1. 1 \in 1..Len(t)
    BY <1>1
  <2> QED
    BY <1>1, <1>3, <2>1
<1>5. ASSUME NEW i \in 1..(n + 1) PROVE a[i] = b[i]
  <2>1. i \in 1..n \/ i = n + 1
    BY <1>1
  <2> QED
    BY <1>2, <1>3, <1>4, <2>1
<1>6. a = b
  BY <1>2, <1>3, <1>4, <1>5, SeqEqual
<1> QED
  BY <1>6 DEF a, b, t

\* The chunks of a line, one behind another.
LEMMA LinesFlat ==
  ASSUME NEW h \in Int, NEW body \in Seq(Int)
  PROVE  FlattenSeq(Lines(h, body)) = LineUnit(h, body)
<1> DEFINE n == Len(body)
           half == n \div 2
           a == <<CR, LF, h, CR>>
           b == <<LF>>
           c == SubSeq(body, 1, half)
           d == SubSeq(body, half + 1, n)
           e == <<CR, LF>>
           f == <<CR, LF, h, CR, LF>>
<1>1. n \in Nat /\ half \in 0..n
  OBVIOUS
<1>2. CR \in Int /\ LF \in Int
  BY DEF CR, LF
<1>3. a \in Seq(Int) /\ b \in Seq(Int) /\ e \in Seq(Int) /\ f \in Seq(Int) /\ a \o b = f
  <2>1. a \in Seq(Int) /\ b \in Seq(Int) /\ e \in Seq(Int) /\ f \in Seq(Int) /\ f = Append(a, LF)
    BY <1>2
  <2>2. a \o <<LF>> = Append(a, LF)
    BY <1>2, <2>1, JoinOne
  <2> QED
    BY <2>1, <2>2
<1>4. c \in Seq(Int) /\ d \in Seq(Int)
  BY <1>1
<1>5. c \o d = body
  <2> HIDE DEF half
  <2> QED
    BY <1>1, CutJoins
<1>6. Lines(h, body) = <<a, b, c, d \o e>>
  BY Zenon DEF Lines
<1> HIDE DEF a, b, c, d, e, f
<1>7. d \o e \in Seq(Int)
  BY <1>3, <1>4, ConcatTwo, Zenon
<1>8. FlattenSeq(<<a, b, c, d \o e>>) = a \o b \o c \o (d \o e)
  <2> DEFINE g == d \o e
  <2>1. g \in Seq(Int)
    BY <1>7
  <2> HIDE DEF g
  <2>2. FlattenSeq(<<a, b, c, g>>) = a \o b \o c \o g
    <3>1. a \in Seq(Int) /\ b \in Seq(Int) /\ c \in Seq(Int) /\ g \in Seq(Int)
      BY <1>3, <1>4, <2>1
    <3>2. FlatFour(a, b, c, g)
      BY <3>1, FlattenFour, Zenon
    <3> QED
      BY <3>2, Zenon DEF FlatFour
  <2> QED
    BY <2>2 DEF g
<1>9. f \o c \o (d \o e) = f \o body \o e
  <2>1. Associates(f \o c, d, e) /\ Associates(f, c, d)
    <3>1. f \o c \in Seq(Int)
      BY <1>3, <1>4, ConcatTwo, Zenon
    <3> QED
      BY <1>3, <1>4, <3>1, ConcatTwo, Zenon
  <2> QED
    BY <1>5, <2>1, Zenon DEF Associates
<1>10. FlattenSeq(Lines(h, body)) = f \o body \o e
  BY <1>3, <1>6, <1>8, <1>9, Zenon
<1> QED
  BY <1>10, Zenon DEF LineUnit, f, e

LEMMA PromptFlat == FlattenSeq(Prompt) = PromptUnit
<1> DEFINE a == <<CR, LF, GT>>
           b == <<SP>>
<1>1. a \in Seq(Int) /\ b \in Seq(Int) /\ a \o b = <<CR, LF, GT, SP>>
  <2>1. CR \in Int /\ LF \in Int /\ GT \in Int /\ SP \in Int
    BY DEF CR, LF, GT, SP
  <2>2. a \in Seq(Int) /\ b \in Seq(Int) /\ <<CR, LF, GT, SP>> = Append(a, SP)
    BY <2>1
  <2>3. a \o <<SP>> = Append(a, SP)
    BY <2>1, <2>2, JoinOne
  <2> QED
    BY <2>2, <2>3
<1>2. Prompt = <<a, b>>
  BY DEF Prompt
<1> HIDE DEF a, b
<1>3. FlattenSeq(<<a, b>>) = a \o b
  BY <1>1, FlattenTwo, Zenon
<1> QED
  BY <1>1, <1>2, <1>3, Zenon DEF PromptUnit

\* What the modem has written and nobody has taken.
Unread == acc \o FlattenSeq(stream)
Tape == san \o Unread

LEMMA TapeType ==
  ASSUME Readable
  PROVE  /\ FlattenSeq(stream) \in Seq(Int) /\ Unread \in Seq(Int) /\ Tape \in Seq(Int)
         /\ acc \in Seq(Int) /\ san \in Seq(Int) /\ stream \in Seq(Seq(Int))
<1>1. stream \in Seq(Seq(Int)) /\ acc \in Seq(Int) /\ san \in Seq(Int)
  BY DEF Readable
<1>2. FlattenSeq(stream) \in Seq(Int)
  BY <1>1, FlattenType
<1>3. Unread \in Seq(Int)
  BY <1>1, <1>2, ConcatTwo, Zenon DEF Unread
<1>4. Tape \in Seq(Int)
  BY <1>1, <1>3, ConcatTwo, Zenon DEF Tape
<1> QED
  BY <1>1, <1>2, <1>3, <1>4

LEMMA TapeWrites ==
  ASSUME Readable, NEW chunks \in Seq(Seq(Int)), Writes(chunks), UNCHANGED <<acc, san>>
  PROVE  Tape' = Tape \o FlattenSeq(chunks) /\ FlattenSeq(chunks) \in Seq(Int)
<1> DEFINE f == FlattenSeq(stream)
           g == FlattenSeq(chunks)
<1>1. stream' = stream \o chunks
  BY DEF Writes
<1>2. g \in Seq(Int) /\ f \in Seq(Int) /\ acc \in Seq(Int) /\ san \in Seq(Int) /\ Unread \in Seq(Int)
  BY TapeType, FlattenType
<1>3. FlattenSeq(stream \o chunks) = f \o g
  BY TapeType, FlattenConcat, Zenon
<1> HIDE DEF f, g
<1>4. Unread' = acc \o (f \o g)
  BY <1>1, <1>3, Zenon DEF Unread
<1>5. Associates(acc, f, g) /\ Associates(san, Unread, g)
  BY <1>2, ConcatTwo, Zenon
<1>6. Unread' = Unread \o g
  BY <1>4, <1>5, Zenon DEF Associates, Unread, f
<1>7. Tape' = san \o (Unread \o g)
  BY <1>6, Zenon DEF Tape
<1> QED
  BY <1>2, <1>5, <1>7, Zenon DEF Associates, Tape, g

\* What is passed on ends with a line end or a prompt, of which the tape has the blank.
LEMMA PassesClosed ==
  ASSUME NEW c \in Seq(Int), NEW r \in Seq(Int), Framed(c \o r), NEW waits, Passes(c, waits)
  PROVE  Closed(c)
<1> DEFINE n == Len(c)
           p == c \o r
           j == IF n > 2 THEN n - 1 ELSE 1
<1>1. c # <<>> /\ n \in Nat /\ n # 0
  BY DEF Passes
<1>2. Last(c) \in Ends \/ c[j] = GT
  BY Zenon DEF Passes
<1>3. Last(c) = c[n]
  BY <1>1 DEF Last
<1>4. /\ p \in Seq(Int) /\ \A i \in 1..n : p[i] = c[i] /\ i \in 1..Len(p)
  BY JoinPlaces
<1> HIDE DEF n, p
<1>5. ASSUME c[j] = GT PROVE c[n] \in {GT, SP}
  <2>1. j \in 1..n
    BY <1>1
  <2>2. p[j] = GT
    BY <1>4, <1>5, <2>1
  <2>3. p[j + 1] = SP
    BY <1>4, <2>1, <2>2 DEF Framed, p
  <2>4. CASE j = n
    BY <1>5, <2>4
  <2>5. CASE j # n
    <3>1. j + 1 = n /\ n \in 1..n
      BY <1>1, <2>5
    <3> QED
      BY <1>4, <2>3, <3>1
  <2> QED
    BY <2>4, <2>5
<1> QED
  BY <1>2, <1>3, <1>5 DEF Closed, n

\* A read moves what it takes and drops what does not fit.
LEMMA TapeReads ==
  ASSUME Readable, Framed(Tape), Closed(san), NEW n \in DOMAIN stream, Read(n)
  PROVE  (\E k \in Nat : EndsIn(Tape', Tape, k)) /\ Closed(san')
<1> DEFINE W == Seq(Int)
           l == Len(stream)
           s1 == SubSeq(stream, 1, n)
           s2 == SubSeq(stream, n + 1, l)
           f1 == FlattenSeq(s1)
           f2 == FlattenSeq(s2)
           c == Collected(n)
<1>1. /\ san = <<>> /\ stream' = s2
      /\ \/ Passes(c, sending # {}) /\ san' = c /\ acc' = <<>>
         \/ acc' = c /\ san' = san
  BY Zenon DEF Read
<1>2. stream \in Seq(W) /\ acc \in W /\ san \in W
  BY DEF Readable
<1> HIDE DEF W
<1>3. l \in Nat /\ n \in 1..l /\ s1 \in Seq(W) /\ s2 \in Seq(W) /\ s1 \o s2 = stream
  <2>1. l \in Nat /\ n \in 0..l /\ n \in 1..l
    BY <1>2
  <2>2. n + 1 \in Nat \ {0} /\ 1 \in Nat \ {0} /\ l \in Int /\ n \in Int /\ l <= l /\ n <= l
    BY <2>1
  <2>3. s1 \in Seq(W) /\ s2 \in Seq(W)
    BY <1>2, <2>2, SubSeqIn
  <2>4. s1 \o s2 = stream
    BY <1>2, <2>1, CutJoins
  <2> QED
    BY <2>1, <2>3, <2>4
<1> HIDE DEF s1, s2, l
<1>4. f1 \in W /\ f2 \in W
  BY <1>3, FlattenType DEF W
<1>5. FlattenSeq(stream) = f1 \o f2
  <2>1. FlattenSeq(s1 \o s2) = FlattenSeq(s1) \o FlattenSeq(s2)
    BY <1>3, FlattenConcat, Zenon DEF W
  <2> QED
    BY <1>3, <2>1, Zenon
<1> HIDE DEF f1, f2
<1> DEFINE d == acc \o f1
<1>6. d \in W /\ Associates(acc, f1, f2)
  BY <1>2, <1>4, ConcatTwo, Zenon DEF W
<1>7. Unread = d \o f2
  BY <1>5, <1>6, Zenon DEF Unread, Associates
<1>8. c = d \/ c = <<>>
  BY Zenon DEF Collected, Collects, f1, s1
<1> HIDE DEF c, d
<1>9. \A u : u \in W => <<>> \o u = u
  BY ConcatEmptySeq DEF W
<1>10. d \o f2 \in W /\ Unread \in W
  BY <1>4, <1>6, <1>7, ConcatTwo, Zenon DEF W
<1>11. Tape = d \o f2
  BY <1>1, <1>7, <1>9, <1>10, Zenon DEF Tape
<1>12. Tape' = san' \o (acc' \o f2)
  BY <1>1, Zenon DEF Tape, Unread, f2
<1>13. CASE c = d
  <2>1. Tape' = Tape
    <3>1. CASE Passes(c, sending # {}) /\ san' = c /\ acc' = <<>>
      BY <1>4, <1>9, <1>11, <1>12, <1>13, <3>1, Zenon
    <3>2. CASE acc' = c /\ san' = san
      BY <1>1, <1>9, <1>10, <1>11, <1>12, <1>13, <3>2, Zenon
    <3> QED
      BY <1>1, <3>1, <3>2
  <2>2. EndsIn(Tape, Tape, 0)
    BY TapeType, EndsItself
  <2>3. Closed(san')
    <3>1. CASE Passes(c, sending # {}) /\ san' = c
      <4>1. Framed(c \o f2)
        BY <1>11, <1>13
      <4>2. c \in Seq(Int) /\ f2 \in Seq(Int)
        BY <1>4, <1>6, <1>13 DEF W
      <4>3. Closed(c)
        BY <3>1, <4>1, <4>2, PassesClosed, Zenon
      <4> QED
        BY <3>1, <4>3
    <3>2. CASE san' = san
      BY <3>2
    <3> QED
      BY <1>1, <3>1, <3>2
  <2> QED
    BY <2>1, <2>2, <2>3
<1>14. CASE c = <<>>
  <2>1. ~Passes(c, sending # {})
    BY <1>14 DEF Passes
  <2>2. acc' = <<>> /\ san' = <<>>
    BY <1>1, <1>14, <2>1
  <2>3. Tape' = f2
    BY <1>4, <1>9, <1>12, <2>2, Zenon
  <2>4. EndsIn(f2, d \o f2, Len(d))
    BY <1>4, <1>6, JoinEnds, Zenon DEF W
  <2>5. Len(d) \in Nat
    BY <1>6 DEF W
  <2>6. Closed(san')
    BY <2>2 DEF Closed
  <2> QED
    BY <1>11, <2>3, <2>4, <2>5, <2>6
<1> QED
  BY <1>8, <1>13, <1>14

\* Taking lines off leaves an end of the tape.
LEMMA TapeTakes ==
  ASSUME Readable, Closed(san), UNCHANGED <<acc, stream>>,
         NEW s, san' = s, NEW k, EndsIn(s, san, k)
  PROVE  EndsIn(Tape', Tape, k) /\ k \in Nat /\ Closed(san')
<1>1. san \in Seq(Int) /\ Unread \in Seq(Int)
  BY TapeType
<1>2. Tape' = s \o Unread
  BY Zenon DEF Tape, Unread
<1>3. EndsIn(s \o Unread, san \o Unread, k)
  BY <1>1, EndsJoin
<1>4. Closed(s) /\ k \in Nat
  BY <1>1, EndsClosed, SuffixPlaces
<1> QED
  BY <1>2, <1>3, <1>4, Zenon DEF Tape

------------------------------------------------------------------------------
(* Each part once: what is on its way, on the tape and reported.           *)
Direct(a) == a.cmd \in {"file", "sms", "pdu", "text"}
ReportedOf(a) ==
    LET parts == Parts(a.cmd, a.text).parts
    IN  IF a.cmd \in {"file", "sms", "app"}
        THEN {<<i, Len(parts), parts[i]>> : i \in DOMAIN parts} ELSE {<<0, 0, a.text>>}
SenderOf(a) == CASE a.cmd = "pdu" -> Phone
                 [] a.cmd = "text" -> <<SP>> \o Phone
                 [] OTHER -> Own
ExactIn(a, e) ==
    <<e.part, e.total, e.text>> \in ReportedOf(a) /\ e.sender = SenderOf(a) /\ e.zone = 8

\* Part j of the text id, in a set of parcels, on a tape and in a list of events.
ParcelItem(ps, t, id, j) == t \in ps /\ t.id = id /\ t.part = j
PostItem(p, i, id, j) ==
    \E b : \/ Post(p, i, Header(id), b) /\ j = PduEvent(b).part
           \/ Post(p, i, TextHeader(id), b) /\ j = 0
EventItem(x, k, id, j) == k \in DOMAIN x /\ x[k].id = id /\ x[k].part = j
AsParcel(t) == <<"parcel", t>>
AsPost(i) == <<"post", i>>
AsEvent(k) == <<"event", k>>
IsItem(ps, p, x, z, id, j) ==
    \/ \E t : z = AsParcel(t) /\ ParcelItem(ps, t, id, j)
    \/ \E i : z = AsPost(i) /\ PostItem(p, i, id, j)
    \/ \E k : z = AsEvent(k) /\ EventItem(x, k, id, j)
Once(ps, p, x, id) ==
    \A j, y, z : IsItem(ps, p, x, y, id, j) /\ IsItem(ps, p, x, z, id, j) => y = z

LEMMA ItemsDiffer ==
  /\ \A t, u : AsParcel(t) = AsParcel(u) => t = u
  /\ \A t, u : AsPost(t) = AsPost(u) => t = u
  /\ \A t, u : AsEvent(t) = AsEvent(u) => t = u
  /\ \A t, u : AsParcel(t) # AsPost(u) /\ AsParcel(t) # AsEvent(u) /\ AsPost(t) # AsEvent(u)
BY DEF AsParcel, AsPost, AsEvent

\* Where an item comes from in a step: the tape moves on by k, the parcel t is written
\* at i1, the header at i0 is reported as the event k1.
Origin(k, t, i1, i0, k1, z, o) ==
    \/ \E u : z = AsParcel(u) /\ o = AsParcel(u) /\ u # t
    \/ \E i \in Nat \ {0} : z = AsPost(i) /\ o = AsPost(k + i)
    \/ z = AsPost(i1) /\ o = AsParcel(t)
    \/ \E n : z = AsEvent(n) /\ o = AsEvent(n) /\ n # k1
    \/ z = AsEvent(k1) /\ o = AsPost(i0)

LEMMA OriginOnce ==
  ASSUME NEW k \in Nat, NEW t, NEW i1, NEW i0 \in Nat, i0 <= k, NEW k1, NEW y, NEW z, NEW o,
         Origin(k, t, i1, i0, k1, y, o), Origin(k, t, i1, i0, k1, z, o)
  PROVE  y = z
<1> DEFINE P(w) == \E u : w = AsParcel(u) /\ o = AsParcel(u) /\ u # t
           Q(w) == \E i \in Nat \ {0} : w = AsPost(i) /\ o = AsPost(k + i)
           R(w) == w = AsPost(i1) /\ o = AsParcel(t)
           S(w) == \E n : w = AsEvent(n) /\ o = AsEvent(n) /\ n # k1
           T(w) == w = AsEvent(k1) /\ o = AsPost(i0)
<1>1. (P(y) \/ Q(y) \/ R(y) \/ S(y) \/ T(y)) /\ (P(z) \/ Q(z) \/ R(z) \/ S(z) \/ T(z))
  BY Zenon DEF Origin
<1>2. CASE P(y)
  BY <1>1, <1>2, ItemsDiffer
<1>3. CASE Q(y)
  BY <1>1, <1>3, ItemsDiffer
<1>4. CASE R(y)
  BY <1>1, <1>4, ItemsDiffer
<1>5. CASE S(y)
  BY <1>1, <1>5, ItemsDiffer
<1>6. CASE T(y)
  BY <1>1, <1>6, ItemsDiffer
<1> QED
  BY <1>1, <1>2, <1>3, <1>4, <1>5, <1>6, Zenon

\* A step from the items of (ps, p, x) to those of (qs, q, y), with these places.
Carries(ps, p, x, qs, q, y, id, k, t, i1, i0, k1) ==
    /\ \A u, j : ParcelItem(qs, u, id, j) => ParcelItem(ps, u, id, j) /\ u # t
    /\ \A i, j : PostItem(q, i, id, j) =>
          i \in Nat \ {0} /\ (PostItem(p, k + i, id, j) \/ (i = i1 /\ ParcelItem(ps, t, id, j)))
    /\ \A n, j : EventItem(y, n, id, j) =>
          \/ EventItem(x, n, id, j) /\ n # k1
          \/ n = k1 /\ PostItem(p, i0, id, j)

\* A step that moves items along keeps them apart.
LEMMA OnceKept ==
  ASSUME NEW ps, NEW p, NEW x, NEW id, Once(ps, p, x, id), NEW qs, NEW q, NEW y,
         NEW k \in Nat, NEW t, NEW i1, NEW i0 \in Nat, i0 <= k, NEW k1,
         Carries(ps, p, x, qs, q, y, id, k, t, i1, i0, k1)
  PROVE  Once(qs, q, y, id)
<1>0. /\ \A u, j : ParcelItem(qs, u, id, j) => ParcelItem(ps, u, id, j) /\ u # t
      /\ \A i, j : PostItem(q, i, id, j) =>
            i \in Nat \ {0} /\ (PostItem(p, k + i, id, j) \/ (i = i1 /\ ParcelItem(ps, t, id, j)))
      /\ \A n, j : EventItem(y, n, id, j) =>
            \/ EventItem(x, n, id, j) /\ n # k1
            \/ n = k1 /\ PostItem(p, i0, id, j)
  BY Zenon DEF Carries
<1>1. ASSUME NEW j, NEW z, IsItem(qs, q, y, z, id, j)
      PROVE  \E o : IsItem(ps, p, x, o, id, j) /\ Origin(k, t, i1, i0, k1, z, o)
  <2>1. ASSUME NEW u, z = AsParcel(u), ParcelItem(qs, u, id, j)
        PROVE  \E o : IsItem(ps, p, x, o, id, j) /\ Origin(k, t, i1, i0, k1, z, o)
    <3>1. IsItem(ps, p, x, AsParcel(u), id, j)
      BY <1>0, <2>1, Zenon DEF IsItem
    <3>2. Origin(k, t, i1, i0, k1, z, AsParcel(u))
      BY <1>0, <2>1, Zenon DEF Origin
    <3> QED
      BY <3>1, <3>2, Zenon
  <2>2. ASSUME NEW i, z = AsPost(i), PostItem(q, i, id, j)
        PROVE  \E o : IsItem(ps, p, x, o, id, j) /\ Origin(k, t, i1, i0, k1, z, o)
    <3>1. CASE PostItem(p, k + i, id, j)
      <4>1. IsItem(ps, p, x, AsPost(k + i), id, j)
        BY <3>1, Zenon DEF IsItem
      <4>2. Origin(k, t, i1, i0, k1, z, AsPost(k + i))
        BY <1>0, <2>2, Zenon DEF Origin
      <4> QED
        BY <4>1, <4>2, Zenon
    <3>2. CASE i = i1 /\ ParcelItem(ps, t, id, j)
      <4>1. IsItem(ps, p, x, AsParcel(t), id, j)
        BY <3>2, Zenon DEF IsItem
      <4>2. Origin(k, t, i1, i0, k1, z, AsParcel(t))
        BY <2>2, <3>2, Zenon DEF Origin
      <4> QED
        BY <4>1, <4>2, Zenon
    <3> QED
      BY <1>0, <2>2, <3>1, <3>2, Zenon
  <2>3. ASSUME NEW n, z = AsEvent(n), EventItem(y, n, id, j)
        PROVE  \E o : IsItem(ps, p, x, o, id, j) /\ Origin(k, t, i1, i0, k1, z, o)
    <3>1. CASE EventItem(x, n, id, j) /\ n # k1
      <4>1. IsItem(ps, p, x, AsEvent(n), id, j)
        BY <3>1, Zenon DEF IsItem
      <4>2. Origin(k, t, i1, i0, k1, z, AsEvent(n))
        BY <2>3, <3>1, Zenon DEF Origin
      <4> QED
        BY <4>1, <4>2, Zenon
    <3>2. CASE n = k1 /\ PostItem(p, i0, id, j)
      <4>1. IsItem(ps, p, x, AsPost(i0), id, j)
        BY <3>2, Zenon DEF IsItem
      <4>2. Origin(k, t, i1, i0, k1, z, AsPost(i0))
        BY <2>3, <3>2, Zenon DEF Origin
      <4> QED
        BY <4>1, <4>2, Zenon
    <3> QED
      BY <1>0, <2>3, <3>1, <3>2, Zenon
  <2> QED
    BY <1>1, <2>1, <2>2, <2>3, Zenon DEF IsItem
<1>2. ASSUME NEW j, NEW z, NEW w, IsItem(qs, q, y, z, id, j), IsItem(qs, q, y, w, id, j)
      PROVE  z = w
  <2>1. PICK o : IsItem(ps, p, x, o, id, j) /\ Origin(k, t, i1, i0, k1, z, o)
    BY <1>1, <1>2, Zenon
  <2>2. PICK v : IsItem(ps, p, x, v, id, j) /\ Origin(k, t, i1, i0, k1, w, v)
    BY <1>1, <1>2, Zenon
  <2>3. o = v
    BY <2>1, <2>2, Zenon DEF Once
  <2> QED
    BY <2>1, <2>2, <2>3, OriginOnce, Zenon
<1> QED
  BY <1>2, Zenon DEF Once

\* What gsm_encode_pdu makes of a part has digits only.
LEMMA EncodedType ==
  ASSUME NEW ucs2 \in BOOLEAN, NEW x, Codable(ucs2, x), NEW i \in Nat, NEW n \in Nat
  PROVE  EncodePdu(Smsc, Own, ucs2, x, i, n) \in Seq(Nat)
<1> DEFINE dcs == IF ucs2 THEN 8 ELSE 0
           c == SmscField(Smsc)
           h == Hex(<<113, 0>>)
           a == Address(Own)
           h3 == Hex(<<0, dcs, 0>>)
           ud == UserData(ucs2, x, i, n)
<1>1. EncodePdu(Smsc, Own, ucs2, x, i, n) = c \o h \o a \o h3 \o ud
  BY AddressType, ConfiguredCentre, Zenon DEF EncodePdu
<1>2. PICK l \in Nat : \E o \in Seq(Nat) : Measures(l, o, ud, ucs2, x)
  BY UserDataIs, Zenon
<1>3. ud \in Seq(Nat)
  BY <1>2, Zenon DEF Measures
<1>4. dcs \in Octet /\ 113 \in Octet /\ 0 \in Octet
  BY OctetIs
<1> HIDE DEF ud, dcs
<1>5. c \in Seq(Nat) /\ h \in Seq(Nat) /\ a \in Seq(Nat)
  BY <1>4, CentreIs, HexTwo, AddressType
<1>6. h3 \in Seq(Nat)
  <2>1. Nat \subseteq Nat
    OBVIOUS
  <2> QED
    BY <1>4, <2>1, HexThree, Zenon
<1> HIDE DEF c, h, a, h3
<1>7. c \o h \in Seq(Nat)
  BY <1>5
<1>8. c \o h \o a \in Seq(Nat)
  BY <1>5, <1>7
<1>9. c \o h \o a \o h3 \in Seq(Nat)
  BY <1>6, <1>8
<1>10. c \o h \o a \o h3 \o ud \in Seq(Nat)
  BY <1>3, <1>9
<1> QED
  BY <1>1, <1>10, Zenon

LEMMA AskedType ==
  ASSUME NEW cmd \in {"file", "sms", "app"}, NEW text \in Messages,
         NEW p, p = Parts(cmd, text), NEW i \in 1..Len(p.parts),
         NEW pdu, pdu = EncodeText(Smsc, Own, p.coding, p.parts[i], i, Len(p.parts))
  PROVE  pdu \in Seq(Nat)
<1> DEFINE x == p.parts[i]
           ucs2 == Coded(p.coding, x)
           n == Len(p.parts)
           sized == cmd \in {"file", "sms"} /\ WellFormed(text)
<1>1. PartsAre(p, sized)
  BY CommandParts
<1>2. Codable(ucs2, x) /\ p.parts \in Seq(Seq(Octet))
  BY <1>1, Zenon DEF PartsAre
<1>3. n \in Nat /\ i \in Nat
  <2> DEFINE W == Seq(Octet)
  <2>1. p.parts \in Seq(W)
    BY <1>2
  <2> HIDE DEF W
  <2> QED
    BY <2>1
<1>4. ucs2 \in BOOLEAN
  BY Zenon DEF Coded
<1>5. pdu = EncodePdu(Smsc, Own, ucs2, x, i, n)
  BY Zenon DEF EncodeText, Coded
<1> HIDE DEF x, ucs2, n, sized
<1> QED
  BY <1>2, <1>3, <1>4, <1>5, EncodedType

\* The two headers of a text name it and no other.
LEMMA HeadersApart ==
  ASSUME NEW id \in 0..99, NEW n \in 0..99
  PROVE  /\ Header(id) \in Int /\ TextHeader(id) \in Int
         /\ IsHeader(Header(id)) /\ IsHeader(TextHeader(id))
         /\ IdOf(Header(id)) = id /\ IdOf(TextHeader(id)) = id
         /\ Header(id) # TextHeader(n)
         /\ (Header(id) = Header(n) \/ TextHeader(id) = TextHeader(n)) => id = n
BY DEF Header, TextHeader, IsHeader, IdOf

LEMMA NotIn ==
  ASSUME NEW S
  PROVE  \E t : t \notin S
<1> DEFINE r == {x \in S : x \notin x}
<1>1. r \notin S
  OBVIOUS
<1> QED
  BY <1>1, Zenon

------------------------------------------------------------------------------
(* The invariant of what is reported.                                      *)
\* The header h with the body b reports the text a, whose number is id.
Good(a, id, h, b) ==
    \/ /\ h = Header(id) /\ b \in Seq(Nat) /\ a.cmd # "text"
       /\ Direct(a) => ExactIn(a, PduEvent(b))
    \/ h = TextHeader(id) /\ a.cmd = "text" /\ b = a.text
\* Every header on the tape p reports one of the texts x.
Posted(p, x) == \A i, h, b : Post(p, i, h, b) => \E id \in DOMAIN x : Good(x[id], id, h, b)
\* The parcels hold digits, and are none of a phone's.
Hexed(ps, x) == \A t \in ps : t.pdu \in Seq(Nat) /\ x[t.id].cmd \notin {"pdu", "text"}
\* The events y report the texts x, if their body came.
Told(y, x, s) ==
    \A k \in DOMAIN y :
        /\ y[k].id \in DOMAIN x /\ y[k].pdu \in Seq(Nat)
        /\ Direct(x[y[k].id]) /\ y[k].id \notin s => ExactIn(x[y[k].id], y[k])
EachOnce(ps, p, y, x) == \A id \in DOMAIN x : Direct(x[id]) => Once(ps, p, y, id)
Distinct(a, b, c) == \A t : ~(t \in a /\ t \in b) /\ ~(t \in a /\ t \in c) /\ ~(t \in b /\ t \in c)
Longer(x, y) == \A id \in DOMAIN x : id \in DOMAIN y /\ y[id] = x[id]
EInv ==
    /\ Framed(Tape) /\ Closed(san) /\ Len(asked) <= 99
    /\ Posted(Tape, asked) /\ Hexed(Parcels, asked) /\ Told(inbox, asked, apart)
    /\ EachOnce(Parcels, Tape, inbox, asked) /\ Distinct(todo, sending, air)

LEMMA LongerKeeps ==
  ASSUME NEW x, NEW y, Longer(x, y)
  PROVE  /\ \A p : Posted(p, x) => Posted(p, y)
         /\ \A e, s : Told(e, x, s) => Told(e, y, s)
         /\ \A ps : Hexed(ps, x) /\ (\A t \in ps : t.id \in DOMAIN x) => Hexed(ps, y)
<1>1. ASSUME NEW p, Posted(p, x) PROVE Posted(p, y)
  BY <1>1, Zenon DEF Posted, Longer
<1>2. ASSUME NEW e, NEW s, Told(e, x, s) PROVE Told(e, y, s)
  BY <1>2, Zenon DEF Told, Longer
<1>3. ASSUME NEW ps, Hexed(ps, x), \A t \in ps : t.id \in DOMAIN x PROVE Hexed(ps, y)
  BY <1>3, Zenon DEF Hexed, Longer
<1> QED
  BY <1>1, <1>2, <1>3, Zenon

LEMMA LongerAppend ==
  ASSUME NEW x, x \in Seq(ToSet(x)), NEW y, NEW e, y = Append(x, e)
  PROVE  /\ Longer(x, y) /\ y[Len(x) + 1] = e
         /\ \A i \in DOMAIN y : i \in DOMAIN x \/ i = Len(x) + 1
BY AppendIs, Zenon DEF Longer

LEMMA PostPlace ==
  ASSUME NEW p \in Seq(Int), NEW i, NEW id, NEW j, PostItem(p, i, id, j)
  PROVE  i \in Nat \ {0} /\ i <= Len(p)
<1>1. i \in 1..Len(p)
  BY Zenon DEF PostItem, Post
<1> QED
  BY <1>1

\* What is on the tape q was k characters further on the tape p.
Moved(q, p, k) ==
    /\ q \in Seq(Int) /\ Framed(q) /\ k \in Nat
    /\ \A i, h, b : Post(q, i, h, b) => Post(p, k + i, h, b)

\* What goes off the front of the tape, or is dropped, is not reported twice.
LEMMA OnceMoved ==
  ASSUME NEW p, NEW k, NEW q, Moved(q, p, k),
         NEW ps, NEW qs, qs \subseteq ps, NEW y, NEW id, Once(ps, p, y, id)
  PROVE  Once(qs, q, y, id)
<1>1. PICK t : t \notin ps
  BY NotIn, Zenon
<1>2. PICK k1 : k1 \notin DOMAIN y
  BY NotIn, Zenon
<1>3. \A u, j : ParcelItem(qs, u, id, j) => ParcelItem(ps, u, id, j) /\ u # t
  BY <1>1, Zenon DEF ParcelItem
<1>4. /\ q \in Seq(Int) /\ k \in Nat
      /\ \A i, h, b : Post(q, i, h, b) => Post(p, k + i, h, b)
  BY Zenon DEF Moved
<1>5. ASSUME NEW i, NEW j, PostItem(q, i, id, j)
      PROVE  i \in Nat \ {0} /\ PostItem(p, k + i, id, j)
  <2>1. i \in Nat \ {0}
    BY <1>4, <1>5, PostPlace
  <2>2. PostItem(p, k + i, id, j)
    BY <1>4, <1>5, Zenon DEF PostItem
  <2> QED
    BY <2>1, <2>2
<1>6. \A n, j : EventItem(y, n, id, j) => EventItem(y, n, id, j) /\ n # k1
  BY <1>2, Zenon DEF EventItem
<1>7. k \in Nat /\ 0 \in Nat /\ 0 <= k
  BY <1>4
<1>8. Carries(ps, p, y, qs, q, y, id, k, t, 0, 0, k1)
  BY <1>3, <1>5, <1>6, Zenon DEF Carries
<1> QED
  BY <1>7, <1>8, OnceKept, Zenon

\* Nothing is asked or reported, and what the tape has stays or goes.
LEMMA QuietStep ==
  ASSUME EInv, UNCHANGED <<asked, inbox>>, apart \subseteq apart', Parcels' \subseteq Parcels,
         Distinct(todo', sending', air'), NEW k, Moved(Tape', Tape, k), Closed(san')
  PROVE  EInv'
<1>1. /\ Len(asked) <= 99
      /\ Posted(Tape, asked) /\ Hexed(Parcels, asked) /\ Told(inbox, asked, apart)
      /\ EachOnce(Parcels, Tape, inbox, asked)
  BY Zenon DEF EInv
<1>2. Framed(Tape') /\ \A i, h, b : Post(Tape', i, h, b) => Post(Tape, k + i, h, b)
  BY Zenon DEF Moved
<1>3. Posted(Tape', asked)
  BY <1>1, <1>2, Zenon DEF Posted
<1>4. Hexed(Parcels', asked) /\ Told(inbox, asked, apart')
  BY <1>1, Zenon DEF Hexed, Told
<1>5. EachOnce(Parcels', Tape', inbox, asked)
  <2> SUFFICES ASSUME NEW id \in DOMAIN asked, Direct(asked[id])
               PROVE  Once(Parcels', Tape', inbox, id)
    BY Zenon DEF EachOnce
  <2>1. Once(Parcels, Tape, inbox, id)
    BY <1>1, Zenon DEF EachOnce
  <2> DEFINE p == Tape
             q == Tape'
             ps == Parcels
             qs == Parcels'
             y == inbox
  <2>2. Moved(q, p, k) /\ Once(ps, p, y, id) /\ qs \subseteq ps
    BY <2>1
  <2> HIDE DEF p, q, ps, qs, y
  <2>3. Once(qs, q, y, id)
    BY <2>2, OnceMoved, Zenon
  <2> QED
    BY <2>3 DEF p, q, ps, qs, y
<1> QED
  BY <1>1, <1>2, <1>3, <1>4, <1>5, Zenon DEF EInv

LEMMA EndMoved ==
  ASSUME NEW p \in Seq(Int), Framed(p), NEW k, NEW q, EndsIn(q, p, k)
  PROVE  Moved(q, p, k)
<1>1. Framed(q) /\ q \in Seq(Int) /\ \A i, h, b : Post(q, i, h, b) => Post(p, k + i, h, b)
  BY PostSuffix, Zenon
<1>2. k \in Nat
  BY SuffixPlaces
<1> QED
  BY <1>1, <1>2, Zenon DEF Moved

LEMMA PromptMoved ==
  ASSUME NEW p \in Seq(Int), Framed(p)
  PROVE  Moved(p \o PromptUnit, p, 0)
<1> DEFINE u == PromptUnit
           q == p \o u
<1>1. u \in Seq(Int) /\ Framed(u) /\ \A i, g, c : ~Post(u, i, g, c)
  BY PromptPosts
<1> HIDE DEF u
<1>2. /\ Framed(q) /\ q \in Seq(Int)
      /\ \A i, h, b : Post(q, i, h, b) =>
               \/ Post(p, i, h, b)
               \/ \E j \in 1..Len(u) : i = Len(p) + j /\ Post(u, j, h, b)
  BY <1>1, PostAppend, Zenon
<1> HIDE DEF q
<1>3. ASSUME NEW i, NEW h, NEW b, Post(q, i, h, b) PROVE Post(p, 0 + i, h, b)
  <2>1. i \in 1..Len(q)
    BY <1>3, Zenon DEF Post
  <2>2. 0 + i = i
    BY <2>1
  <2>3. Post(p, i, h, b)
    BY <1>1, <1>2, <1>3, Zenon
  <2> QED
    BY <2>2, <2>3
<1>4. Moved(q, p, 0)
  <2>1. 0 \in Nat
    OBVIOUS
  <2> QED
    BY <1>2, <1>3, <2>1, Zenon DEF Moved
<1> QED
  BY <1>4 DEF q, u

\* The tape before a step.
LEMMA TapeIs ==
  ASSUME IInv, EInv
  PROVE  /\ Readable /\ Tape \in Seq(Int) /\ Framed(Tape) /\ Closed(san)
         /\ san \in Seq(Int) /\ Distinct(todo, sending, air)
<1>1. Readable
  BY Zenon DEF IInv
<1>2. Tape \in Seq(Int) /\ san \in Seq(Int)
  BY <1>1, TapeType
<1> QED
  BY <1>1, <1>2, Zenon DEF EInv

\* A step that leaves an end of the tape.
LEMMA EndStep ==
  ASSUME IInv, EInv, UNCHANGED <<asked, inbox>>, apart \subseteq apart', Parcels' \subseteq Parcels,
         Distinct(todo', sending', air'), NEW k, EndsIn(Tape', Tape, k), Closed(san')
  PROVE  EInv'
<1>1. Moved(Tape', Tape, k)
  <2> DEFINE p == Tape
             q == Tape'
  <2>1. p \in Seq(Int) /\ Framed(p) /\ EndsIn(q, p, k)
    BY TapeIs
  <2> HIDE DEF p, q
  <2>2. Moved(q, p, k)
    BY <2>1, EndMoved, Zenon
  <2> QED
    BY <2>2 DEF p, q
<1> QED
  BY <1>1, QuietStep

LEMMA ExactSend ==
  ASSUME IInv, EInv, NEW t \in todo, Send(t)
  PROVE  EInv'
<1>1. /\ sending = {} /\ sending' = {t} /\ todo' = todo \ {t} /\ Writes(Prompt)
      /\ UNCHANGED <<asked, air, acc, san, inbox, apart>>
  BY DEF Send
<1>2. Parcels' \subseteq Parcels
  BY <1>1 DEF Parcels
<1>3. Distinct(todo', sending', air')
  BY <1>1, TapeIs DEF Distinct
<1>4. Prompt \in Seq(Seq(Int))
  <2>1. 0 \in Int /\ <<>> \in Seq(Int)
    OBVIOUS
  <2> QED
    BY <2>1, LinesType, Zenon
<1>5. Tape' = Tape \o PromptUnit
  BY <1>1, <1>4, TapeIs, TapeWrites, PromptFlat
<1>6. Moved(Tape', Tape, 0)
  <2>1. Moved(Tape \o PromptUnit, Tape, 0)
    BY TapeIs, PromptMoved
  <2> QED
    BY <1>5, <2>1
<1>7. Closed(san')
  BY <1>1, TapeIs
<1> QED
  BY <1>1, <1>2, <1>3, <1>6, <1>7, QuietStep

LEMMA ExactRead ==
  ASSUME IInv, EInv, NEW n \in DOMAIN stream, Read(n)
  PROVE  EInv'
<1>1. UNCHANGED <<asked, todo, sending, air, inbox, apart>>
  BY Zenon DEF Read
<1>2. Parcels' \subseteq Parcels
  BY <1>1 DEF Parcels
<1>3. Distinct(todo', sending', air')
  BY <1>1, TapeIs
<1>4. (\E k \in Nat : EndsIn(Tape', Tape, k)) /\ Closed(san')
  BY TapeIs, TapeReads
<1>5. PICK k \in Nat : EndsIn(Tape', Tape, k)
  BY <1>4
<1> QED
  BY <1>1, <1>2, <1>3, <1>4, <1>5, EndStep

LEMMA ExactLine ==
  ASSUME IInv, EInv, UNCHANGED <<asked, apart, inbox, acc, stream>>,
         Parcels' \subseteq Parcels, Distinct(todo', sending', air'), san' = San[san].rest
  PROVE  EInv'
<1>1. PICK k \in Nat : EndsIn(San[san].rest, san, k)
  BY TapeIs, RestIsEnd
<1>2. EndsIn(Tape', Tape, k) /\ Closed(san')
  <2> DEFINE s == San[san].rest
  <2>1. san' = s /\ EndsIn(s, san, k) /\ Readable /\ Closed(san) /\ UNCHANGED <<acc, stream>>
    BY <1>1, TapeIs
  <2> HIDE DEF s
  <2> QED
    BY <2>1, TapeTakes
<1> QED
  BY <1>2, EndStep

LEMMA ExactTakeLine ==
  ASSUME IInv, EInv, TakeLine
  PROVE  EInv'
<1>1. /\ san' = San[san].rest
      /\ \/ air' = air \cup sending /\ sending' = {}
         \/ UNCHANGED <<air, sending>>
      /\ UNCHANGED <<asked, todo, stream, acc, inbox, apart>>
  BY Zenon DEF TakeLine
<1>2. Parcels' \subseteq Parcels
  BY <1>1 DEF Parcels
<1>3. Distinct(todo', sending', air')
  BY <1>1, TapeIs DEF Distinct
<1> QED
  BY <1>1, <1>2, <1>3, ExactLine

LEMMA ExactTakeEnds ==
  ASSUME IInv, EInv, TakeEnds
  PROVE  EInv'
<1>1. /\ San[san].rest = <<>> /\ san' = <<>>
      /\ UNCHANGED <<asked, todo, sending, air, stream, acc, inbox, apart>>
  BY Zenon DEF TakeEnds
<1>2. Parcels' \subseteq Parcels
  BY <1>1 DEF Parcels
<1>3. Distinct(todo', sending', air')
  BY <1>1, TapeIs
<1>4. san' = San[san].rest
  BY <1>1
<1> QED
  BY <1>1, <1>2, <1>3, <1>4, ExactLine

LEMMA ExactStands ==
  ASSUME IInv, EInv, UNCHANGED vars
  PROVE  EInv'
<1>1. UNCHANGED <<asked, todo, sending, air, stream, acc, san, inbox, apart>>
  BY Zenon DEF vars
<1> QED
  BY <1>1 DEF EInv, Tape, Unread, Parcels

\* What stands on the tape q was on p, or is the header h at i with the body b.
Grown(q, p, i, h, b) ==
    /\ q \in Seq(Int) /\ Framed(q)
    /\ \A k, g, c : Post(q, k, g, c) =>
          k \in Nat \ {0} /\ (Post(p, 0 + k, g, c) \/ (k = i /\ g = h /\ c = b))

LEMMA LineGrows ==
  ASSUME NEW p \in Seq(Int), Framed(p), NEW h \in Int, IsHeader(h), NEW b \in Seq(Nat), b # <<>>
  PROVE  Grown(p \o LineUnit(h, b), p, Len(p) + 3, h, b)
<1> DEFINE u == LineUnit(h, b)
           q == p \o u
<1>1. u \in Seq(Int) /\ Framed(u) /\ \A i, g, c : Post(u, i, g, c) => i = 3 /\ g = h /\ c = b
  BY UnitPosts
<1> HIDE DEF u
<1>2. /\ Framed(q) /\ q \in Seq(Int)
      /\ \A k, g, c : Post(q, k, g, c) =>
               \/ Post(p, k, g, c)
               \/ \E j \in 1..Len(u) : k = Len(p) + j /\ Post(u, j, g, c)
  BY <1>1, PostAppend, Zenon
<1> HIDE DEF q
<1>3. ASSUME NEW k, NEW g, NEW c, Post(q, k, g, c)
      PROVE  k \in Nat \ {0} /\ (Post(p, 0 + k, g, c) \/ (k = Len(p) + 3 /\ g = h /\ c = b))
  <2>1. k \in 1..Len(q)
    BY <1>3, Zenon DEF Post
  <2>2. 0 + k = k /\ k \in Nat \ {0}
    BY <2>1
  <2>3. Post(p, k, g, c) \/ (k = Len(p) + 3 /\ g = h /\ c = b)
    <3>1. CASE \E j \in 1..Len(u) : k = Len(p) + j /\ Post(u, j, g, c)
      <4>1. PICK j \in 1..Len(u) : k = Len(p) + j /\ Post(u, j, g, c)
        BY <3>1
      <4>2. j = 3 /\ g = h /\ c = b
        BY <1>1, <4>1, Zenon
      <4> QED
        BY <4>1, <4>2
    <3> QED
      BY <1>2, <1>3, <3>1, Zenon
  <2>4. Post(p, k, g, c) => Post(p, 0 + k, g, c)
    BY <2>2
  <2> QED
    BY <2>2, <2>3, <2>4, Zenon
<1>4. Grown(q, p, Len(p) + 3, h, b)
  BY <1>2, <1>3, Zenon DEF Grown
<1> QED
  BY <1>4 DEF q, u

\* What the modem writes of a text.
LEMMA LineWritten ==
  ASSUME IInv, EInv, NEW h \in Int, IsHeader(h), NEW b \in Seq(Nat), b # <<>>,
         Writes(Lines(h, b)), UNCHANGED <<acc, san>>
  PROVE  Grown(Tape', Tape, Len(Tape) + 3, h, b)
<1>1. Nat \subseteq Int
  OBVIOUS
<1>2. b \in Seq(Int)
  BY <1>1, SeqWithin, Zenon
<1>3. Lines(h, b) \in Seq(Seq(Int)) /\ FlattenSeq(Lines(h, b)) = LineUnit(h, b)
  BY <1>2, LinesType, LinesFlat, Zenon
<1>4. Tape' = Tape \o LineUnit(h, b)
  <2> DEFINE w == Lines(h, b)
  <2>1. w \in Seq(Seq(Int)) /\ Writes(w) /\ FlattenSeq(w) = LineUnit(h, b)
    BY <1>3
  <2> HIDE DEF w
  <2> QED
    BY <2>1, TapeIs, TapeWrites
<1> DEFINE p == Tape
<1>5. p \in Seq(Int) /\ Framed(p)
  BY TapeIs
<1> HIDE DEF p
<1>6. Grown(p \o LineUnit(h, b), p, Len(p) + 3, h, b)
  BY <1>5, LineGrows
<1> QED
  BY <1>4, <1>6, Zenon DEF p

LEMMA GrownPosted ==
  ASSUME NEW q, NEW p, NEW i, NEW h, NEW b, Grown(q, p, i, h, b),
         NEW x, Posted(p, x), NEW id \in DOMAIN x, Good(x[id], id, h, b)
  PROVE  Framed(q) /\ Posted(q, x)
<1>1. /\ Framed(q)
      /\ \A k, g, c : Post(q, k, g, c) =>
            k \in Nat \ {0} /\ (Post(p, 0 + k, g, c) \/ (k = i /\ g = h /\ c = b))
  BY Zenon DEF Grown
<1>2. ASSUME NEW k, NEW g, NEW c, Post(q, k, g, c) PROVE \E n \in DOMAIN x : Good(x[n], n, g, c)
  <2>1. CASE Post(p, 0 + k, g, c)
    BY <2>1, Zenon DEF Posted
  <2>2. CASE k = i /\ g = h /\ c = b
    <3>1. Good(x[id], id, g, c)
      BY <2>2
    <3> QED
      BY <3>1, Zenon
  <2>3. Post(p, 0 + k, g, c) \/ (k = i /\ g = h /\ c = b)
    BY <1>1, <1>2
  <2> QED
    BY <2>1, <2>2, <2>3
<1> QED
  BY <1>1, <1>2, Zenon DEF Posted

LEMMA IdIs ==
  ASSUME IInv, EInv, NEW id \in DOMAIN asked
  PROVE  id \in 0..99 /\ id # Len(asked) + 1 /\ Len(asked) \in Nat
<1> DEFINE V == ToSet(asked)
<1>1. asked \in Seq(V)
  BY Zenon DEF IInv, Histories
<1>2. Len(asked) <= 99
  BY Zenon DEF EInv
<1> HIDE DEF V
<1> DEFINE n == Len(asked)
<1>3. id \in 1..n /\ n \in Nat /\ n <= 99
  BY <1>1, <1>2
<1> HIDE DEF n
<1>4. id \in 0..99 /\ id # n + 1
  BY <1>3
<1> QED
  BY <1>3, <1>4 DEF n

\* A part that comes back as it was asked for is reported exactly.
LEMMA AsAskedExact ==
  ASSUME NEW t, NEW a, AsAsked(t, a), a.cmd \notin {"pdu", "text"}, Direct(a)
  PROVE  LET e == PduEvent(Delivered(t.pdu)) IN ExactIn(a, e) /\ e.part = t.part
<1> DEFINE e == PduEvent(Delivered(t.pdu))
           p == Parts(a.cmd, a.text).parts
<1>1. a.cmd \in {"file", "sms"}
  BY DEF Direct
<1>2. IsPart(e, p, t.part)
  BY <1>1, Zenon DEF AsAsked
<1>3. ReportedOf(a) = {<<i, Len(p), p[i]>> : i \in DOMAIN p}
  BY <1>1 DEF ReportedOf
<1>4. SenderOf(a) = Own
  BY <1>1 DEF SenderOf
<1> HIDE DEF e, p
<1>5. /\ e.part = t.part /\ e.total = Len(p) /\ e.text = p[t.part] /\ e.sender = Own /\ e.zone = 8
      /\ t.part \in DOMAIN p
  BY <1>2 DEF IsPart
<1>6. <<e.part, e.total, e.text>> \in ReportedOf(a)
  BY <1>3, <1>5, Zenon
<1> QED
  BY <1>4, <1>5, <1>6, Zenon DEF ExactIn, e

LEMMA ExactDeliver ==
  ASSUME IInv, EInv, AllAsAsked, NEW t \in air, Deliver(t)
  PROVE  EInv'
<1> DEFINE id0 == t.id
           b0 == Delivered(t.pdu)
           h0 == Header(id0)
           i0 == Len(Tape) + 3
           a == asked[id0]
<1>1. /\ air' = air \ {t} /\ Writes(Lines(h0, b0))
      /\ UNCHANGED <<asked, todo, sending, acc, san, inbox, apart>>
  BY DEF Deliver
<1>2. t \in Parcels /\ Parcels' \subseteq Parcels
  BY <1>1 DEF Parcels
<1>3. Distinct(todo', sending', air') /\ t \notin Parcels'
  BY <1>1, TapeIs DEF Distinct, Parcels
<1>4. id0 \in DOMAIN asked /\ AsAsked(t, a) /\ t.pdu \in Seq(Nat) /\ a.cmd \notin {"pdu", "text"}
  BY <1>2, Zenon DEF IInv, Ids, AllAsAsked, EInv, Hexed
<1>5. id0 \in 0..99
  BY <1>4, IdIs
<1>6. h0 \in Int /\ IsHeader(h0)
  BY <1>5, HeadersApart
<1>7. b0 \in Seq(Nat) /\ b0 # <<>>
  <2>1. Nat \subseteq Nat
    OBVIOUS
  <2> QED
    BY <1>4, <2>1, DeliveredType, Zenon
<1>8. Direct(a) => ExactIn(a, PduEvent(b0)) /\ PduEvent(b0).part = t.part
  BY <1>4, AsAskedExact, Zenon
<1> HIDE DEF b0, h0, a
<1>10. Grown(Tape', Tape, i0, h0, b0)
  BY <1>1, <1>6, <1>7, LineWritten, Zenon
<1>11. /\ Len(asked) <= 99
       /\ Posted(Tape, asked) /\ Hexed(Parcels, asked) /\ Told(inbox, asked, apart)
       /\ EachOnce(Parcels, Tape, inbox, asked)
  BY Zenon DEF EInv
<1> HIDE DEF i0
<1>12. Framed(Tape') /\ Posted(Tape', asked)
  <2>1. Good(a, id0, h0, b0)
    BY <1>4, <1>7, <1>8, Zenon DEF Good, h0
  <2>2. Posted(Tape, asked) /\ Good(asked[id0], id0, h0, b0) /\ id0 \in DOMAIN asked
    BY <1>4, <1>11, <2>1 DEF a
  <2> DEFINE p == Tape
             q == Tape'
  <2>3. Grown(q, p, i0, h0, b0) /\ Posted(p, asked)
    BY <1>10, <2>2
  <2> HIDE DEF p, q, id0
  <2>4. Framed(q) /\ Posted(q, asked)
    BY <2>2, <2>3, GrownPosted, Zenon
  <2> QED
    BY <2>4 DEF p, q
<1>13. Hexed(Parcels', asked)
  BY <1>2, <1>11, Zenon DEF Hexed
<1>14. EachOnce(Parcels', Tape', inbox, asked)
  <2> SUFFICES ASSUME NEW id \in DOMAIN asked, Direct(asked[id])
               PROVE  Once(Parcels', Tape', inbox, id)
    BY Zenon DEF EachOnce
  <2>1. Once(Parcels, Tape, inbox, id) /\ id \in 0..99
    BY <1>11, IdIs, Zenon DEF EachOnce
  <2> DEFINE p == Tape
             q == Tape'
             ps == Parcels
             qs == Parcels'
             y == inbox
  <2>2. /\ Once(ps, p, y, id) /\ qs \subseteq ps /\ t \in ps /\ t \notin qs
        /\ Grown(q, p, i0, h0, b0)
    BY <1>2, <1>3, <1>10, <2>1
  <2> HIDE DEF p, q, ps, qs, y
  <2>3. PICK k1 : k1 \notin DOMAIN y
    BY NotIn, Zenon
  <2>4. \A u, j : ParcelItem(qs, u, id, j) => ParcelItem(ps, u, id, j) /\ u # t
    BY <2>2, Zenon DEF ParcelItem
  <2>5. \A n, j : EventItem(y, n, id, j) => EventItem(y, n, id, j) /\ n # k1
    BY <2>3, Zenon DEF EventItem
  <2>6. ASSUME NEW i, NEW j, PostItem(q, i, id, j)
        PROVE  i \in Nat \ {0} /\ (PostItem(p, 0 + i, id, j) \/ (i = i0 /\ ParcelItem(ps, t, id, j)))
    <3>1. \A k, g, c : Post(q, k, g, c) =>
             k \in Nat \ {0} /\ (Post(p, 0 + k, g, c) \/ (k = i0 /\ g = h0 /\ c = b0))
      BY <2>2, Zenon DEF Grown
    <3>2. PICK b : \/ Post(q, i, Header(id), b) /\ j = PduEvent(b).part
                   \/ Post(q, i, TextHeader(id), b) /\ j = 0
      BY <2>6, Zenon DEF PostItem
    <3>3. CASE Post(q, i, Header(id), b) /\ j = PduEvent(b).part
      <4>1. i \in Nat \ {0} /\ (Post(p, 0 + i, Header(id), b) \/ (i = i0 /\ Header(id) = h0 /\ b = b0))
        BY <3>1, <3>3, Zenon
      <4>2. CASE Post(p, 0 + i, Header(id), b)
        BY <3>3, <4>1, <4>2, Zenon DEF PostItem
      <4>3. CASE i = i0 /\ Header(id) = h0 /\ b = b0
        <5>1. id = id0
          BY <1>5, <2>1, <4>3, HeadersApart DEF h0
        <5>2. Direct(a)
          BY <5>1, Zenon DEF a
        <5>3. j = t.part
          BY <1>8, <3>3, <4>3, <5>2, Zenon
        <5>4. ParcelItem(ps, t, id, j)
          BY <2>2, <5>1, <5>3, Zenon DEF ParcelItem
        <5> QED
          BY <4>1, <4>3, <5>4, Zenon
      <4> QED
        BY <4>1, <4>2, <4>3, Zenon
    <3>4. CASE Post(q, i, TextHeader(id), b) /\ j = 0
      <4>1. /\ i \in Nat \ {0}
            /\ Post(p, 0 + i, TextHeader(id), b) \/ (i = i0 /\ TextHeader(id) = h0 /\ b = b0)
        BY <3>1, <3>4, Zenon
      <4>2. TextHeader(id) # h0
        BY <1>5, <2>1, HeadersApart DEF h0
      <4> QED
        BY <3>4, <4>1, <4>2, Zenon DEF PostItem
    <3> QED
      BY <3>2, <3>3, <3>4, Zenon
  <2>7. Carries(ps, p, y, qs, q, y, id, 0, t, i0, 0, k1)
    BY <2>4, <2>5, <2>6, Zenon DEF Carries
  <2>8. Once(qs, q, y, id)
    <3>1. 0 \in Nat /\ 0 <= 0
      OBVIOUS
    <3> QED
      BY <2>2, <2>7, <3>1, OnceKept, Zenon
  <2> QED
    BY <2>8 DEF p, q, ps, qs, y
<1>15. Closed(san')
  BY <1>1, TapeIs
<1> QED
  BY <1>1, <1>3, <1>11, <1>12, <1>13, <1>14, <1>15, Zenon DEF EInv

\* Nothing of the text id is on its way, on the tape p or among the events y.
Unknown(ps, p, y, id) ==
    /\ \A t \in ps : t.id # id
    /\ \A i, j : ~PostItem(p, i, id, j)
    /\ \A k \in DOMAIN y : y[k].id # id

\* The number of the next text is not in use.
LEMMA Fresh ==
  ASSUME IInv, EInv, NEW id, id = Len(asked) + 1, id \in 0..99
  PROVE  id \notin DOMAIN asked /\ Unknown(Parcels, Tape, inbox, id)
<1>1. \A n \in DOMAIN asked : n \in 0..99 /\ n # id
  BY IdIs
<1>2. \A t \in Parcels : t.id # id
  BY <1>1, Zenon DEF IInv, Ids
<1>3. \A k \in DOMAIN inbox : inbox[k].id # id
  BY <1>1, Zenon DEF EInv, Told
<1>4. ASSUME NEW i, NEW j, PostItem(Tape, i, id, j) PROVE FALSE
  <2>1. PICK h, b : Post(Tape, i, h, b) /\ (h = Header(id) \/ h = TextHeader(id))
    BY <1>4, Zenon DEF PostItem
  <2>2. PICK n \in DOMAIN asked : Good(asked[n], n, h, b)
    BY <2>1, Zenon DEF EInv, Posted
  <2>3. h = Header(n) \/ h = TextHeader(n)
    BY <2>2, Zenon DEF Good
  <2>4. id = n
    <3>1. n \in 0..99
      BY <1>1
    <3>2. Header(id) # TextHeader(n) /\ Header(n) # TextHeader(id)
          /\ ((Header(id) = Header(n) \/ TextHeader(id) = TextHeader(n)) => id = n)
      BY <3>1, HeadersApart, Zenon
    <3> QED
      BY <2>1, <2>3, <3>2
  <2> QED
    BY <1>1, <2>4
<1> QED
  BY <1>1, <1>2, <1>3, <1>4, Zenon DEF Unknown

LEMMA OnceOther ==
  ASSUME NEW ps, NEW p, NEW y, NEW id, Once(ps, p, y, id),
         NEW qs, \A u \in qs : u.id = id => u \in ps
  PROVE  Once(qs, p, y, id)
<1>1. \A j, z : IsItem(qs, p, y, z, id, j) => IsItem(ps, p, y, z, id, j)
  BY Zenon DEF IsItem, ParcelItem
<1> QED
  BY <1>1, Zenon DEF Once

\* Of a text not known before, there is what is handed over.
LEMMA OnceNew ==
  ASSUME NEW ps, NEW p, NEW y, NEW id, Unknown(ps, p, y, id),
         NEW qs, \A t, u \in qs : t.id = id /\ u.id = id /\ t.part = u.part => t = u
  PROVE  Once(qs, p, y, id)
<1>1. ASSUME NEW j, NEW z, IsItem(qs, p, y, z, id, j)
      PROVE  \E t : z = AsParcel(t) /\ ParcelItem(qs, t, id, j)
  BY <1>1, Zenon DEF IsItem, Unknown, EventItem
<1>2. ASSUME NEW j, NEW z, NEW w, IsItem(qs, p, y, z, id, j), IsItem(qs, p, y, w, id, j)
      PROVE  z = w
  <2>1. PICK t : z = AsParcel(t) /\ ParcelItem(qs, t, id, j)
    BY <1>1, <1>2, Zenon
  <2>2. PICK u : w = AsParcel(u) /\ ParcelItem(qs, u, id, j)
    BY <1>1, <1>2, Zenon
  <2>3. t = u
    BY <2>1, <2>2 DEF ParcelItem
  <2> QED
    BY <2>1, <2>2, <2>3
<1> QED
  BY <1>2, Zenon DEF Once

\* A text x more, and the parcels its command hands over.
Hands(id, x, new) ==
    /\ asked' = Append(asked, x) /\ todo' = todo \cup new
    /\ UNCHANGED <<sending, air, stream, acc, san, inbox, apart>>
    /\ id = Len(asked) + 1 /\ id \in 0..99 /\ x.cmd \notin {"pdu", "text"}
    /\ \A t \in new : t.id = id /\ t.pdu \in Seq(Nat)
    /\ \A t, u \in new : t.part = u.part => t = u

LEMMA HandsOver ==
  ASSUME IInv, EInv, NEW id, NEW x, NEW new, Hands(id, x, new)
  PROVE  EInv'
<1>0. /\ asked' = Append(asked, x) /\ todo' = todo \cup new
      /\ UNCHANGED <<sending, air, stream, acc, san, inbox, apart>>
      /\ id = Len(asked) + 1 /\ id \in 0..99 /\ x.cmd \notin {"pdu", "text"}
      /\ \A t \in new : t.id = id /\ t.pdu \in Seq(Nat)
      /\ \A t, u \in new : t.part = u.part => t = u
  BY DEF Hands
<1>1. /\ Framed(Tape) /\ Closed(san)
      /\ Posted(Tape, asked) /\ Hexed(Parcels, asked) /\ Told(inbox, asked, apart)
      /\ EachOnce(Parcels, Tape, inbox, asked) /\ Distinct(todo, sending, air)
  BY Zenon DEF EInv
<1>2. asked \in Seq(ToSet(asked)) /\ \A t \in Parcels : t.id \in DOMAIN asked
  BY Zenon DEF IInv, Histories, Ids
<1>3. /\ Longer(asked, asked') /\ asked'[id] = x
      /\ \A i \in DOMAIN asked' : i \in DOMAIN asked \/ i = id
  BY <1>0, <1>2, LongerAppend, Zenon
<1>4. id \notin DOMAIN asked /\ Unknown(Parcels, Tape, inbox, id)
  BY <1>0, Fresh
<1>5. Posted(Tape, asked') /\ Told(inbox, asked', apart) /\ Hexed(Parcels, asked')
  BY <1>1, <1>2, <1>3, LongerKeeps, Zenon
<1>6. Tape' = Tape /\ Parcels' = Parcels \cup new
  BY <1>0 DEF Tape, Unread, Parcels
<1>7. Hexed(Parcels', asked')
  BY <1>0, <1>3, <1>5, <1>6, Zenon DEF Hexed
<1>8. Distinct(todo', sending', air')
  <2>1. \A t \in new : t \notin Parcels
    BY <1>0, <1>2, <1>4, Zenon
  <2> QED
    BY <1>0, <1>1, <2>1 DEF Distinct, Parcels
<1>9. EachOnce(Parcels', Tape', inbox, asked')
  <2> SUFFICES ASSUME NEW n \in DOMAIN asked', Direct(asked'[n])
               PROVE  Once(Parcels', Tape', inbox, n)
    BY Zenon DEF EachOnce
  <2>1. CASE n \in DOMAIN asked
    <3>1. Once(Parcels, Tape, inbox, n)
      BY <1>1, <1>3, <2>1, Zenon DEF EachOnce, Longer
    <3>2. \A u \in Parcels \cup new : u.id = n => u \in Parcels
      BY <1>0, <1>4, <2>1, Zenon
    <3>3. Once(Parcels \cup new, Tape, inbox, n)
      BY <3>1, <3>2, OnceOther, Zenon
    <3> QED
      BY <1>6, <3>3, Zenon
  <2>2. CASE n = id
    <3>1. \A t \in Parcels : t.id # id
      BY <1>4, Zenon DEF Unknown
    <3>2. \A t, u \in Parcels \cup new : t.id = id /\ u.id = id /\ t.part = u.part => t = u
      BY <1>0, <3>1, Zenon
    <3>3. Once(Parcels \cup new, Tape, inbox, id)
      BY <1>4, <3>2, OnceNew, Zenon
    <3> QED
      BY <1>6, <2>2, <3>3, Zenon
  <2> QED
    BY <1>3, <2>1, <2>2, Zenon
<1>10. Len(asked') <= 99
  <2> DEFINE T == ToSet(asked)
             V == T \cup {x}
  <2>0. asked \in Seq(T)
    BY <1>2
  <2> HIDE DEF T
  <2>1. asked \in Seq(V)
    BY <2>0, SeqWithin
  <2>2. x \in V
    OBVIOUS
  <2> HIDE DEF V
  <2>3. Len(asked') = Len(asked) + 1
    BY <1>0, <2>1, <2>2
  <2> DEFINE m == Len(asked')
  <2>4. m = id
    BY <1>0, <2>3, Zenon
  <2>5. id <= 99
    <3>1. id \in 0..99
      BY <1>0
    <3>2. \A z \in 0..99 : z <= 99
      OBVIOUS
    <3> QED
      BY <3>1, <3>2, Zenon
  <2> HIDE DEF m
  <2>6. m <= 99
    BY <2>4, <2>5, Zenon
  <2> QED
    BY <2>6 DEF m
<1>11. Framed(Tape') /\ Posted(Tape', asked')
  BY <1>0, <1>1, <1>5, <1>6
<1>12. Closed(san') /\ Told(inbox', asked', apart') /\ inbox' = inbox
  BY <1>0, <1>1, <1>5
<1> QED
  BY <1>0, <1>7, <1>8, <1>9, <1>10, <1>11, <1>12, Zenon DEF EInv

LEMMA NextNumber ==
  ASSUME NEW n \in Nat, n < MaxTexts
  PROVE  n + 1 \in 0..99
BY HeadersAssumption

LEMMA NextId ==
  ASSUME IInv, Len(asked) < MaxTexts, NEW id, id = Len(asked) + 1
  PROVE  id \in 0..99
<1> DEFINE V == ToSet(asked)
<1>1. asked \in Seq(V)
  BY Zenon DEF IInv, Histories
<1> HIDE DEF V
<1> DEFINE n == Len(asked)
<1>2. n \in Nat /\ n < MaxTexts /\ id = n + 1
  BY <1>1
<1> HIDE DEF n
<1>3. n + 1 \in 0..99
  BY <1>2, NextNumber, Zenon
<1> QED
  BY <1>2, <1>3, Zenon

LEMMA ExactAsk ==
  ASSUME IInv, EInv, NEW cmd \in Commands, NEW text \in Messages, Ask(cmd, text)
  PROVE  EInv'
<1> DEFINE p == Parts(cmd, text)
           id == Len(asked) + 1
           n == Len(p.parts)
           Pdu(i) == EncodeText(Smsc, Own, p.coding, p.parts[i], i, n)
           x == [cmd |-> cmd, text |-> text, plain |-> TRUE]
           new == {Queued(id, i, Pdu(i)) : i \in 1..n}
<1>1. /\ asked' = Append(asked, x) /\ todo' = todo \cup new /\ Len(asked) < MaxTexts
      /\ UNCHANGED <<sending, air, stream, acc, san, inbox, apart>>
  BY Zenon DEF Ask
<1>2. cmd \in {"file", "sms", "app"}
  <2>1. cmd \in Commands \ {"forward"}
    BY Zenon DEF Ask
  <2> QED
    BY <2>1, TextsAssumption
<1>3. id \in 0..99 /\ id = Len(asked) + 1
  BY <1>1, NextId
<1>4. x.cmd \notin {"pdu", "text"}
  BY <1>2
<1>5. ASSUME NEW t \in new
      PROVE  \E i \in 1..n : t = Queued(id, i, Pdu(i)) /\ t.id = id /\ t.pdu = Pdu(i) /\ t.part = i
  <2>1. PICK i \in 1..n : t = Queued(id, i, Pdu(i))
    BY <1>5
  <2> DEFINE q == Pdu(i)
  <2>2. t = Queued(id, i, q)
    BY <2>1
  <2> HIDE DEF q, id, n, Pdu
  <2>3. t.id = id /\ t.pdu = q /\ t.part = i
    BY <2>2, QueuedIs
  <2> QED
    BY <2>1, <2>3, Zenon DEF q
<1>6. ASSUME NEW i \in 1..n PROVE Pdu(i) \in Seq(Nat)
  <2> DEFINE q == Pdu(i)
  <2>1. q = EncodeText(Smsc, Own, p.coding, p.parts[i], i, Len(p.parts)) /\ p = Parts(cmd, text)
        /\ i \in 1..Len(p.parts)
    OBVIOUS
  <2> HIDE DEF q, p, n, Pdu
  <2>2. q \in Seq(Nat)
    BY <1>2, <2>1, AskedType, Zenon
  <2> QED
    BY <2>2 DEF q
<1> HIDE DEF p, id, n, Pdu, x, new
<1>7. \A t \in new : t.id = id /\ t.pdu \in Seq(Nat)
  BY <1>5, <1>6, Zenon
<1>8. ASSUME NEW t \in new, NEW u \in new, t.part = u.part PROVE t = u
  <2>1. PICK i \in 1..n : t = Queued(id, i, Pdu(i)) /\ t.part = i
    BY <1>5, Zenon
  <2>2. PICK k \in 1..n : u = Queued(id, k, Pdu(k)) /\ u.part = k
    BY <1>5, Zenon
  <2>3. i = k
    BY <1>8, <2>1, <2>2, Zenon
  <2> QED
    BY <2>1, <2>2, <2>3, Zenon
<1>9. \A t, u \in new : t.part = u.part => t = u
  BY <1>8, Zenon
<1> QED
  <2>1. Hands(id, x, new)
    BY <1>1, <1>3, <1>4, <1>7, <1>9, Zenon DEF Hands
  <2> QED
    BY <2>1, HandsOver

LEMMA ExactForward ==
  ASSUME IInv, EInv, NEW k \in DOMAIN inbox, Forward(k)
  PROVE  EInv'
<1> DEFINE id == Len(asked) + 1
           q == ForwardPdu(inbox[k].pdu, Own, Smsc)
           t == Queued(id, 1, q)
           x == [cmd |-> "forward", text |-> inbox[k].text, plain |-> inbox[k].total = 0]
           new == {t}
<1>1. /\ asked' = Append(asked, x) /\ todo' = todo \cup new /\ Len(asked) < MaxTexts
      /\ UNCHANGED <<sending, air, stream, acc, san, inbox, apart>>
  BY Zenon DEF Forward
<1>2. id \in 0..99 /\ id = Len(asked) + 1
  BY <1>1, NextId
<1>3. x.cmd \notin {"pdu", "text"}
  OBVIOUS
<1>4. q \in Seq(Nat)
  <2>1. inbox[k].pdu \in Seq(Nat)
    BY Zenon DEF EInv, Told
  <2>2. Nat \subseteq Nat
    OBVIOUS
  <2> QED
    BY <2>1, <2>2, ForwardedIn, Zenon
<1> HIDE DEF q, id, x
<1>5. t.id = id /\ t.pdu = q
  BY QueuedIs
<1> HIDE DEF t
<1>6. \A u \in new : u.id = id /\ u.pdu \in Seq(Nat)
  BY <1>4, <1>5
<1>7. \A u, v \in new : u.part = v.part => u = v
  OBVIOUS
<1> HIDE DEF new
<1> QED
  <2>1. Hands(id, x, new)
    BY <1>1, <1>2, <1>3, <1>6, <1>7, Zenon DEF Hands
  <2> QED
    BY <2>1, HandsOver

LEMMA OnceGrown ==
  ASSUME NEW q, NEW p, NEW i0, NEW h0, NEW b0, Grown(q, p, i0, h0, b0),
         NEW id, h0 # Header(id), h0 # TextHeader(id), NEW ps, NEW y, Once(ps, p, y, id)
  PROVE  Once(ps, q, y, id)
<1>1. \A k, g, c : Post(q, k, g, c) =>
          k \in Nat \ {0} /\ (Post(p, 0 + k, g, c) \/ (k = i0 /\ g = h0 /\ c = b0))
  BY Zenon DEF Grown
<1>2. ASSUME NEW k, NEW g \in {Header(id), TextHeader(id)}, NEW c, Post(q, k, g, c)
      PROVE  Post(p, k, g, c)
  <2>1. g # h0
    OBVIOUS
  <2>2. k \in Nat \ {0} /\ Post(p, 0 + k, g, c)
    BY <1>1, <1>2, <2>1, Zenon
  <2>3. 0 + k = k
    BY <2>2
  <2> QED
    BY <2>2, <2>3
<1>3. \A i, j : PostItem(q, i, id, j) => PostItem(p, i, id, j)
  BY <1>2, Zenon DEF PostItem
<1>4. \A j, z : IsItem(ps, q, y, z, id, j) => IsItem(ps, p, y, z, id, j)
  BY <1>3, Zenon DEF IsItem
<1> QED
  BY <1>4, Zenon DEF Once

\* Of a text not known before, there is what was written.
LEMMA OnceFirst ==
  ASSUME NEW q, NEW p, NEW i0, NEW h0, NEW b0, Grown(q, p, i0, h0, b0),
         NEW id, NEW ps, NEW y, Unknown(ps, p, y, id)
  PROVE  Once(ps, q, y, id)
<1>1. \A k, g, c : Post(q, k, g, c) =>
          k \in Nat \ {0} /\ (Post(p, 0 + k, g, c) \/ (k = i0 /\ g = h0 /\ c = b0))
  BY Zenon DEF Grown
<1>2. ASSUME NEW i, NEW j, PostItem(q, i, id, j) PROVE i = i0
  <2>1. PICK b : \/ Post(q, i, Header(id), b) /\ j = PduEvent(b).part
                 \/ Post(q, i, TextHeader(id), b) /\ j = 0
    BY <1>2, Zenon DEF PostItem
  <2>2. \A k : ~PostItem(p, k, id, j)
    BY Zenon DEF Unknown
  <2>3. ~(Post(p, 0 + i, Header(id), b) /\ j = PduEvent(b).part)
    BY <2>2, Zenon DEF PostItem
  <2>4. ~(Post(p, 0 + i, TextHeader(id), b) /\ j = 0)
    BY <2>2, Zenon DEF PostItem
  <2>5. CASE Post(q, i, Header(id), b) /\ j = PduEvent(b).part
    BY <1>1, <2>3, <2>5, Zenon
  <2>6. CASE Post(q, i, TextHeader(id), b) /\ j = 0
    BY <1>1, <2>4, <2>6, Zenon
  <2> QED
    BY <2>1, <2>5, <2>6, Zenon
<1>3. ASSUME NEW j, NEW z, IsItem(ps, q, y, z, id, j) PROVE z = AsPost(i0)
  <2>1. PICK i : z = AsPost(i) /\ PostItem(q, i, id, j)
    BY <1>3, Zenon DEF IsItem, Unknown, EventItem, ParcelItem
  <2>2. i = i0
    BY <1>2, <2>1, Zenon
  <2> QED
    BY <2>1, <2>2
<1> QED
  BY <1>3, Zenon DEF Once

\* The texts the phone sends fit into a PDU and come back.
PhoneTextsGood ==
    /\ Phone # <<Plus>>
    /\ \A text \in PhoneTexts :
          Recovers(~IsAscii(text), text) /\ WholeLength(~IsAscii(text), text) <= 255

\* A text x more, reported by the header h with the body b.
Reports1(id, x, h, b) ==
    /\ asked' = Append(asked, x) /\ id = Len(asked) + 1 /\ id \in 0..99
    /\ UNCHANGED <<todo, sending, air, acc, san, inbox, apart>>
    /\ Writes(Lines(h, b)) /\ h \in {Header(id), TextHeader(id)}
    /\ b \in Seq(Nat) /\ b # <<>> /\ Good(x, id, h, b)

LEMMA ReportsOne ==
  ASSUME IInv, EInv, NEW id, NEW x, NEW h, NEW b, Reports1(id, x, h, b)
  PROVE  EInv'
<1> DEFINE i0 == Len(Tape) + 3
<1>0. /\ asked' = Append(asked, x) /\ id = Len(asked) + 1 /\ id \in 0..99
      /\ UNCHANGED <<todo, sending, air, acc, san, inbox, apart>>
      /\ Writes(Lines(h, b)) /\ h \in {Header(id), TextHeader(id)}
      /\ b \in Seq(Nat) /\ b # <<>> /\ Good(x, id, h, b)
  BY Zenon DEF Reports1
<1>1. /\ Framed(Tape) /\ Closed(san)
      /\ Posted(Tape, asked) /\ Hexed(Parcels, asked) /\ Told(inbox, asked, apart)
      /\ EachOnce(Parcels, Tape, inbox, asked) /\ Distinct(todo, sending, air)
  BY Zenon DEF EInv
<1>2. asked \in Seq(ToSet(asked)) /\ \A t \in Parcels : t.id \in DOMAIN asked
  BY Zenon DEF IInv, Histories, Ids
<1>3. /\ Longer(asked, asked') /\ asked'[id] = x
      /\ \A i \in DOMAIN asked' : i \in DOMAIN asked \/ i = id
  BY <1>0, <1>2, LongerAppend, Zenon
<1>4. id \notin DOMAIN asked /\ Unknown(Parcels, Tape, inbox, id)
  BY <1>0, Fresh
<1>5. Posted(Tape, asked') /\ Told(inbox, asked', apart) /\ Hexed(Parcels, asked')
  BY <1>1, <1>2, <1>3, LongerKeeps, Zenon
<1>6. h \in Int /\ IsHeader(h)
  BY <1>0, HeadersApart
<1>7. Grown(Tape', Tape, i0, h, b)
  BY <1>0, <1>6, LineWritten, Zenon
<1>8. id \in DOMAIN asked'
  <2>1. Len(asked) + 1 \in DOMAIN Append(asked, x)
    BY <1>2, AppendIs, Zenon
  <2> QED
    BY <1>0, <2>1, Zenon
<1>9. Parcels' = Parcels
  BY <1>0 DEF Parcels
<1> HIDE DEF i0
<1>10. /\ Framed(Tape') /\ Posted(Tape', asked')
       /\ EachOnce(Parcels, Tape', inbox, asked')
  <2> DEFINE p == Tape
             q == Tape'
             ps == Parcels
             y == inbox
             z == asked'
  <2>1. /\ Grown(q, p, i0, h, b) /\ Posted(p, z) /\ Good(z[id], id, h, b)
        /\ id \in DOMAIN z /\ Unknown(ps, p, y, id)
        /\ EachOnce(ps, p, y, asked)
    BY <1>0, <1>1, <1>3, <1>4, <1>5, <1>7, <1>8
  <2>2. /\ Longer(asked, z) /\ \A i \in DOMAIN z : i \in DOMAIN asked \/ i = id
    BY <1>3
  <2> HIDE DEF p, q, ps, y, z
  <2>3. Framed(q) /\ Posted(q, z)
    BY <2>1, GrownPosted, Zenon
  <2>4. ASSUME NEW n \in DOMAIN z, Direct(z[n]) PROVE Once(ps, q, y, n)
    <3>1. CASE n = id
      BY <2>1, <3>1, OnceFirst, Zenon
    <3>2. CASE n \in DOMAIN asked
      <4>1. Once(ps, p, y, n)
        BY <2>1, <2>2, <2>4, <3>2, Zenon DEF EachOnce, Longer
      <4>2. n \in 0..99 /\ n # id
        BY <1>4, <3>2, IdIs
      <4>3. h # Header(n) /\ h # TextHeader(n)
        <5>1. /\ Header(id) # TextHeader(n) /\ Header(n) # TextHeader(id)
              /\ Header(id) # Header(n) /\ TextHeader(id) # TextHeader(n)
          BY <1>0, <4>2, HeadersApart
        <5> QED
          BY <1>0, <5>1
      <4>4. Grown(q, p, i0, h, b)
        BY <2>1
      <4> QED
        BY <4>1, <4>3, <4>4, OnceGrown
    <3> QED
      BY <2>2, <3>1, <3>2, Zenon
  <2>5. EachOnce(ps, q, y, z)
    BY <2>4, Zenon DEF EachOnce
  <2> QED
    BY <2>3, <2>5 DEF p, q, ps, y, z
<1>11. Len(asked') <= 99
  <2> DEFINE T == ToSet(asked)
             V == T \cup {x}
  <2>0. asked \in Seq(T)
    BY <1>2
  <2> HIDE DEF T
  <2>1. asked \in Seq(V)
    BY <2>0, SeqWithin
  <2>2. x \in V
    OBVIOUS
  <2> HIDE DEF V
  <2>3. Len(asked') = Len(asked) + 1
    BY <1>0, <2>1, <2>2
  <2> DEFINE m == Len(asked')
  <2>4. m = id
    BY <1>0, <2>3, Zenon
  <2>5. id <= 99
    <3>1. id \in 0..99
      BY <1>0
    <3>2. \A z \in 0..99 : z <= 99
      OBVIOUS
    <3> QED
      BY <3>1, <3>2, Zenon
  <2> HIDE DEF m
  <2>6. m <= 99
    BY <2>4, <2>5, Zenon
  <2> QED
    BY <2>6 DEF m
<1>12. /\ Closed(san') /\ Told(inbox', asked', apart') /\ inbox' = inbox
       /\ Distinct(todo', sending', air')
  BY <1>0, <1>1, <1>5
<1>13. Hexed(Parcels', asked') /\ EachOnce(Parcels', Tape', inbox', asked')
  BY <1>5, <1>9, <1>10, <1>12
<1> QED
  BY <1>10, <1>11, <1>12, <1>13, Zenon DEF EInv

LEMMA ExactPhoneSends ==
  ASSUME PhoneTextsGood, IInv, EInv, NEW text \in PhoneTexts, NEW mode \in Modes,
         PhoneSends(text, mode)
  PROVE  EInv'
<1> DEFINE id == Len(asked) + 1
           x == [cmd |-> mode, text |-> text, plain |-> TRUE]
           f == FromPhone(text)
<1>1. /\ asked' = Append(asked, x) /\ UNCHANGED <<todo, sending, air, acc, san, inbox, apart>>
      /\ IF mode = "pdu" THEN Writes(Lines(Header(id), f)) ELSE Writes(Lines(TextHeader(id), text))
      /\ Len(asked) < MaxTexts
  BY Zenon DEF PhoneSends
<1>2. id = Len(asked) + 1 /\ id \in 0..99
  BY <1>1, NextId
<1>3. f \in Seq(Nat) /\ f # <<>> /\ text \in Seq(Nat) /\ text # <<>>
  <2>1. Nat \subseteq Nat
    OBVIOUS
  <2> QED
    BY <2>1, FromPhoneType, Zenon
<1>4. mode \in {"pdu", "text"}
  BY TextsAssumption
<1>5. x.cmd = mode /\ x.text = text
  OBVIOUS
<1>6. CASE mode = "pdu"
  <2>1. ExactIn(x, PduEvent(f))
    <3>1. Phone # <<Plus>> /\ Recovers(~IsAscii(text), text)
          /\ WholeLength(~IsAscii(text), text) <= 255
      BY Zenon DEF PhoneTextsGood
    <3>2. PduEvent(f) = [sender |-> Phone, zone |-> 8, part |-> 0, total |-> 0, text |-> text]
      BY <3>1, PhoneTextComesBack, Zenon
    <3> DEFINE e == PduEvent(f)
    <3>3. e = [sender |-> Phone, zone |-> 8, part |-> 0, total |-> 0, text |-> text]
      BY <3>2
    <3> HIDE DEF e
    <3>4. e.sender = Phone /\ e.zone = 8 /\ e.part = 0 /\ e.total = 0 /\ e.text = text
      BY <3>3
    <3> HIDE DEF x
    <3>5. SenderOf(x) = Phone
      BY <1>5, <1>6 DEF SenderOf
    <3>6. ReportedOf(x) = {<<0, 0, text>>}
      BY <1>5, <1>6 DEF ReportedOf
    <3>7. <<e.part, e.total, e.text>> \in ReportedOf(x)
      BY <3>4, <3>6
    <3>8. ExactIn(x, e)
      BY <3>4, <3>5, <3>7, Zenon DEF ExactIn
    <3> QED
      BY <3>8 DEF e
  <2>2. Writes(Lines(Header(id), f)) /\ x.cmd # "text"
    BY <1>1, <1>5, <1>6
  <2> HIDE DEF x, id, f
  <2>3. Good(x, id, Header(id), f)
    BY <1>3, <2>1, <2>2, Zenon DEF Good
  <2>4. Reports1(id, x, Header(id), f)
    BY <1>1, <1>2, <1>3, <2>2, <2>3 DEF Reports1
  <2> QED
    BY <2>4, ReportsOne
<1>7. CASE mode = "text"
  <2>1. Writes(Lines(TextHeader(id), text)) /\ x.cmd = "text"
    BY <1>1, <1>5, <1>7
  <2> HIDE DEF x, id, f
  <2>2. Good(x, id, TextHeader(id), text)
    BY <1>5, <2>1, Zenon DEF Good
  <2>3. Reports1(id, x, TextHeader(id), text)
    BY <1>1, <1>2, <1>3, <2>1, <2>2 DEF Reports1
  <2> QED
    BY <2>3, ReportsOne
<1> QED
  BY <1>4, <1>6, <1>7

LEMMA OnceReported ==
  ASSUME NEW p, NEW k, NEW q, Moved(q, p, k), NEW ps, NEW y, y \in Seq(ToSet(y)),
         NEW id, Once(ps, p, y, id), NEW e, NEW z, z = Append(y, e),
         NEW i \in Nat, i <= k, PostItem(p, i, e.id, e.part)
  PROVE  Once(ps, q, z, id)
<1> DEFINE k1 == Len(y) + 1
<1>1. PICK t : t \notin ps
  BY NotIn, Zenon
<1>2. /\ q \in Seq(Int) /\ k \in Nat
      /\ \A n, h, b : Post(q, n, h, b) => Post(p, k + n, h, b)
  BY Zenon DEF Moved
<1>3. /\ \A n \in DOMAIN z : n \in DOMAIN y \/ n = k1
      /\ \A n \in DOMAIN y : z[n] = y[n] /\ n # k1
      /\ z[k1] = e
  BY AppendIs, Zenon
<1> HIDE DEF k1
<1>4. \A u, j : ParcelItem(ps, u, id, j) => ParcelItem(ps, u, id, j) /\ u # t
  BY <1>1, Zenon DEF ParcelItem
<1>5. ASSUME NEW n, NEW j, PostItem(q, n, id, j)
      PROVE  n \in Nat \ {0} /\ PostItem(p, k + n, id, j)
  <2>1. n \in Nat \ {0}
    BY <1>2, <1>5, PostPlace
  <2>2. PostItem(p, k + n, id, j)
    BY <1>2, <1>5, Zenon DEF PostItem
  <2> QED
    BY <2>1, <2>2
<1>6. ASSUME NEW n, NEW j, EventItem(z, n, id, j)
      PROVE  \/ EventItem(y, n, id, j) /\ n # k1
             \/ n = k1 /\ PostItem(p, i, id, j)
  <2>1. n \in DOMAIN z /\ z[n].id = id /\ z[n].part = j
    BY <1>6, Zenon DEF EventItem
  <2>2. CASE n \in DOMAIN y
    BY <1>3, <2>1, <2>2, Zenon DEF EventItem
  <2>3. CASE n = k1
    <3>1. e.id = id /\ e.part = j
      BY <1>3, <2>1, <2>3
    <3>2. PostItem(p, i, id, j)
      BY <3>1
    <3> QED
      BY <2>3, <3>2
  <2> QED
    BY <1>3, <2>1, <2>2, <2>3, Zenon
<1>7. Carries(ps, p, y, ps, q, z, id, k, t, 0, i, k1)
  BY <1>4, <1>5, <1>6, Zenon DEF Carries
<1> QED
  BY <1>2, <1>7, OnceKept, Zenon

\* The event e is made of the header at i, and the tape goes on behind it.
Makes(e, i, k) ==
    /\ inbox' = Append(inbox, e) /\ apart \subseteq apart'
    /\ UNCHANGED <<asked, todo, sending, air>> /\ Closed(san') /\ EndsIn(Tape', Tape, k)
    /\ i \in Nat /\ i <= k /\ PostItem(Tape, i, e.id, e.part)
    /\ e.id \in DOMAIN asked /\ e.pdu \in Seq(Nat)
    /\ Direct(asked[e.id]) /\ e.id \notin apart' => ExactIn(asked[e.id], e)

LEMMA ReportMade ==
  ASSUME IInv, EInv, NEW e, NEW i, NEW k, Makes(e, i, k)
  PROVE  EInv'
<1>0. /\ inbox' = Append(inbox, e) /\ apart \subseteq apart'
      /\ UNCHANGED <<asked, todo, sending, air>> /\ Closed(san') /\ EndsIn(Tape', Tape, k)
      /\ i \in Nat /\ i <= k /\ PostItem(Tape, i, e.id, e.part)
      /\ e.id \in DOMAIN asked /\ e.pdu \in Seq(Nat)
      /\ Direct(asked[e.id]) /\ e.id \notin apart' => ExactIn(asked[e.id], e)
  BY Zenon DEF Makes
<1>1. /\ Len(asked) <= 99
      /\ Posted(Tape, asked) /\ Hexed(Parcels, asked) /\ Told(inbox, asked, apart)
      /\ EachOnce(Parcels, Tape, inbox, asked) /\ Distinct(todo, sending, air)
  BY Zenon DEF EInv
<1>2. Moved(Tape', Tape, k)
  <2> DEFINE p == Tape
             q == Tape'
  <2>1. p \in Seq(Int) /\ Framed(p) /\ EndsIn(q, p, k)
    BY <1>0, TapeIs
  <2> HIDE DEF p, q
  <2>2. Moved(q, p, k)
    BY <2>1, EndMoved, Zenon
  <2> QED
    BY <2>2 DEF p, q
<1>3. Framed(Tape') /\ \A n, h, b : Post(Tape', n, h, b) => Post(Tape, k + n, h, b)
  BY <1>2, Zenon DEF Moved
<1>4. Posted(Tape', asked)
  BY <1>1, <1>3, Zenon DEF Posted
<1>5. inbox \in Seq(ToSet(inbox))
  BY Zenon DEF IInv, Histories
<1>6. Told(inbox', asked, apart')
  <2> DEFINE k1 == Len(inbox) + 1
  <2>1. /\ \A n \in DOMAIN inbox' : n \in DOMAIN inbox \/ n = k1
        /\ \A n \in DOMAIN inbox : inbox'[n] = inbox[n]
        /\ inbox'[k1] = e
    BY <1>0, <1>5, AppendIs, Zenon
  <2> HIDE DEF k1
  <2>2. ASSUME NEW n \in DOMAIN inbox'
        PROVE  /\ inbox'[n].id \in DOMAIN asked /\ inbox'[n].pdu \in Seq(Nat)
               /\ Direct(asked[inbox'[n].id]) /\ inbox'[n].id \notin apart' =>
                     ExactIn(asked[inbox'[n].id], inbox'[n])
    <3>1. CASE n \in DOMAIN inbox
      <4>1. inbox'[n] = inbox[n]
        BY <2>1, <3>1, Zenon
      <4> QED
        BY <1>0, <1>1, <3>1, <4>1 DEF Told
    <3>2. CASE n = k1
      <4>1. inbox'[n] = e
        BY <2>1, <3>2, Zenon
      <4> QED
        BY <1>0, <4>1
    <3> QED
      BY <2>1, <3>1, <3>2, Zenon
  <2> QED
    BY <2>2, Zenon DEF Told
<1>7. EachOnce(Parcels, Tape', inbox', asked)
  <2> DEFINE p == Tape
             q == Tape'
             ps == Parcels
             y == inbox
             z == inbox'
  <2>1. /\ Moved(q, p, k) /\ y \in Seq(ToSet(y)) /\ EachOnce(ps, p, y, asked)
        /\ z = Append(y, e) /\ i \in Nat /\ i <= k /\ PostItem(p, i, e.id, e.part)
    BY <1>0, <1>1, <1>2, <1>5
  <2> HIDE DEF p, q, ps, y, z
  <2>2. ASSUME NEW id \in DOMAIN asked, Direct(asked[id]) PROVE Once(ps, q, z, id)
    <3>1. Once(ps, p, y, id)
      BY <2>1, <2>2, Zenon DEF EachOnce
    <3> QED
      BY <2>1, <3>1, OnceReported
  <2>3. EachOnce(ps, q, z, asked)
    BY <2>2, Zenon DEF EachOnce
  <2> QED
    BY <2>3 DEF p, q, ps, y, z
<1>8. Parcels' = Parcels
  BY <1>0 DEF Parcels
<1>9. /\ Posted(Tape', asked') /\ Told(inbox', asked', apart') /\ Hexed(Parcels', asked')
      /\ EachOnce(Parcels', Tape', inbox', asked') /\ Distinct(todo', sending', air')
      /\ Len(asked') <= 99
  BY <1>0, <1>1, <1>4, <1>6, <1>7, <1>8
<1> QED
  BY <1>0, <1>3, <1>9, Zenon DEF EInv

LEMMA TextEventIs ==
  ASSUME NEW id, NEW body
  PROVE  LET e == TextEvent(id, body)
         IN  /\ e.id = id /\ e.pdu = <<>> /\ e.sender = <<SP>> \o Phone /\ e.zone = 8
             /\ e.part = 0 /\ e.total = 0 /\ e.text = body
BY DEF TextEvent

LEMMA PduReportIs ==
  ASSUME NEW id, NEW body
  PROVE  LET e == PduReport(id, body)
             d == PduEvent(body)
         IN  /\ e.id = id /\ e.pdu = body /\ e.sender = d.sender /\ e.zone = d.zone
             /\ e.part = d.part /\ e.total = d.total /\ e.text = d.text
<1> DEFINE d == PduEvent(body)
<1>1. PduReport(id, body) =
        [id |-> id, pdu |-> body, sender |-> d.sender, zone |-> d.zone, part |-> d.part,
         total |-> d.total, text |-> d.text]
  BY Zenon DEF PduReport
<1> HIDE DEF d
<1> QED
  BY <1>1 DEF d

\* A phone's text in text mode.
LEMMA TextExact ==
  ASSUME NEW a, a.cmd = "text", NEW id
  PROVE  ExactIn(a, TextEvent(id, a.text))
<1> DEFINE e == TextEvent(id, a.text)
<1>1. /\ e.sender = <<SP>> \o Phone /\ e.zone = 8 /\ e.part = 0 /\ e.total = 0 /\ e.text = a.text
  BY TextEventIs
<1> HIDE DEF e
<1>2. ReportedOf(a) = {<<0, 0, a.text>>} /\ SenderOf(a) = <<SP>> \o Phone
  BY DEF ReportedOf, SenderOf
<1>3. <<e.part, e.total, e.text>> \in ReportedOf(a)
  BY <1>1, <1>2
<1>4. ExactIn(a, e)
  BY <1>1, <1>2, <1>3, Zenon DEF ExactIn
<1> QED
  BY <1>4 DEF e

\* What module_check_sms takes of the tape.
TextTaken(i, c, k) ==
    LET s == San[san]
        b == San[s.rest]
    IN  /\ Post(Tape, i, s.line[1], c) /\ s.line = <<s.line[1]>> /\ b.line \in {<<>>, c}
        /\ k \in Nat /\ i \in Nat /\ i <= k /\ EndsIn(Tape', Tape, k) /\ Closed(san')

LEMMA TapeText ==
  ASSUME IInv, EInv, TakeText
  PROVE  \E i, c, k : TextTaken(i, c, k)
<1> DEFINE s == San[san]
           b == San[s.rest]
           h == s.line[1]
<1>1. /\ s.more /\ s.line # <<>> /\ IsHeader(h) /\ san' = b.rest
      /\ UNCHANGED <<stream, acc>>
  BY Zenon DEF TakeText
<1>2. Readable /\ Unread \in Seq(Int) /\ san \in Seq(Int) /\ Framed(Tape) /\ Closed(san)
      /\ Tape = san \o Unread
  BY TapeIs, TapeType DEF Tape
<1>3. \E i, c, k : TakesAt(Tape, san, Unread, i, c, k)
  <2> DEFINE p == Tape
             r == Unread
  <2>1. r \in Seq(Int) /\ p = san \o r /\ Framed(p) /\ Closed(san) /\ san \in Seq(Int)
    BY <1>2
  <2>2. San[san].more /\ San[san].line # <<>> /\ IsHeader(San[san].line[1])
    BY <1>1
  <2> HIDE DEF p, r
  <2>3. \E i, c, k : TakesAt(p, san, r, i, c, k)
    BY <2>1, <2>2, HeaderTaken
  <2> QED
    BY <2>3 DEF p, r
<1>4. PICK i, c, k : TakesAt(Tape, san, Unread, i, c, k)
  BY <1>3
<1>5. /\ Post(Tape, i, h, c) /\ s.line = <<h>> /\ b.line \in {<<>>, c}
      /\ k \in Nat /\ i <= k /\ EndsIn(b.rest \o Unread, Tape, k) /\ Closed(b.rest)
  BY <1>4, Zenon DEF TakesAt
<1>6. i \in Nat
  <2> DEFINE n == Len(Tape)
  <2>1. i \in 1..n
    BY <1>5, Zenon DEF Post
  <2>2. \A m : m \in 1..n => m \in Nat
    OBVIOUS
  <2> QED
    BY <2>1, <2>2, Zenon
<1>7. Tape' = b.rest \o Unread
  BY <1>1 DEF Tape, Unread
<1> HIDE DEF s, b, h
<1>8. EndsIn(Tape', Tape, k) /\ Closed(san')
  BY <1>1, <1>5, <1>7, Zenon
<1>9. TextTaken(i, c, k)
  BY <1>5, <1>6, <1>8, Zenon DEF TextTaken, s, b, h
<1> QED
  BY <1>9, Zenon

LEMMA ExactTakeText ==
  ASSUME IInv, EInv, TakeText
  PROVE  EInv'
<1> DEFINE s == San[san]
           b == San[s.rest]
           h == s.line[1]
           id == IdOf(h)
           body == IF b.line = <<>> THEN s.line ELSE b.line
           a == asked[id]
<1>1. /\ apart' = (IF b.line = <<>> THEN apart \cup {id} ELSE apart)
      /\ \/ /\ h = TextHeader(id)
            /\ inbox' = Append(inbox, TextEvent(id, body)) \/ UNCHANGED inbox
         \/ /\ h = Header(id)
            /\ inbox' = IF Len(body) < 14 THEN inbox ELSE Append(inbox, PduReport(id, body))
      /\ UNCHANGED <<asked, todo, sending, air, stream, acc>>
  BY Zenon DEF TakeText
<1>2. PICK i, c, k : TextTaken(i, c, k)
  BY TapeText
<1>3. /\ Post(Tape, i, h, c) /\ s.line = <<h>> /\ b.line \in {<<>>, c}
      /\ k \in Nat /\ i \in Nat /\ i <= k /\ EndsIn(Tape', Tape, k) /\ Closed(san')
  BY <1>2, Zenon DEF TextTaken
<1> HIDE DEF s, b, h
<1>4. PICK n \in DOMAIN asked : Good(asked[n], n, h, c)
  BY <1>3, Zenon DEF EInv, Posted
<1>5. n \in 0..99
  BY <1>4, IdIs
<1>6. h = Header(n) \/ h = TextHeader(n)
  BY <1>4, Zenon DEF Good
<1>7. id = n
  BY <1>5, <1>6, HeadersApart
<1>8. Header(n) # TextHeader(n)
  BY <1>5, HeadersApart
<1> HIDE DEF id, body
<1>9. id \in DOMAIN asked /\ Good(a, id, h, c)
  BY <1>4, <1>7
<1>10. h = TextHeader(id) => a.cmd = "text" /\ c = a.text
  BY <1>7, <1>8, <1>9 DEF Good
<1>11. h = Header(id) => c \in Seq(Nat) /\ (Direct(a) => ExactIn(a, PduEvent(c)))
  BY <1>7, <1>8, <1>9 DEF Good
<1> HIDE DEF a
<1>12. apart \subseteq apart' /\ (id \notin apart' => b.line # <<>>)
  BY <1>1
<1>13. CASE UNCHANGED inbox
  <2>1. Distinct(todo', sending', air') /\ Parcels' \subseteq Parcels
    BY <1>1, TapeIs DEF Parcels
  <2> QED
    BY <1>1, <1>3, <1>12, <1>13, <2>1, EndStep
<1>14. CASE h = TextHeader(id) /\ inbox' = Append(inbox, TextEvent(id, body))
  <2> DEFINE e == TextEvent(id, body)
  <2>1. inbox' = Append(inbox, e)
    BY <1>14
  <2>2. e.id = id /\ e.pdu = <<>> /\ e.part = 0
    BY TextEventIs
  <2>3. id \notin apart' => ExactIn(a, e)
    <3>1. CASE b.line # <<>>
      <4>1. body = a.text
        BY <1>3, <1>10, <1>14, <3>1 DEF body
      <4>2. ExactIn(a, TextEvent(id, a.text))
        BY <1>10, <1>14, TextExact
      <4> QED
        BY <4>1, <4>2
    <3> QED
      BY <1>12, <3>1
  <2> HIDE DEF e
  <2>4. PostItem(Tape, i, e.id, e.part)
    BY <1>3, <1>14, <2>2 DEF PostItem
  <2>5. e.pdu \in Seq(Nat)
    BY <2>2
  <2>6. Makes(e, i, k)
    BY <1>1, <1>3, <1>9, <1>12, <2>1, <2>2, <2>3, <2>4, <2>5 DEF Makes, a
  <2> QED
    BY <2>6, ReportMade
<1>15. CASE h = Header(id) /\ ~(Len(body) < 14) /\ inbox' = Append(inbox, PduReport(id, body))
  <2> DEFINE e == PduReport(id, body)
             d == PduEvent(body)
  <2>1. inbox' = Append(inbox, e)
    BY <1>15
  <2>2. /\ e.id = id /\ e.pdu = body /\ e.sender = d.sender /\ e.zone = d.zone
        /\ e.part = d.part /\ e.total = d.total /\ e.text = d.text
    BY PduReportIs
  <2>3. body = c
    <3>1. CASE b.line = <<>>
      <4>1. body = <<h>>
        BY <1>3, <3>1 DEF body
      <4>2. Len(<<h>>) = 1
        OBVIOUS
      <4> QED
        BY <1>15, <4>1, <4>2
    <3>2. CASE b.line # <<>>
      BY <1>3, <3>2 DEF body
    <3> QED
      BY <3>1, <3>2
  <2> HIDE DEF e, d
  <2>4. Direct(a) => ExactIn(a, e)
    <3>1. Direct(a) => ExactIn(a, d)
      BY <1>11, <1>15, <2>3 DEF d
    <3> QED
      BY <2>2, <3>1, Zenon DEF ExactIn
  <2>5. PostItem(Tape, i, e.id, e.part)
    <3>1. Post(Tape, i, Header(id), c) /\ e.part = PduEvent(c).part
      BY <1>3, <1>15, <2>2, <2>3 DEF d
    <3> QED
      BY <2>2, <3>1, Zenon DEF PostItem
  <2>6. e.pdu \in Seq(Nat)
    BY <1>11, <1>15, <2>2, <2>3
  <2>7. Makes(e, i, k)
    BY <1>1, <1>3, <1>9, <1>12, <2>1, <2>2, <2>4, <2>5, <2>6 DEF Makes, a
  <2> QED
    BY <2>7, ReportMade
<1> QED
  BY <1>1, <1>13, <1>14, <1>15

ExactTexts == RecoverableTexts /\ PhoneTextsGood

LEMMA ExactStep ==
  ASSUME ExactTexts, IInv, EInv, AllAsAsked, [Next]_vars
  PROVE  EInv'
<1>0. PhoneTextsGood
  BY DEF ExactTexts
<1>1. ASSUME NEW cmd \in Commands, NEW text \in Messages, Ask(cmd, text) PROVE EInv'
  BY <1>1, ExactAsk
<1>2. ASSUME NEW k \in DOMAIN inbox, Forward(k) PROVE EInv'
  BY <1>2, ExactForward
<1>3. ASSUME NEW text \in PhoneTexts, NEW mode \in Modes, PhoneSends(text, mode) PROVE EInv'
  BY <1>0, <1>3, ExactPhoneSends
<1>4. ASSUME NEW t \in todo, Send(t) PROVE EInv'
  BY <1>4, ExactSend
<1>5. ASSUME NEW t \in air, Deliver(t) PROVE EInv'
  BY <1>5, ExactDeliver
<1>6. ASSUME NEW n \in DOMAIN stream, Read(n) PROVE EInv'
  BY <1>6, ExactRead
<1>7. CASE TakeLine
  BY <1>7, ExactTakeLine
<1>8. CASE TakeText
  BY <1>8, ExactTakeText
<1>9. CASE TakeEnds
  BY <1>9, ExactTakeEnds
<1>10. CASE UNCHANGED vars
  BY <1>10, ExactStands
<1> QED
  BY <1>1, <1>2, <1>3, <1>4, <1>5, <1>6, <1>7, <1>8, <1>9, <1>10, Zenon
     DEF Next, Sends, Delivers, Reads, Takes

LEMMA ExactBegins == Init => EInv
<1> SUFFICES ASSUME Init PROVE EInv
  OBVIOUS
<1>1. asked = <<>> /\ inbox = <<>> /\ san = <<>> /\ todo = {} /\ sending = {} /\ air = {}
  BY DEF Init
<1>2. Tape = <<>>
  <2>1. acc = <<>> /\ stream = <<>>
    BY DEF Init
  <2>2. <<>> \o <<>> = <<>>
    OBVIOUS
  <2>3. FlattenSeq(<<>>) = <<>>
    <3> DEFINE V == Int
    <3>1. <<>> \in Seq(Seq(V))
      OBVIOUS
    <3> QED
      BY FlattenEmpty
  <2> QED
    BY <1>1, <2>1, <2>2, <2>3, Zenon DEF Tape, Unread
<1>3. Framed(<<>>) /\ Closed(<<>>) /\ Len(<<>>) = 0 /\ \A i, h, b : ~Post(<<>>, i, h, b)
  BY DEF Framed, Closed, Post
<1>4. Posted(<<>>, <<>>) /\ Told(<<>>, <<>>, apart)
  BY <1>3 DEF Posted, Told
<1>5. Hexed(Parcels, asked)
  BY <1>1 DEF Hexed, Parcels
<1>6. EachOnce(Parcels, Tape, inbox, asked)
  BY <1>1 DEF EachOnce
<1>7. Distinct(todo, sending, air)
  BY <1>1 DEF Distinct
<1> QED
  BY <1>1, <1>2, <1>3, <1>4, <1>5, <1>6, <1>7 DEF EInv

\* What is reported of a text that was handed over or came from the phone in one
\* piece, as Exact says it.
ReportedOnce ==
    \A k \in DOMAIN inbox :
        LET e == inbox[k]
        IN  Direct(asked[e.id]) /\ e.id \notin apart =>
                /\ <<e.part, e.total, e.text>> \in Reported(e.id)
                /\ e.sender = Sender(e.id) /\ e.zone = 8
                /\ \A j \in EventsOf(e.id) : inbox[j].part = e.part => j = k

LEMMA ExactSays == EInv => ReportedOnce
<1> SUFFICES ASSUME EInv, NEW k \in DOMAIN inbox, NEW e, e = inbox[k],
                    Direct(asked[e.id]), e.id \notin apart
             PROVE  /\ <<e.part, e.total, e.text>> \in Reported(e.id)
                    /\ e.sender = Sender(e.id) /\ e.zone = 8
                    /\ \A j \in EventsOf(e.id) : inbox[j].part = e.part => j = k
  BY Zenon DEF ReportedOnce
<1> DEFINE a == asked[e.id]
<1>1. e.id \in DOMAIN asked /\ ExactIn(a, e)
  BY Zenon DEF EInv, Told
<1>2. Reported(e.id) = ReportedOf(a) /\ Sender(e.id) = SenderOf(a)
  BY DEF Reported, ReportedOf, Sender, SenderOf
<1>3. Once(Parcels, Tape, inbox, e.id)
  BY <1>1, Zenon DEF EInv, EachOnce
<1>4. ASSUME NEW j \in EventsOf(e.id), inbox[j].part = e.part PROVE j = k
  <2>1. EventItem(inbox, j, e.id, e.part) /\ EventItem(inbox, k, e.id, e.part)
    BY <1>4 DEF EventsOf, EventItem
  <2>2. /\ IsItem(Parcels, Tape, inbox, AsEvent(j), e.id, e.part)
        /\ IsItem(Parcels, Tape, inbox, AsEvent(k), e.id, e.part)
    BY <2>1, Zenon DEF IsItem
  <2>3. AsEvent(j) = AsEvent(k)
    BY <1>3, <2>2, Zenon DEF Once
  <2> QED
    BY <2>3, ItemsDiffer, Zenon
<1> QED
  BY <1>1, <1>2, <1>4, Zenon DEF ExactIn

\* Who asked for the texts.
Asked == \A id \in DOMAIN asked : asked[id].cmd \in Commands \cup Modes

LEMMA AskedAppend ==
  ASSUME IInv, Asked, NEW x, asked' = Append(asked, x), x.cmd \in Commands \cup Modes
  PROVE  Asked'
<1>1. asked \in Seq(ToSet(asked))
  BY Zenon DEF IInv, Histories
<1>2. /\ Longer(asked, asked') /\ asked'[Len(asked) + 1] = x
      /\ \A i \in DOMAIN asked' : i \in DOMAIN asked \/ i = Len(asked) + 1
  BY <1>1, LongerAppend, Zenon
<1>3. ASSUME NEW i \in DOMAIN asked' PROVE asked'[i].cmd \in Commands \cup Modes
  BY <1>2, Zenon DEF Longer, Asked
<1> QED
  BY <1>3, Zenon DEF Asked

LEMMA AskedStep ==
  ASSUME IInv, Asked, [Next]_vars
  PROVE  Asked'
<1>1. ASSUME NEW cmd \in Commands, NEW text \in Messages, Ask(cmd, text) PROVE Asked'
  <2> DEFINE x == [cmd |-> cmd, text |-> text, plain |-> TRUE]
  <2>1. asked' = Append(asked, x)
    BY <1>1, Zenon DEF Ask
  <2>2. x.cmd \in Commands \cup Modes
    OBVIOUS
  <2> HIDE DEF x
  <2> QED
    BY <2>1, <2>2, AskedAppend
<1>2. ASSUME NEW k \in DOMAIN inbox, Forward(k) PROVE Asked'
  <2> DEFINE x == [cmd |-> "forward", text |-> inbox[k].text, plain |-> inbox[k].total = 0]
  <2>1. asked' = Append(asked, x) /\ "forward" \in Commands
    BY <1>2, Zenon DEF Forward
  <2>2. x.cmd \in Commands \cup Modes
    BY <2>1
  <2> HIDE DEF x
  <2> QED
    BY <2>1, <2>2, AskedAppend
<1>3. ASSUME NEW text \in PhoneTexts, NEW mode \in Modes, PhoneSends(text, mode) PROVE Asked'
  <2> DEFINE x == [cmd |-> mode, text |-> text, plain |-> TRUE]
  <2>1. asked' = Append(asked, x)
    BY <1>3, Zenon DEF PhoneSends
  <2>2. x.cmd \in Commands \cup Modes
    OBVIOUS
  <2> HIDE DEF x
  <2> QED
    BY <2>1, <2>2, AskedAppend
<1>4. CASE UNCHANGED asked
  BY <1>4 DEF Asked
<1>5. CASE (Sends \/ Delivers \/ Reads \/ Takes \/ UNCHANGED vars)
  <2>1. UNCHANGED asked
    BY <1>5, Zenon
       DEF Sends, Send, Delivers, Deliver, Reads, Read, Takes, TakeLine, TakeText, TakeEnds, vars
  <2> QED
    BY <1>4, <2>1
<1> QED
  BY <1>1, <1>2, <1>3, <1>5, Zenon DEF Next

\* A phone's text that both alphabets can give back.
LEMMA RecoverableWhole ==
  ASSUME NEW text \in PhoneTexts, Recoverable(text)
  PROVE  Recovers(~IsAscii(text), text)
<1>1. text \in Seq(Octet) /\ text # <<>>
  BY MessageIs
<1>2. WellFormed(text) /\ Shortest(text)
      /\ \A i \in DOMAIN text : text[i] < 128 => text[i] \in Alphabet
  BY Zenon DEF Recoverable
<1>3. CASE IsAscii(text)
  <2>1. \A i \in 1..Len(text) : text[i] \in Alphabet
    BY <1>2, <1>3 DEF IsAscii
  <2>2. text = [i \in 1..Len(text) |-> text[i]] /\ Len(text) \in Nat
    BY <1>1
  <2>3. text \in Seq(Alphabet)
    BY <2>1, <2>2
  <2> QED
    BY <1>1, <1>3, <2>3, Zenon DEF Recovers
<1>4. CASE ~IsAscii(text)
  BY <1>1, <1>2, <1>4, Zenon DEF Recovers
<1> QED
  BY <1>3, <1>4

\* What the texts have to be for both ends to give them back: characters that both
\* alphabets have, no more parts than an octet counts, and what the phone sends fits
\* into a PDU.
RecoverableBothWays ==
    /\ Own # <<Plus>> /\ Phone # <<Plus>>
    /\ \A text \in Messages \cup PhoneTexts : Recoverable(text)
    /\ \A text \in Messages, cmd \in {"file", "sms"} : Len(Parts(cmd, text).parts) <= 255
    /\ \A text \in PhoneTexts :
          Len(IF IsAscii(text) THEN ToSeptets[text] ELSE ToUnits[text]) <= 255

LEMMA BothWays == RecoverableBothWays => ExactTexts
<1> SUFFICES ASSUME RecoverableBothWays PROVE ExactTexts
  OBVIOUS
<1>1. RecoverableTexts
  BY Zenon DEF RecoverableBothWays, RecoverableTexts
<1>2. ASSUME NEW text \in PhoneTexts
      PROVE  Recovers(~IsAscii(text), text) /\ WholeLength(~IsAscii(text), text) <= 255
  <2>1. Recovers(~IsAscii(text), text)
    BY RecoverableWhole, Zenon DEF RecoverableBothWays
  <2>2. Len(IF IsAscii(text) THEN ToSeptets[text] ELSE ToUnits[text]) <= 255
    BY Zenon DEF RecoverableBothWays
  <2>3. CASE IsAscii(text)
    BY <2>1, <2>2, <2>3, Zenon DEF WholeLength
  <2>4. CASE ~IsAscii(text)
    BY <2>1, <2>2, <2>4, Zenon DEF WholeLength
  <2> QED
    BY <2>3, <2>4
<1> QED
  BY <1>1, <1>2, Zenon DEF ExactTexts, PhoneTextsGood, RecoverableBothWays

\* The inductive invariant of what is reported.
XInv == IInv /\ AllAsAsked /\ EInv /\ Asked

LEMMA ExactInvariant ==
  ASSUME ExactTexts
  PROVE  Spec => []XInv
<1>1. Init => XInv
  <2>1. Init => AllAsAsked /\ Asked
    BY DEF Init, AllAsAsked, Parcels, Asked
  <2> QED
    BY <2>1, Beginning, ExactBegins DEF XInv
<1>2. XInv /\ [Next]_vars => XInv'
  <2>1. RecoverableTexts
    BY DEF ExactTexts
  <2> QED
    BY <2>1, Inductive, AsAskedStep, ExactStep, AskedStep DEF XInv
<1> QED
  BY <1>1, <1>2, PTL DEF Spec

\* A text that handle_gsm_send_sms or handle_gsm_send_sms_file hands over, or that a
\* phone sends in a PDU or in text mode, is reported as it was written: each event's
\* part, total and text are among those its text was split into, its sender and its
\* zone are right, and no part is reported twice, in whatever order the network
\* delivers, however the reads cut what the modem writes, whatever of it
\* allogsm_check_event drops, and beside whatever sendsms_exec and forwardsms_exec
\* send.  Only a text whose header was taken without its body is left out.
THEOREM EveryTextReportedOnce ==
  ASSUME RecoverableBothWays
  PROVE  Spec => []ReportedOnce
<1>1. ExactTexts
  BY BothWays
<1>2. XInv => ReportedOnce
  BY ExactSays DEF XInv
<1> QED
  BY <1>1, <1>2, ExactInvariant, PTL

\* Where texts are sent by these two commands and by phones alone, that is all the run
\* checks of the events.
THEOREM EveryEventExact ==
  ASSUME RecoverableBothWays, Commands \subseteq {"file", "sms"}
  PROVE  Spec => []Exact
<1>1. ExactTexts
  BY BothWays
<1>2. XInv => Exact
  <2> SUFFICES ASSUME XInv PROVE Exact
    OBVIOUS
  <2>1. ReportedOnce
    BY ExactSays DEF XInv
  <2>2. ASSUME NEW k \in DOMAIN inbox PROVE Direct(asked[inbox[k].id])
    <3>1. inbox[k].id \in DOMAIN asked
      BY Zenon DEF XInv, EInv, Told
    <3>2. asked[inbox[k].id].cmd \in Commands \cup Modes
      BY <3>1, Zenon DEF XInv, Asked
    <3> QED
      BY <3>2, TextsAssumption DEF Direct
  <2> QED
    BY <2>1, <2>2, Zenon DEF ReportedOnce, Exact
<1> QED
  BY <1>1, <1>2, ExactInvariant, PTL
=============================================================================
