----------------------------- MODULE TextsProofs -----------------------------
(***************************************************************************)
(* Proofs about PduCodec and Texts: where the parts go, that they fit, and *)
(* that they decode into what was encoded.                                 *)
(***************************************************************************)
EXTENDS Texts, SequenceTheorems, WellFoundedInduction, TLAPS

------------------------------------------------------------------------------
(* Induction and recursion.  The induction theorems of the library take an *)
(* operator; here a set of natural numbers takes its place.                *)

\* A set with 0 and with every successor of its elements is Nat.
LEMMA Induct ==
  ASSUME NEW S, 0 \in S, \A n \in Nat : n \in S => n + 1 \in S
  PROVE  Nat \subseteq S
<1>1. SUFFICES ASSUME Nat \ S # {} PROVE FALSE
  OBVIOUS
<1>2. PICK m \in Nat \ S : \A t \in Nat \ S : <<t, m>> \notin OpToRel(<, Nat)
  BY <1>1, WFMin, NatLessThanWellFounded, Zenon
<1>3. m # 0 /\ m - 1 \in Nat
  OBVIOUS
<1>4. <<m - 1, m>> \in OpToRel(<, Nat)
  BY <1>3 DEF OpToRel
<1>5. m - 1 \in S
  BY <1>2, <1>3, <1>4
<1> QED
  BY <1>3, <1>5

\* The same up to n.
LEMMA InductTo ==
  ASSUME NEW n \in Nat, NEW S, 0 \in S, \A i \in 1..n : i - 1 \in S => i \in S
  PROVE  \A i \in 0..n : i \in S
<1> DEFINE T == {i \in Nat : i <= n => i \in S}
<1>1. 0 \in T
  OBVIOUS
<1>2. ASSUME NEW i \in Nat, i \in T PROVE i + 1 \in T
  BY <1>2
<1>3. Nat \subseteq T
  <2> HIDE DEF T
  <2> QED BY <1>1, <1>2, Induct
<1> QED
  BY <1>3

\* A set of natural numbers that is not empty has a least element.
LEMMA Least ==
  ASSUME NEW S \in SUBSET Nat, S # {}
  PROVE  \E m \in S : \A t \in S : m <= t
<1>1. IsWellFoundedOn(OpToRel(<, Nat), S)
  BY NatLessThanWellFounded, IsWellFoundedOnSubset, Zenon
<1>2. PICK m \in S : \A t \in S : <<t, m>> \notin OpToRel(<, Nat)
  BY <1>1, WFMin, Zenon
<1>3. ASSUME NEW t \in S PROVE m <= t
  <2>1. <<t, m>> \in OpToRel(<, Nat) <=> t < m
    BY DEF OpToRel
  <2>2. ~(t < m)
    BY <1>2, <2>1, Zenon
  <2> QED
    BY <2>2
<1> QED
  BY <1>3

\* f recurs by G from a, over 0..n; f and g agree there.
Recurs(f, n, a, G) == f[0] = a /\ \A i \in 1..n : f[i] = G[<<i, f[i - 1]>>]
Agree(f, g, n) == \A i \in 0..n : f[i] = g[i]

\* A recursion over 0..n has a function.
LEMMA Recursion ==
  ASSUME NEW n \in Nat, NEW V, NEW a \in V, NEW G \in [(1..n) \X V -> V]
  PROVE  \E f \in [0..n -> V] : Recurs(f, n, a, G)
<1> DEFINE S == {m \in Nat : m <= n => \E f \in [0..m -> V] : Recurs(f, m, a, G)}
<1>1. 0 \in S
  <2>1. Recurs([i \in 0..0 |-> a], 0, a, G)
    BY DEF Recurs
  <2> QED
    BY <2>1
<1>2. ASSUME NEW m \in Nat, m \in S PROVE m + 1 \in S
  <2>1. SUFFICES ASSUME m + 1 <= n PROVE \E f \in [0..(m + 1) -> V] : Recurs(f, m + 1, a, G)
    OBVIOUS
  <2>2. PICK f \in [0..m -> V] : Recurs(f, m, a, G)
    BY <1>2, <2>1
  <2>3. G[<<m + 1, f[m]>>] \in V
    BY <2>1
  <2> DEFINE g == [i \in 0..(m + 1) |-> IF i = m + 1 THEN G[<<m + 1, f[m]>>] ELSE f[i]]
  <2>4. g \in [0..(m + 1) -> V]
    BY <2>3
  <2>5. g[0] = a
    BY <2>2 DEF Recurs
  <2>6. ASSUME NEW i \in 1..(m + 1) PROVE g[i] = G[<<i, g[i - 1]>>]
    <3>1. CASE i = m + 1
      <4>1. g[i - 1] = f[m] /\ g[i] = G[<<m + 1, f[m]>>]
        BY <3>1
      <4> QED
        BY <3>1, <4>1
    <3>2. CASE i # m + 1
      BY <2>2, <3>2 DEF Recurs
    <3> QED
      BY <3>1, <3>2
  <2>7. Recurs(g, m + 1, a, G)
    BY <2>5, <2>6 DEF Recurs
  <2> QED
    BY <2>4, <2>7
<1>3. n \in S
  <2> HIDE DEF S
  <2> QED BY <1>1, <1>2, Induct
<1> QED
  BY <1>3

\* Two functions that recur in the same way agree.
LEMMA SameRecursion ==
  ASSUME NEW n \in Nat, NEW f, NEW g, f[0] = g[0],
         \A i \in 1..n : f[i - 1] = g[i - 1] => f[i] = g[i]
  PROVE  Agree(f, g, n)
<1> DEFINE S == {i \in Nat : f[i] = g[i]}
<1>1. 0 \in S
  OBVIOUS
<1>2. \A i \in 1..n : i - 1 \in S => i \in S
  OBVIOUS
<1>3. \A i \in 0..n : i \in S
  <2> HIDE DEF S
  <2> QED BY <1>1, <1>2, InductTo
<1> QED
  BY <1>3 DEF Agree
------------------------------------------------------------------------------
(* FlattenSeq.  W is Seq(V) in what follows.                               *)

\* Its partial results.
Flattens(f, s, n) ==
    /\ f[0] = <<>> /\ \A i \in 1..n : f[i] = f[i - 1] \o s[i]
    /\ FlattenSeq(s) = f[n]

LEMMA FlatteningIn ==
  ASSUME NEW W, <<>> \in W, \A u, v \in W : u \o v \in W /\ <<>> \o u = u,
         NEW s \in Seq(W), NEW n \in Nat, n = Len(s)
  PROVE  \E f \in [0..n -> W] : Flattens(f, s, n)
<1> DEFINE e == <<>>
           G == [x \in (1..n) \X W |-> x[2] \o s[x[1]]]
<1>1. \A i \in 1..n : s[i] \in W
  OBVIOUS
<1>2. e \in W /\ G \in [(1..n) \X W -> W]
  BY <1>1
<1>3. PICK f \in [0..n -> W] : Recurs(f, n, e, G)
  <2> HIDE DEF G, e
  <2> QED BY <1>2, Recursion
<1>4. f[0] = e /\ \A i \in 1..n : f[i] = G[<<i, f[i - 1]>>]
  BY <1>3 DEF Recurs
<1>5. \A i \in 1..n : f[i] = f[i - 1] \o s[i] /\ f[i] \in W
  BY <1>4
<1>6. CASE n = 0
  <2>1. FlattenSeq(s) = s
    BY <1>6 DEF FlattenSeq
  <2> QED
    BY <1>4, <1>5, <1>6, <2>1, EmptySeq DEF Flattens
<1>7. CASE n > 0
  <2> DEFINE h == CHOOSE h : h = [i \in 1..n |-> IF i = 1 THEN s[i] ELSE h[i - 1] \o s[i]]
             f1 == [i \in 1..n |-> f[i]]
  <2>1. FlattenSeq(s) = h[n]
    BY <1>7 DEF FlattenSeq
  <2>2. f1 = [i \in 1..n |-> IF i = 1 THEN s[i] ELSE f1[i - 1] \o s[i]]
    <3>1. ASSUME NEW i \in 1..n PROVE f1[i] = IF i = 1 THEN s[i] ELSE f1[i - 1] \o s[i]
      <4>1. CASE i = 1
        <5>1. f[i] = <<>> \o s[i]
          BY <1>4, <1>5, <4>1
        <5> QED
          BY <1>1, <4>1, <5>1
      <4>2. CASE i # 1
        BY <1>5, <4>2
      <4> QED
        BY <4>1, <4>2
    <3> QED
      BY <3>1
  <2>3. h = [i \in 1..n |-> IF i = 1 THEN s[i] ELSE h[i - 1] \o s[i]]
    <3> HIDE DEF f1
    <3> QED BY <2>2, Zenon
  <2> HIDE DEF h
  <2> DEFINE h0 == [i \in 0..n |-> IF i = 0 THEN <<>> ELSE h[i]]
  <2>4. \A i \in 1..n : f[i - 1] = h0[i - 1] => f[i] = h0[i]
    <3> SUFFICES ASSUME NEW i \in 1..n, f[i - 1] = h0[i - 1] PROVE f[i] = h0[i]
      OBVIOUS
    <3>1. CASE i = 1
      <4>1. h[i] = s[i]
        BY <2>3, <3>1
      <4>2. f[i] = s[i]
        BY <1>1, <1>4, <1>5, <3>1
      <4> QED
        BY <4>1, <4>2
    <3>2. CASE i # 1
      <4>1. h[i] = h[i - 1] \o s[i]
        BY <2>3, <3>2
      <4>2. h0[i - 1] = h[i - 1] /\ h0[i] = h[i]
        <5>1. i \in 0..n /\ i - 1 \in 0..n /\ i # 0 /\ i - 1 # 0
          BY <3>2
        <5> QED
          BY <5>1
      <4>3. f[i] = f[i - 1] \o s[i]
        BY <1>5, Zenon
      <4> HIDE DEF h0
      <4> QED
        BY <4>1, <4>2, <4>3
    <3> QED
      BY <3>1, <3>2
  <2>5. f[n] = h0[n]
    <3>1. f[0] = h0[0]
      BY <1>4
    <3> HIDE DEF h0
    <3>2. Agree(f, h0, n)
      BY <2>4, <3>1, SameRecursion
    <3> QED
      BY <3>2 DEF Agree
  <2> QED
    BY <1>4, <1>5, <1>7, <2>1, <2>5 DEF Flattens
<1> QED
  BY <1>6, <1>7

LEMMA Flattening ==
  ASSUME NEW V, NEW s \in Seq(Seq(V))
  PROVE  \E f \in [0..Len(s) -> Seq(V)] : Flattens(f, s, Len(s))
<1> DEFINE W == Seq(V)
           n == Len(s)
<1>1. <<>> \in W /\ \A u, v \in W : u \o v \in W /\ <<>> \o u = u
  BY ConcatEmptySeq
<1>2. s \in Seq(W) /\ n \in Nat /\ n = Len(s)
  OBVIOUS
<1>3. \E f \in [0..n -> W] : Flattens(f, s, n)
  <2> HIDE DEF W, n
  <2> QED BY <1>1, <1>2, FlatteningIn
<1> QED
  BY <1>3

LEMMA FlattenType ==
  ASSUME NEW V, NEW s \in Seq(Seq(V))
  PROVE  FlattenSeq(s) \in Seq(V)
<1> DEFINE W == Seq(V)
           n == Len(s)
<1>1. PICK f \in [0..n -> W] : Flattens(f, s, n)
  BY Flattening
<1>2. n \in Nat
  OBVIOUS
<1>3. f[n] \in W
  <2> HIDE DEF W, n
  <2> QED BY <1>1, <1>2
<1> QED
  BY <1>1, <1>3 DEF Flattens

LEMMA FlattenEmpty == FlattenSeq(<<>>) = <<>>
BY DEF FlattenSeq

LEMMA FlattensLonger ==
  ASSUME NEW n \in Nat, NEW s, NEW t, NEW f, NEW g, Flattens(f, s, n), Flattens(g, t, n + 1),
         \A i \in 1..n : t[i] = s[i]
  PROVE  FlattenSeq(t) = FlattenSeq(s) \o t[n + 1]
<1>1. f[0] = g[0]
  BY DEF Flattens
<1>2. ASSUME NEW i \in 1..n, f[i - 1] = g[i - 1] PROVE f[i] = g[i]
  <2>1. f[i] = f[i - 1] \o s[i]
    BY DEF Flattens
  <2>2. g[i] = g[i - 1] \o t[i]
    <3>1. i \in 1..(n + 1)
      OBVIOUS
    <3> QED
      BY <3>1, Zenon DEF Flattens
  <2> QED
    BY <1>2, <2>1, <2>2
<1>3. Agree(f, g, n)
  BY <1>1, <1>2, SameRecursion
<1>4. g[n + 1] = g[n] \o t[n + 1]
  <2>1. n + 1 \in 1..(n + 1) /\ n = (n + 1) - 1
    OBVIOUS
  <2> QED
    BY <2>1, Zenon DEF Flattens
<1>5. f[n] = g[n]
  BY <1>3 DEF Agree
<1> QED
  BY <1>4, <1>5 DEF Flattens

LEMMA FlattenAppend ==
  ASSUME NEW V, NEW s \in Seq(Seq(V)), NEW x \in Seq(V)
  PROVE  FlattenSeq(Append(s, x)) = FlattenSeq(s) \o x
<1> DEFINE t == Append(s, x)
           n == Len(s)
           W == Seq(V)
<1>1. t \in Seq(W) /\ Len(t) = n + 1 /\ (\A i \in 1..n : t[i] = s[i]) /\ t[n + 1] = x /\ n \in Nat
  OBVIOUS
<1>2. PICK f \in [0..n -> W] : Flattens(f, s, n)
  BY Flattening
<1>3. PICK g \in [0..(n + 1) -> W] : Flattens(g, t, n + 1)
  <2>1. \E g \in [0..Len(t) -> Seq(V)] : Flattens(g, t, Len(t))
    <3> HIDE DEF t
    <3> QED BY <1>1, Flattening
  <2> HIDE DEF t, n
  <2> QED BY <1>1, <2>1
<1>4. FlattenSeq(t) = FlattenSeq(s) \o t[n + 1]
  <2> HIDE DEF t, n, W
  <2> QED BY <1>1, <1>2, <1>3, FlattensLonger
<1> QED
  BY <1>1, <1>4

\* The laws of concatenation in W.
Concatenates(W) ==
    /\ \A u \in W : u \o <<>> = u
    /\ \A u, v, w \in W : (u \o v) \o w = u \o (v \o w)
    /\ \A s \in Seq(W) : FlattenSeq(s) \in W
    /\ \A s \in Seq(W), x \in W : FlattenSeq(Append(s, x)) = FlattenSeq(s) \o x

LEMMA FlattenConcatIn ==
  ASSUME NEW W, Concatenates(W), NEW s \in Seq(W), NEW t \in Seq(W)
  PROVE  FlattenSeq(s \o t) = FlattenSeq(s) \o FlattenSeq(t)
<1> DEFINE Splits(u) == FlattenSeq(s \o u) = FlattenSeq(s) \o FlattenSeq(u)
           S == {n \in Nat : \A u \in Seq(W) : Len(u) = n => Splits(u)}
<1>1. 0 \in S
  <2>1. ASSUME NEW u \in Seq(W), Len(u) = 0 PROVE Splits(u)
    <3>1. u = <<>> /\ s \o u = s
      BY <2>1, EmptySeq, ConcatEmptySeq
    <3>2. FlattenSeq(s) \o <<>> = FlattenSeq(s)
      BY DEF Concatenates
    <3> QED
      BY <3>1, <3>2, FlattenEmpty
  <2> QED
    BY <2>1
<1>2. ASSUME NEW n \in Nat, n \in S PROVE n + 1 \in S
  <2>1. ASSUME NEW u \in Seq(W), Len(u) = n + 1 PROVE Splits(u)
    <3>1. PICK v \in Seq(W), x \in W : u = Append(v, x)
      <4>1. u # <<>>
        BY <1>2, <2>1
      <4> QED
        BY <4>1, SequenceEmptyOrAppend
    <3>2. Len(v) = n
      BY <1>2, <2>1, <3>1, AppendProperties
    <3>3. Splits(v)
      BY <1>2, <3>2
    <3>4. s \o u = Append(s \o v, x) /\ s \o v \in Seq(W)
      BY <3>1
    <3>5. FlattenSeq(s \o u) = FlattenSeq(s \o v) \o x
      <4> DEFINE z == s \o v
      <4>1. z \in Seq(W)
        BY <3>4
      <4> HIDE DEF z
      <4>2. FlattenSeq(Append(z, x)) = FlattenSeq(z) \o x
        BY <4>1 DEF Concatenates
      <4> QED
        BY <3>4, <4>2 DEF z
    <3>6. FlattenSeq(u) = FlattenSeq(v) \o x
      BY <3>1 DEF Concatenates
    <3>7. (FlattenSeq(s) \o FlattenSeq(v)) \o x = FlattenSeq(s) \o (FlattenSeq(v) \o x)
      <4>1. FlattenSeq(s) \in W /\ FlattenSeq(v) \in W
        BY DEF Concatenates
      <4> DEFINE y == FlattenSeq(s)
                 z == FlattenSeq(v)
      <4> HIDE DEF y, z
      <4>2. y \in W /\ z \in W
        BY <4>1 DEF y, z
      <4>3. (y \o z) \o x = y \o (z \o x)
        BY <4>2 DEF Concatenates
      <4> QED
        BY <4>3 DEF y, z
    <3> QED
      BY <3>3, <3>5, <3>6, <3>7
  <2> QED
    BY <2>1
<1>3. Len(t) \in S
  <2>1. Len(t) \in Nat
    OBVIOUS
  <2> HIDE DEF S
  <2> QED BY <1>1, <1>2, <2>1, Induct
<1> QED
  BY <1>3

LEMMA FlattenConcat ==
  ASSUME NEW V, NEW s \in Seq(Seq(V)), NEW t \in Seq(Seq(V))
  PROVE  FlattenSeq(s \o t) = FlattenSeq(s) \o FlattenSeq(t)
<1> DEFINE W == Seq(V)
<1>1. Concatenates(W)
  <2>0. \A u \in W : u \o <<>> = u
    BY ConcatEmptySeq
  <2>1. \A u, v, w \in W : (u \o v) \o w = u \o (v \o w)
    BY ConcatAssociative
  <2>2. \A u \in Seq(W) : FlattenSeq(u) \in W
    BY FlattenType
  <2>3. \A u \in Seq(W), x \in W : FlattenSeq(Append(u, x)) = FlattenSeq(u) \o x
    BY FlattenAppend
  <2> HIDE DEF W
  <2> QED
    BY <2>0, <2>1, <2>2, <2>3, Zenon DEF Concatenates
<1>2. s \in Seq(W) /\ t \in Seq(W)
  OBVIOUS
<1> HIDE DEF W
<1> QED
  BY <1>1, <1>2, FlattenConcatIn

LEMMA FlattenOne ==
  ASSUME NEW V, NEW x \in Seq(V)
  PROVE  FlattenSeq(<<x>>) = x
<1>1. <<>> \in Seq(Seq(V)) /\ Append(<<>>, x) = <<x>> /\ <<>> \o x = x
  BY ConcatEmptySeq
<1> QED
  BY <1>1, FlattenAppend, FlattenEmpty

\* Where the elements of s stand in FlattenSeq(s): f[k - 1] is what stands before s[k].
Pieces(s, n, V) == \A k \in 1..n : s[k] \in Seq(V)
Begins(s, t) == Len(t) <= Len(s) /\ \A i \in 1..Len(t) : s[i] = t[i]

LEMMA FlattensEnds ==
  ASSUME NEW n, NEW f, NEW s, Flattens(f, s, n)
  PROVE  f[0] = <<>> /\ FlattenSeq(s) = f[n]
BY DEF Flattens

Joins(a, b, c) == a = b \o c

LEMMA JoinsTypes ==
  ASSUME NEW V, NEW a, NEW b, NEW c, b \in Seq(V), c \in Seq(V), Joins(a, b, c)
  PROVE  a \in Seq(V)
BY DEF Joins

LEMMA JoinsPlaces ==
  ASSUME NEW V, NEW a, NEW b, NEW c, b \in Seq(V), c \in Seq(V), Joins(a, b, c)
  PROVE  /\ Len(a) = Len(b) + Len(c) /\ Begins(a, b)
         /\ \A j \in 1..Len(c) : a[Len(b) + j] = c[j]
BY DEF Joins, Begins

LEMMA FlattensAt ==
  ASSUME NEW n, NEW f, NEW s, Flattens(f, s, n), NEW k \in 1..n
  PROVE  Joins(f[k], f[k - 1], s[k])
BY Zenon DEF Flattens, Joins

LEMMA FlattensTypes ==
  ASSUME NEW n \in Nat, NEW V, NEW f, NEW s, Flattens(f, s, n), Pieces(s, n, V)
  PROVE  \A k \in 0..n : f[k] \in Seq(V)
<1> DEFINE S == {k \in Nat : f[k] \in Seq(V)}
<1>1. 0 \in S
  <2>1. f[0] = <<>> /\ <<>> \in Seq(V)
    BY FlattensEnds
  <2> QED
    BY <2>1
<1>2. ASSUME NEW k \in 1..n, k - 1 \in S PROVE k \in S
  <2>1. Joins(f[k], f[k - 1], s[k])
    BY FlattensAt
  <2>2. f[k - 1] \in Seq(V) /\ s[k] \in Seq(V)
    BY <1>2 DEF Pieces
  <2> QED
    BY <2>1, <2>2, JoinsTypes
<1>3. \A k \in 0..n : k \in S
  <2> HIDE DEF S
  <2> QED BY <1>1, <1>2, InductTo
<1> QED
  BY <1>3

LEMMA FlattensGrows ==
  ASSUME NEW n \in Nat, NEW V, NEW f, NEW s, Flattens(f, s, n), Pieces(s, n, V),
         NEW k \in 1..n
  PROVE  /\ s[k] \in Seq(V) /\ f[k] \in Seq(V) /\ f[k - 1] \in Seq(V)
         /\ Joins(f[k], f[k - 1], s[k])
<1>1. k \in 0..n /\ k - 1 \in 0..n
  OBVIOUS
<1>2. f[k] \in Seq(V) /\ f[k - 1] \in Seq(V) /\ s[k] \in Seq(V)
  BY <1>1, FlattensTypes DEF Pieces
<1> QED
  BY <1>2, FlattensAt

LEMMA BeginsTransitive ==
  ASSUME NEW V, NEW a \in Seq(V), NEW b \in Seq(V), NEW c \in Seq(V),
         Begins(a, b), Begins(b, c)
  PROVE  Begins(a, c)
BY DEF Begins

LEMMA FlattensBegins ==
  ASSUME NEW n \in Nat, NEW V, NEW f, NEW s, Flattens(f, s, n), Pieces(s, n, V),
         NEW k \in 0..n
  PROVE  Begins(f[n], f[k])
<1> DEFINE S == {m \in Nat : m <= n - k => Begins(f[k + m], f[k])}
<1>1. 0 \in S
  <2>1. f[k] \in Seq(V)
    BY FlattensTypes
  <2> QED
    BY <2>1 DEF Begins
<1>2. ASSUME NEW m \in Nat, m \in S PROVE m + 1 \in S
  <2>1. SUFFICES ASSUME m + 1 <= n - k PROVE Begins(f[k + m + 1], f[k])
    OBVIOUS
  <2>2. Begins(f[k + m], f[k])
    BY <1>2, <2>1
  <2>3. k + m + 1 \in 1..n /\ k + m = (k + m + 1) - 1 /\ k + m \in 0..n
    BY <2>1
  <2>4. Begins(f[k + m + 1], f[k + m])
    <3> DEFINE j == k + m + 1
    <3>1. j \in 1..n /\ j - 1 = k + m
      BY <2>3
    <3> HIDE DEF j
    <3>2. s[j] \in Seq(V) /\ f[j] \in Seq(V) /\ f[j - 1] \in Seq(V) /\ Joins(f[j], f[j - 1], s[j])
      BY <3>1, FlattensGrows
    <3>3. Begins(f[j], f[j - 1])
      BY <3>2, JoinsPlaces
    <3> QED
      BY <3>1, <3>3 DEF j
  <2>5. f[k] \in Seq(V) /\ f[k + m] \in Seq(V) /\ f[k + m + 1] \in Seq(V)
    BY <2>3, FlattensTypes
  <2> QED
    BY <2>2, <2>4, <2>5, BeginsTransitive
<1>3. n - k \in S
  <2>1. n - k \in Nat
    OBVIOUS
  <2> HIDE DEF S
  <2> QED BY <1>1, <1>2, <2>1, Induct
<1> QED
  BY <1>3

\* c stands in d behind b.
Holds(d, b, c) ==
    /\ Len(b) + Len(c) <= Len(d)
    /\ \A j \in 1..Len(c) : d[Len(b) + j] = c[j]

LEMMA JoinsHolds ==
  ASSUME NEW V, NEW a, NEW b, NEW c, NEW d, b \in Seq(V), c \in Seq(V), d \in Seq(V),
         Joins(a, b, c), Begins(d, a)
  PROVE  Holds(d, b, c)
<1>1. Len(a) = Len(b) + Len(c) /\ \A j \in 1..Len(c) : a[Len(b) + j] = c[j]
  BY JoinsPlaces
<1>2. Len(a) <= Len(d) /\ \A i \in 1..Len(a) : d[i] = a[i]
  BY DEF Begins
<1>3. Len(b) \in Nat /\ Len(c) \in Nat /\ Len(d) \in Nat
  OBVIOUS
<1>4. \A j \in 1..Len(c) : Len(b) + j \in 1..Len(a)
  BY <1>1, <1>3
<1> QED
  BY <1>1, <1>2, <1>3, <1>4 DEF Holds

LEMMA FlattenPlaces ==
  ASSUME NEW n \in Nat, NEW V, NEW f, NEW s, Flattens(f, s, n), Pieces(s, n, V),
         NEW k \in 1..n
  PROVE  /\ FlattenSeq(s) \in Seq(V) /\ s[k] \in Seq(V)
         /\ f[k] \in Seq(V) /\ f[k - 1] \in Seq(V)
         /\ Joins(f[k], f[k - 1], s[k]) /\ Holds(FlattenSeq(s), f[k - 1], s[k])
<1>1. FlattenSeq(s) = f[n] /\ f[n] \in Seq(V)
  BY FlattensEnds, FlattensTypes
<1>2. Begins(f[n], f[k])
  BY FlattensBegins
<1>3. /\ s[k] \in Seq(V) /\ f[k] \in Seq(V) /\ f[k - 1] \in Seq(V)
      /\ Joins(f[k], f[k - 1], s[k])
  BY FlattensGrows
<1>4. Holds(f[n], f[k - 1], s[k])
  BY <1>1, <1>2, <1>3, JoinsHolds
<1> QED
  BY <1>1, <1>3, <1>4
------------------------------------------------------------------------------
(* Scan.                                                                   *)

\* From the i-th entry on g[i] is given out, if i is one of the last m.
Scans(g, out, step, n, m) ==
    /\ \A i \in (n + 1)..(n + 3) : g[i] = <<>>
    /\ \A i \in 1..n : i > n - m => Joins(g[i], out[i], g[i + step[i]])

LEMMA ScansExists ==
  ASSUME NEW W, <<>> \in W, \A u, v \in W : u \o v \in W,
         NEW n \in Nat, NEW out \in [1..n -> W], NEW step \in [1..n -> 1..3]
  PROVE  \E g \in [1..(n + 3) -> W] : Scans(g, out, step, n, n)
<1> DEFINE S == {m \in Nat : m <= n => \E g \in [1..(n + 3) -> W] : Scans(g, out, step, n, m)}
<1>1. 0 \in S
  <2> DEFINE g == [i \in 1..(n + 3) |-> <<>>]
  <2>1. g \in [1..(n + 3) -> W] /\ Scans(g, out, step, n, 0)
    BY DEF Scans
  <2> QED
    BY <2>1
<1>2. ASSUME NEW m \in Nat, m \in S PROVE m + 1 \in S
  <2>1. SUFFICES ASSUME m + 1 <= n
                 PROVE  \E g \in [1..(n + 3) -> W] : Scans(g, out, step, n, m + 1)
    OBVIOUS
  <2>2. PICK f \in [1..(n + 3) -> W] : Scans(f, out, step, n, m)
    BY <1>2, <2>1
  <2> DEFINE j == n - m
             x == out[j] \o f[j + step[j]]
             g == [i \in 1..(n + 3) |-> IF i = j THEN x ELSE f[i]]
  <2>3. j \in 1..n /\ step[j] \in 1..3 /\ j + step[j] \in 1..(n + 3)
    BY <2>1
  <2>4. x \in W
    <3>1. out[j] \in W /\ f[j + step[j]] \in W
      BY <2>3
    <3> QED
      BY <3>1
  <2>5. g \in [1..(n + 3) -> W]
    BY <2>4
  <2>6. ASSUME NEW i \in (n + 1)..(n + 3) PROVE g[i] = <<>>
    <3>1. g[i] = f[i]
      BY <2>3
    <3> QED
      BY <2>2, <3>1 DEF Scans
  <2>7. ASSUME NEW i \in 1..n, i > n - (m + 1) PROVE Joins(g[i], out[i], g[i + step[i]])
    <3>1. CASE i = j
      <4>1. g[j + step[j]] = f[j + step[j]] /\ g[j] = x
        <5> HIDE DEF x
        <5> QED BY <2>3
      <4>2. Joins(x, out[j], f[j + step[j]])
        BY DEF Joins
      <4> HIDE DEF j, x, g
      <4> QED
        BY <3>1, <4>1, <4>2
    <3>2. CASE i # j
      <4>1. step[i] \in 1..3 /\ i + step[i] \in 1..(n + 3) /\ i + step[i] # j /\ i > n - m
        BY <2>3, <2>7, <3>2
      <4>2. g[i] = f[i] /\ g[i + step[i]] = f[i + step[i]]
        <5> HIDE DEF x
        <5> QED BY <3>2, <4>1
      <4>3. Joins(f[i], out[i], f[i + step[i]])
        BY <2>2, <4>1 DEF Scans
      <4> HIDE DEF g
      <4> QED
        BY <4>2, <4>3
    <3> QED
      BY <3>1, <3>2
  <2>8. Scans(g, out, step, n, m + 1)
    <3> HIDE DEF g
    <3> QED BY <2>6, <2>7 DEF Scans
  <2> QED
    BY <2>5, <2>8
<1>3. n \in S
  <2> HIDE DEF S
  <2> QED BY <1>1, <1>2, Induct
<1> QED
  BY <1>3

LEMMA ScansTypes ==
  ASSUME NEW W, <<>> \in W, \A u, v \in W : u \o v \in W,
         NEW n \in Nat, NEW out \in [1..n -> W], NEW step \in [1..n -> 1..3],
         NEW g, Scans(g, out, step, n, n)
  PROVE  \A i \in 1..(n + 3) : g[i] \in W
<1> DEFINE S == {m \in Nat : m <= n => \A i \in 1..(n + 3) : i > n - m => g[i] \in W}
<1>1. 0 \in S
  <2>1. ASSUME NEW i \in 1..(n + 3), i > n PROVE g[i] = <<>>
    BY <2>1 DEF Scans
  <2> QED
    BY <2>1
<1>2. ASSUME NEW m \in Nat, m \in S PROVE m + 1 \in S
  <2>1. ASSUME m + 1 <= n, NEW i \in 1..(n + 3), i > n - (m + 1) PROVE g[i] \in W
    <3>1. CASE i > n - m
      BY <1>2, <2>1, <3>1
    <3>2. CASE i = n - m
      <4>1. i \in 1..n /\ step[i] \in 1..3 /\ i + step[i] \in 1..(n + 3) /\ i + step[i] > n - m
        BY <2>1, <3>2
      <4>2. g[i + step[i]] \in W /\ out[i] \in W
        BY <1>2, <2>1, <4>1
      <4>3. Joins(g[i], out[i], g[i + step[i]])
        BY <4>1 DEF Scans
      <4> QED
        BY <4>2, <4>3 DEF Joins
    <3> QED
      BY <2>1, <3>1, <3>2
  <2> QED
    BY <2>1
<1>3. n \in S
  <2> HIDE DEF S
  <2> QED BY <1>1, <1>2, Induct
<1> QED
  BY <1>3

LEMMA Scanning ==
  ASSUME NEW W, <<>> \in W, \A u, v \in W : u \o v \in W,
         NEW out \in Seq(W), NEW n, n = Len(out), NEW step \in [1..n -> 1..3]
  PROVE  \E g \in [1..(n + 3) -> W] : Scans(g, out, step, n, n) /\ Scan(out, step) = g[1]
<1>1. n \in Nat /\ out \in [1..n -> W]
  OBVIOUS
<1>2. PICK f \in [1..(n + 3) -> W] : Scans(f, out, step, n, n)
  BY <1>1, ScansExists
<1> DEFINE Eq(h) == h = [i \in 1..(n + 3) |-> IF i > n THEN <<>> ELSE out[i] \o h[i + step[i]]]
           g == CHOOSE h : Eq(h)
<1>3. Scan(out, step) = g[1]
  BY DEF Scan
<1>4. Eq(f)
  <2>1. ASSUME NEW i \in 1..(n + 3)
        PROVE  f[i] = IF i > n THEN <<>> ELSE out[i] \o f[i + step[i]]
    <3>1. CASE i > n
      BY <1>1, <1>2, <3>1 DEF Scans
    <3>2. CASE i <= n
      <4>1. Joins(f[i], out[i], f[i + step[i]])
        BY <1>1, <1>2, <3>2 DEF Scans
      <4>2. ~(i > n)
        BY <1>1, <3>2
      <4> QED
        BY <4>1, <4>2, Zenon DEF Joins
    <3>3. i > n \/ i <= n
      BY <1>1
    <3> QED
      BY <3>1, <3>2, <3>3, Zenon
  <2> QED
    BY <2>1
<1>5. Eq(g)
  <2> HIDE DEF Eq
  <2> QED BY <1>4
<1> HIDE DEF g
<1>6. Scans(g, out, step, n, n)
  <2>1. \A i \in (n + 1)..(n + 3) : g[i] = <<>>
    BY <1>1, <1>5
  <2>2. ASSUME NEW i \in 1..n PROVE Joins(g[i], out[i], g[i + step[i]])
    <3>1. i \in 1..(n + 3) /\ ~(i > n)
      BY <1>1
    <3>2. g[i] = IF i > n THEN <<>> ELSE out[i] \o g[i + step[i]]
      BY <1>5, <3>1, Zenon
    <3> QED BY <3>1, <3>2, Zenon DEF Joins
  <2> QED
    BY <2>1, <2>2 DEF Scans
<1>7. \A i \in 1..(n + 3) : g[i] \in W
  BY <1>1, <1>6, ScansTypes
<1>8. g \in [1..(n + 3) -> W]
  BY <1>5, <1>7
<1> QED
  BY <1>3, <1>6, <1>8
------------------------------------------------------------------------------
(* The codec's operators: what they are made of, and where it stands.      *)

Octet == 0..255

LEMMA HexType ==
  ASSUME NEW o \in Seq(Nat)
  PROVE  /\ Hex(o) \in Seq(Nat) /\ Len(Hex(o)) = 2 * Len(o)
         /\ \A i \in 1..Len(o) : Hex(o)[2 * i - 1] = o[i] \div 16 /\ Hex(o)[2 * i] = o[i] % 16
<1>1. \A i \in 1..(2 * Len(o)) : (i + 1) \div 2 \in 1..Len(o)
  OBVIOUS
<1>2. \A i \in 1..(2 * Len(o)) : o[(i + 1) \div 2] \div 16 \in Nat /\ o[(i + 1) \div 2] % 16 \in Nat
  <2>1. \A x \in Nat : x \div 16 \in Nat /\ x % 16 \in Nat
    OBVIOUS
  <2> QED
    BY <1>1, <2>1
<1>3. Hex(o) \in Seq(Nat) /\ Len(Hex(o)) = 2 * Len(o)
  BY <1>2 DEF Hex
<1>4. ASSUME NEW i \in 1..Len(o)
      PROVE  Hex(o)[2 * i - 1] = o[i] \div 16 /\ Hex(o)[2 * i] = o[i] % 16
  <2>1. /\ 2 * i - 1 \in 1..(2 * Len(o)) /\ ((2 * i - 1) + 1) \div 2 = i /\ (2 * i - 1) % 2 = 1
        /\ 2 * i \in 1..(2 * Len(o)) /\ (2 * i + 1) \div 2 = i /\ (2 * i) % 2 = 0
    OBVIOUS
  <2> QED
    BY <2>1 DEF Hex
<1> QED
  BY <1>3, <1>4

LEMMA OctetIs ==
  ASSUME NEW x
  PROVE  x \in Octet <=> x \in Nat /\ x <= 255
BY DEF Octet

LEMMA SevenBitIs ==
  ASSUME NEW x
  PROVE  x \in SevenBit <=> x \in Nat /\ x <= 127
BY DEF SevenBit

LEMMA Septets7Type ==
  ASSUME NEW c \in SevenBit
  PROVE  Septets7(c) \in Seq(SevenBit) /\ Len(Septets7(c)) \in 1..2
<1>1. CASE \E e \in Escapes : e[1] = c
  <2> DEFINE e == CHOOSE e \in Escapes : e[1] = c
  <2>1. e \in Escapes
    BY <1>1
  <2>2. e[2] \in SevenBit
    <3> HIDE DEF e
    <3> QED BY <2>1 DEF Escapes, SevenBit
  <2>3. Septets7(c) = <<27, e[2]>>
    BY <1>1 DEF Septets7
  <2>4. 27 \in SevenBit
    BY SevenBitIs
  <2> HIDE DEF e
  <2> QED
    BY <2>2, <2>3, <2>4
<1>2. CASE ~\E e \in Escapes : e[1] = c
  <2> DEFINE places == {s \in SevenBit : Ascii(s) = c}
             x == IF places = {} THEN c ELSE CHOOSE s \in places : \A t \in places : s <= t
  <2>1. Septets7(c) = <<x>>
    BY <1>2 DEF Septets7, SevenBit
  <2>2. x \in SevenBit
    <3>1. places \in SUBSET Nat /\ places \subseteq SevenBit
      BY SevenBitIs
    <3> HIDE DEF places
    <3>2. CASE places # {}
      <4>1. \E s \in places : \A t \in places : s <= t
        BY <3>1, <3>2, Least
      <4> QED
        BY <3>1, <3>2, <4>1
    <3> QED
      BY <3>2
  <2> HIDE DEF x
  <2> QED
    BY <2>1, <2>2
<1> QED
  BY <1>1, <1>2

LEMMA ToSeptetsType ==
  ASSUME NEW text \in Seq(SevenBit)
  PROVE  /\ ToSeptets[text] = FlattenSeq([i \in DOMAIN text |-> Septets7(text[i])])
         /\ [i \in DOMAIN text |-> Septets7(text[i])] \in Seq(Seq(SevenBit))
         /\ ToSeptets[text] \in Seq(SevenBit)
<1> DEFINE W == Seq(SevenBit)
           s == [i \in DOMAIN text |-> Septets7(text[i])]
<1>1. ToSeptets[text] = FlattenSeq(s)
  BY DEF ToSeptets, SevenBit
<1>2. s \in Seq(W)
  <2>1. \A i \in DOMAIN text : Septets7(text[i]) \in W
    <3>1. DOMAIN text = 1..Len(text)
      BY LenProperties
    <3>2. \A i \in DOMAIN text : text[i] \in SevenBit
      BY <3>1, ElementOfSeq
    <3> QED
      BY <3>2, Septets7Type
  <2> HIDE DEF W
  <2> QED BY <2>1
<1> QED
  BY <1>1, <1>2, FlattenType

LEMMA SeptetType ==
  ASSUME NEW s \in Seq(SevenBit), NEW i \in Nat
  PROVE  Septet(s, i) \in SevenBit
<1>1. CASE i < Len(s)
  <2>1. i + 1 \in 1..Len(s)
    BY <1>1
  <2>2. s[i + 1] \in SevenBit
    BY <2>1, ElementOfSeq
  <2> QED
    BY <1>1, <2>2 DEF Septet
<1>2. CASE ~(i < Len(s))
  BY <1>2, SevenBitIs DEF Septet
<1> QED
  BY <1>1, <1>2

LEMMA PackType ==
  ASSUME NEW s \in Seq(SevenBit)
  PROVE  Pack[s] \in Seq(Octet) /\ Len(Pack[s]) = (7 * Len(s) + 7) \div 8
<1>1. (7 * Len(s) + 7) \div 8 \in Nat
  OBVIOUS
<1>2. ASSUME NEW i \in 1..((7 * Len(s) + 7) \div 8)
      PROVE  Pack[s][i] \in Octet
  <2> DEFINE q == (8 * (i - 1)) \div 7
             r == (8 * (i - 1)) % 7
             x == Septet(s, q)
             y == Septet(s, q + 1)
  <2>1. q \in Nat /\ r \in 0..6
    OBVIOUS
  <2>2. Pack[s][i] = (x \div 2^r + y * 2^(7 - r)) % 256
    BY DEF Pack, SevenBit
  <2>3. x \in SevenBit /\ y \in SevenBit
    <3> HIDE DEF q, r
    <3> QED BY <2>1, SeptetType
  <2> HIDE DEF q, r, x, y
  <2>4. x \in Nat /\ x <= 127 /\ y \in Nat /\ y <= 127
    BY <2>3, SevenBitIs
  <2>5. (x \div 2^r + y * 2^(7 - r)) % 256 \in Nat /\ (x \div 2^r + y * 2^(7 - r)) % 256 <= 255
    <3>1. CASE r = 0
      BY <2>4, <3>1
    <3>2. CASE r = 1
      BY <2>4, <3>2
    <3>3. CASE r = 2
      BY <2>4, <3>3
    <3>4. CASE r = 3
      BY <2>4, <3>4
    <3>5. CASE r = 4
      BY <2>4, <3>5
    <3>6. CASE r = 5
      BY <2>4, <3>6
    <3>7. CASE r = 6
      BY <2>4, <3>7
    <3> QED
      BY <2>1, <3>1, <3>2, <3>3, <3>4, <3>5, <3>6, <3>7
  <2> QED
    BY <2>2, <2>5, OctetIs
<1> DEFINE p == Pack[s]
           n == (7 * Len(s) + 7) \div 8
<1>3. DOMAIN p = 1..n /\ p = [i \in 1..n |-> p[i]]
  BY DEF Pack, SevenBit
<1> HIDE DEF p, n
<1>4. p \in Seq(Octet) /\ Len(p) = n
  BY <1>1, <1>2, <1>3 DEF p, n
<1> QED
  BY <1>4 DEF p, n

\* The unit that starts with byte i of b, and its bytes.
Low6(b, i) == IF i <= Len(b) THEN b[i] % 64 ELSE 0
UnitBytes(b, i) == IF b[i] < 128 THEN 1 ELSE IF b[i] < 224 THEN 2 ELSE 3
UnitCode(b, i) ==
    CASE UnitBytes(b, i) = 1 -> b[i]
      [] UnitBytes(b, i) = 2 -> (b[i] % 32) * 64 + Low6(b, i + 1)
      [] UnitBytes(b, i) = 3 -> (b[i] % 16) * 4096 + Low6(b, i + 1) * 64 + Low6(b, i + 2)
UnitsOut(b) == [i \in 1..Len(b) |-> <<UnitCode(b, i) \div 256, UnitCode(b, i) % 256>>]
UnitsStep(b) == [i \in 1..Len(b) |-> UnitBytes(b, i)]

LEMMA ToUnitsIs ==
  ASSUME NEW b \in Seq(Octet)
  PROVE  ToUnits[b] = Scan(UnitsOut(b), UnitsStep(b))
BY DEF Octet, ToUnits, UnitsOut, UnitsStep, UnitCode, UnitBytes, Low6

LEMMA UnitType ==
  ASSUME NEW b \in Seq(Octet), NEW i \in 1..Len(b)
  PROVE  UnitCode(b, i) \in Nat /\ UnitCode(b, i) <= 65535 /\ UnitBytes(b, i) \in 1..3
<1> DEFINE x == b[i]
           y == Low6(b, i + 1)
           z == Low6(b, i + 2)
<1>1. ASSUME NEW j \in Nat \ {0} PROVE Low6(b, j) \in Nat /\ Low6(b, j) < 64
  <2>1. CASE j <= Len(b)
    <3> DEFINE u == b[j]
    <3>1. u \in Octet
      BY <2>1
    <3>2. u % 64 \in Nat /\ u % 64 < 64
      <4>1. u \in Nat
        BY <3>1, OctetIs
      <4> HIDE DEF u
      <4> QED BY <4>1
    <3> QED
      BY <2>1, <3>2 DEF Low6
  <2>2. CASE ~(j <= Len(b))
    BY <2>2 DEF Low6
  <2> QED
    BY <2>1, <2>2
<1>2. y \in Nat /\ y < 64 /\ z \in Nat /\ z < 64
  <2>1. i + 1 \in Nat \ {0} /\ i + 2 \in Nat \ {0}
    OBVIOUS
  <2> QED
    BY <1>1, <2>1
<1>3. x \in Nat /\ x <= 255
  <2>1. x \in Octet
    OBVIOUS
  <2> QED
    BY <2>1, OctetIs
<1>4. UnitBytes(b, i) = IF x < 128 THEN 1 ELSE IF x < 224 THEN 2 ELSE 3
  BY DEF UnitBytes
<1>5. CASE x < 128
  <2>1. UnitBytes(b, i) = 1
    BY <1>4, <1>5
  <2>2. UnitCode(b, i) = x
    BY <2>1 DEF UnitCode
  <2> HIDE DEF x
  <2> QED
    BY <1>3, <1>5, <2>1, <2>2
<1>6. CASE x >= 128 /\ x < 224
  <2>1. UnitBytes(b, i) = 2
    BY <1>3, <1>4, <1>6
  <2>2. UnitCode(b, i) = (x % 32) * 64 + y
    BY <2>1 DEF UnitCode
  <2> HIDE DEF x, y
  <2> QED
    BY <1>2, <1>3, <2>1, <2>2
<1>7. CASE x >= 224
  <2>1. UnitBytes(b, i) = 3
    BY <1>3, <1>4, <1>7
  <2>2. UnitCode(b, i) = (x % 16) * 4096 + y * 64 + z
    BY <2>1 DEF UnitCode
  <2> HIDE DEF x, y, z
  <2> QED
    BY <1>2, <1>3, <2>1, <2>2
<1> HIDE DEF x
<1> QED
  BY <1>3, <1>5, <1>6, <1>7

LEMMA UnitsTypes ==
  ASSUME NEW b \in Seq(Octet)
  PROVE  /\ UnitsOut(b) \in Seq(Seq(Octet)) /\ Len(UnitsOut(b)) = Len(b)
         /\ UnitsStep(b) \in [1..Len(b) -> 1..3]
<1> DEFINE W == Seq(Octet)
           n == Len(b)
<1>1. ASSUME NEW i \in 1..n PROVE <<UnitCode(b, i) \div 256, UnitCode(b, i) % 256>> \in W
  <2> DEFINE u == UnitCode(b, i)
  <2>1. u \in Nat /\ u <= 65535
    BY UnitType
  <2> HIDE DEF u
  <2>2. u \div 256 \in Nat /\ u \div 256 <= 255 /\ u % 256 \in Nat /\ u % 256 <= 255
    BY <2>1
  <2>3. u \div 256 \in Octet /\ u % 256 \in Octet
    BY <2>2, OctetIs
  <2> QED
    BY <2>3 DEF u
<1>2. \A i \in 1..n : UnitBytes(b, i) \in 1..3
  BY UnitType
<1>3. n \in Nat
  OBVIOUS
<1>4. UnitsOut(b) = [i \in 1..n |-> <<UnitCode(b, i) \div 256, UnitCode(b, i) % 256>>]
  BY DEF UnitsOut
<1>5. UnitsStep(b) = [i \in 1..n |-> UnitBytes(b, i)]
  BY DEF UnitsStep
<1> HIDE DEF W, n
<1>6. UnitsOut(b) \in Seq(W) /\ Len(UnitsOut(b)) = n
  BY <1>1, <1>3, <1>4
<1>7. UnitsStep(b) \in [1..n -> 1..3]
  BY <1>2, <1>5
<1> QED
  BY <1>6, <1>7 DEF W, n

LEMMA ToUnitsType ==
  ASSUME NEW b \in Seq(Octet)
  PROVE  ToUnits[b] \in Seq(Octet)
<1> DEFINE W == Seq(Octet)
           out == UnitsOut(b)
           step == UnitsStep(b)
           n == Len(b)
<1>1. <<>> \in W /\ (\A u, v \in W : u \o v \in W)
  OBVIOUS
<1>2. out \in Seq(W) /\ n = Len(out) /\ step \in [1..n -> 1..3] /\ n \in Nat
  BY UnitsTypes
<1>3. ToUnits[b] = Scan(out, step)
  BY ToUnitsIs
<1> HIDE DEF W, out, step, n
<1>4. PICK g \in [1..(n + 3) -> W] : Scans(g, out, step, n, n) /\ Scan(out, step) = g[1]
  BY <1>1, <1>2, Scanning
<1>5. g[1] \in W
  BY <1>2
<1> QED
  BY <1>3, <1>4, <1>5 DEF W

\* Leaving c out.
Kept(c, s) == [i \in DOMAIN s |-> IF s[i] = c THEN <<>> ELSE <<s[i]>>]

LEMMA KeptType ==
  ASSUME NEW V, NEW c, NEW s \in Seq(V)
  PROVE  Kept(c, s) \in Seq(Seq(V)) /\ Len(Kept(c, s)) = Len(s)
<1> DEFINE W == Seq(V)
           k == [i \in 1..Len(s) |-> IF s[i] = c THEN <<>> ELSE <<s[i]>>]
<1>1. \A i \in 1..Len(s) : k[i] \in W
  OBVIOUS
<1>2. Kept(c, s) = k
  BY DEF Kept
<1>3. k \in Seq(W) /\ Len(k) = Len(s)
  <2> HIDE DEF W
  <2> QED BY <1>1
<1> HIDE DEF k
<1> QED
  BY <1>2, <1>3

LEMMA WithoutEmpty ==
  ASSUME NEW c
  PROVE  Without(c, <<>>) = <<>>
<1>1. [i \in DOMAIN <<>> |-> IF <<>>[i] = c THEN <<>> ELSE <<<<>>[i]>>] = <<>>
  OBVIOUS
<1> QED
  BY <1>1, FlattenEmpty DEF Without

LEMMA WithoutAppend ==
  ASSUME NEW V, NEW c, NEW s \in Seq(V), NEW x \in V
  PROVE  /\ Without(c, s) \in Seq(V)
         /\ Without(c, Append(s, x)) = IF x = c THEN Without(c, s) ELSE Append(Without(c, s), x)
<1> DEFINE y == IF x = c THEN <<>> ELSE <<x>>
<1>1. Kept(c, Append(s, x)) = Append(Kept(c, s), y)
  BY DEF Kept
<1>2. Kept(c, s) \in Seq(Seq(V)) /\ y \in Seq(V)
  BY KeptType
<1>3. FlattenSeq(Kept(c, Append(s, x))) = FlattenSeq(Kept(c, s)) \o y
  BY <1>1, <1>2, FlattenAppend
<1>4. FlattenSeq(Kept(c, s)) \in Seq(V)
  BY <1>2, FlattenType
<1>5. Without(c, s) = FlattenSeq(Kept(c, s)) /\ Without(c, Append(s, x)) = FlattenSeq(Kept(c, Append(s, x)))
  BY DEF Without, Kept
<1> DEFINE z == Without(c, s)
<1>6. z \in Seq(V) /\ Without(c, Append(s, x)) = z \o y
  BY <1>3, <1>4, <1>5
<1> HIDE DEF z
<1>7. z \o y = IF x = c THEN z ELSE Append(z, x)
  BY <1>6
<1> QED
  BY <1>6, <1>7 DEF z

LEMMA WithoutNone ==
  ASSUME NEW V, NEW c, c \notin V, NEW s \in Seq(V)
  PROVE  Without(c, s) = s
<1> DEFINE S == {n \in Nat : \A t \in Seq(V) : Len(t) = n => Without(c, t) = t}
<1>1. 0 \in S
  BY WithoutEmpty, EmptySeq
<1>2. ASSUME NEW n \in Nat, n \in S PROVE n + 1 \in S
  <2>1. ASSUME NEW t \in Seq(V), Len(t) = n + 1 PROVE Without(c, t) = t
    <3>1. PICK u \in Seq(V), x \in V : t = Append(u, x)
      <4>1. t # <<>>
        BY <1>2, <2>1
      <4> QED
        BY <4>1, SequenceEmptyOrAppend
    <3>2. Len(u) = n
      BY <1>2, <2>1, <3>1, AppendProperties
    <3>3. Without(c, u) = u
      BY <1>2, <3>2
    <3> QED
      BY <3>1, <3>3, WithoutAppend
  <2> QED
    BY <2>1
<1>3. Len(s) \in S
  <2>1. Len(s) \in Nat
    OBVIOUS
  <2> HIDE DEF S
  <2> QED BY <1>1, <1>2, <2>1, Induct
<1> QED
  BY <1>3

LEMMA WithoutFirst ==
  ASSUME NEW V, NEW c, c \notin V, NEW s \in Seq(V)
  PROVE  Without(c, <<c>> \o s) = s
<1> DEFINE e == <<>>
<1>1. Kept(c, <<c>> \o s) = <<e>> \o Kept(c, s)
  <2>1. Len(<<c>> \o s) = Len(s) + 1 /\ DOMAIN (<<c>> \o s) = 1..(Len(s) + 1)
    OBVIOUS
  <2>2. /\ (<<c>> \o s)[1] = c
        /\ \A i \in 2..(Len(s) + 1) : (<<c>> \o s)[i] = s[i - 1] /\ s[i - 1] \in V
    OBVIOUS
  <2>3. Kept(c, s) = [i \in 1..Len(s) |-> <<s[i]>>]
    BY DEF Kept
  <2>4. Kept(c, <<c>> \o s) = [i \in 1..(Len(s) + 1) |-> IF i = 1 THEN e ELSE <<s[i - 1]>>]
    BY <2>1, <2>2 DEF Kept
  <2>5. <<e>> \o [i \in 1..Len(s) |-> <<s[i]>>]
          = [i \in 1..(Len(s) + 1) |-> IF i = 1 THEN e ELSE <<s[i - 1]>>]
    OBVIOUS
  <2> QED
    BY <2>3, <2>4, <2>5
<1>2. <<e>> \in Seq(Seq(V)) /\ Kept(c, s) \in Seq(Seq(V)) /\ e \in Seq(V)
  BY KeptType
<1>3. FlattenSeq(Kept(c, <<c>> \o s)) = FlattenSeq(<<e>>) \o FlattenSeq(Kept(c, s))
  BY <1>1, <1>2, FlattenConcat
<1>4. FlattenSeq(<<e>>) = e
  BY <1>2, FlattenOne
<1>5. FlattenSeq(Kept(c, s)) = s
  BY WithoutNone DEF Without, Kept
<1>6. FlattenSeq(Kept(c, <<c>> \o s)) = s
  BY <1>3, <1>4, <1>5, ConcatEmptySeq
<1> QED
  BY <1>6 DEF Without, Kept

LEMMA Pairs ==
  ASSUME NEW m \in Nat, NEW i \in 1..Even(m)
  PROVE  /\ i % 2 = 1 => i + 1 \in 1..Even(m) /\ (i + 1) % 2 = 0 /\ i # m + 1
         /\ i % 2 = 0 => i - 1 \in 1..Even(m) /\ (i - 1) % 2 = 1
<1>1. CASE m % 2 = 0
  <2>1. Even(m) = m
    BY <1>1 DEF Even
  <2> QED
    BY <1>1, <2>1
<1>2. CASE m % 2 = 1
  <2>1. Even(m) = m + 1
    BY <1>2 DEF Even
  <2> QED
    BY <1>2, <2>1
<1> QED
  BY <1>1, <1>2

\* A number read back from its semi-octets.
LEMMA InvertBack ==
  ASSUME NEW V, 15 \notin V, NEW n \in Seq(V)
  PROVE  /\ Dso2String(Invert(n)) = n
         /\ Invert(n) \in Seq(V \cup {15}) /\ Len(Invert(n)) = Even(Len(n))
<1> DEFINE d == Invert(n)
           m == Len(n)
           U == V \cup {15}
           swapped == [i \in 1..(Len(d) - (Len(d) % 2)) |->
                         IF i % 2 = 1 THEN d[i + 1] ELSE d[i - 1]]
<1>1. m \in Nat /\ Even(m) \in Nat /\ Even(m) % 2 = 0 /\ (m % 2 = 0 \/ m % 2 = 1)
  BY DEF Even
<1>2. d = [i \in 1..Even(m) |->
             IF i % 2 = 0 THEN n[i - 1] ELSE IF i = m THEN 15 ELSE n[i + 1]]
  BY DEF Invert
<1>3. ASSUME NEW i \in 1..Even(m)
      PROVE  /\ i % 2 = 0 => i - 1 \in 1..m
             /\ i % 2 = 1 => i + 1 \in 1..Even(m) /\ (i # m => i + 1 \in 1..m)
  BY DEF Even
<1>4. d \in Seq(U) /\ Len(d) = Even(m)
  <2>1. ASSUME NEW i \in 1..Even(m) PROVE d[i] \in U
    <3>1. CASE i % 2 = 0
      <4>1. d[i] = n[i - 1]
        BY <1>2, <3>1
      <4> QED
        BY <1>3, <3>1, <4>1
    <3>2. CASE i % 2 = 1 /\ i = m
      BY <1>2, <3>2
    <3>3. CASE i % 2 = 1 /\ i # m
      <4>1. d[i] = n[i + 1]
        BY <1>2, <3>3
      <4> QED
        BY <1>3, <3>3, <4>1
    <3> QED
      BY <3>1, <3>2, <3>3
  <2> HIDE DEF U
  <2> QED
    BY <1>1, <1>2, <2>1
<1>5. Dso2String(d) = Without(15, swapped)
  BY DEF Dso2String
<1> HIDE DEF d
<1>6. swapped = [i \in 1..Even(m) |-> IF i % 2 = 1 THEN d[i + 1] ELSE d[i - 1]]
  BY <1>1, <1>4
<1>7. ASSUME NEW i \in 1..Even(m)
      PROVE  swapped[i] = IF i = m + 1 THEN 15 ELSE n[i]
  <2>1. CASE i % 2 = 1
    <3>1. i + 1 \in 1..Even(m) /\ (i + 1) % 2 = 0 /\ i # m + 1
      BY <1>1, <2>1, Pairs
    <3>2. d[i + 1] = n[i]
      BY <1>2, <3>1
    <3> QED
      BY <1>6, <2>1, <3>1, <3>2
  <2>2. CASE i % 2 = 0
    <3>1. i - 1 \in 1..Even(m) /\ (i - 1) % 2 = 1
      BY <1>1, <2>2, Pairs
    <3>2. d[i - 1] = IF i - 1 = m THEN 15 ELSE n[i]
      BY <1>2, <3>1
    <3>3. i - 1 = m <=> i = m + 1
      BY <1>1
    <3>4. swapped[i] = d[i - 1]
      <4>1. ~(i % 2 = 1)
        BY <2>2
      <4> QED
        BY <1>6, <4>1, Zenon
    <3> QED
      BY <3>2, <3>3, <3>4
  <2> QED
    BY <2>1, <2>2
<1>8. DOMAIN swapped = 1..Even(m) /\ swapped = [i \in DOMAIN swapped |-> swapped[i]]
  BY <1>6
<1> HIDE DEF swapped
<1>9. Without(15, swapped) = n
  <2>1. CASE m % 2 = 0
    <3>1. Even(m) = m
      BY <2>1 DEF Even
    <3>2. \A i \in 1..m : swapped[i] = n[i]
      BY <1>1, <1>7, <3>1
    <3>3. swapped = n
      BY <1>8, <3>1, <3>2
    <3> QED
      BY <3>3, WithoutNone
  <2>2. CASE m % 2 = 1
    <3>1. Even(m) = m + 1
      BY <2>2 DEF Even
    <3>2. \A i \in 1..m : swapped[i] = n[i]
      BY <1>1, <1>7, <3>1
    <3>3. swapped[m + 1] = 15
      BY <1>1, <1>7, <3>1
    <3>4. swapped = Append(n, 15)
      BY <1>1, <1>8, <3>1, <3>2, <3>3
    <3>5. n \in Seq(U) /\ 15 \in U
      OBVIOUS
    <3>6. Without(15, n) = n
      BY WithoutNone
    <3> QED
      BY <3>4, <3>5, <3>6, WithoutAppend
  <2> QED
    BY <1>1, <2>1, <2>2
<1> QED
  BY <1>4, <1>5, <1>9 DEF d
------------------------------------------------------------------------------
(* Where the fields of a PDU stand.                                        *)

\* x stands in p from i on.
At(p, i, x) == (i - 1) + Len(x) <= Len(p) /\ \A j \in 1..Len(x) : p[(i - 1) + j] = x[j]

LEMMA AtJoin ==
  ASSUME NEW V, NEW b \in Seq(V), NEW c \in Seq(V)
  PROVE  /\ b \o c \in Seq(V) /\ Len(b \o c) = Len(b) + Len(c)
         /\ At(b \o c, 1, b) /\ At(b \o c, Len(b) + 1, c)
BY DEF At

LEMMA AtInner ==
  ASSUME NEW U, NEW V, NEW W, NEW p \in Seq(U), NEW x \in Seq(V), NEW y \in Seq(W),
         NEW i \in Nat \ {0}, NEW j \in Nat \ {0}, At(p, i, x), At(x, j, y)
  PROVE  At(p, (i - 1) + j, y)
<1>1. ((i - 1) + j - 1) + Len(y) <= Len(p)
  BY DEF At
<1>2. ASSUME NEW k \in 1..Len(y) PROVE p[((i - 1) + j - 1) + k] = y[k]
  <2>1. x[(j - 1) + k] = y[k] /\ (j - 1) + k \in 1..Len(x)
    BY DEF At
  <2>2. p[(i - 1) + ((j - 1) + k)] = x[(j - 1) + k]
    BY <2>1 DEF At
  <2>3. (i - 1) + ((j - 1) + k) = ((i - 1) + j - 1) + k
    OBVIOUS
  <2> QED
    BY <2>1, <2>2, <2>3
<1> QED
  BY <1>1, <1>2 DEF At

LEMMA ByteIs ==
  ASSUME NEW U, NEW p \in Seq(U), NEW i \in Nat \ {0}, i + 1 <= Len(p), NEW o \in Octet,
         p[i] = o \div 16, p[i + 1] = o % 16
  PROVE  Byte(p, i) = o
<1> DEFINE d == o \div 16
           e == o % 16
<1>1. d \in Nat /\ d < 16 /\ e \in Nat /\ e < 16 /\ 16 * d + e = o
  <2>1. o \in Nat /\ o <= 255
    BY OctetIs
  <2> QED
    BY <2>1
<1>2. i \in DOMAIN p /\ i + 1 \in DOMAIN p
  OBVIOUS
<1> HIDE DEF d, e
<1>3. d \in 0..15 /\ e \in 0..15
  BY <1>1
<1>4. Digit(p, i) = d /\ Digit(p, i + 1) = e
  BY <1>2, <1>3 DEF Digit, d, e
<1> QED
  BY <1>1, <1>4 DEF Byte

LEMMA AtByte ==
  ASSUME NEW U, NEW p \in Seq(U), NEW i \in Nat \ {0}, NEW o \in Seq(Octet),
         At(p, i, Hex(o)), NEW k \in 1..Len(o)
  PROVE  Byte(p, i + 2 * (k - 1)) = o[k]
<1> DEFINE x == Hex(o)
           y == o[k]
           n == i + 2 * (k - 1)
<1>1. o \in Seq(Nat)
  BY OctetIs
<1>2. Len(x) = 2 * Len(o) /\ x[2 * k - 1] = y \div 16 /\ x[2 * k] = y % 16
  BY <1>1, HexType
<1>3. y \in Octet
  OBVIOUS
<1>4. n \in Nat \ {0} /\ 2 * k - 1 \in 1..(2 * Len(o)) /\ 2 * k \in 1..(2 * Len(o))
      /\ (i - 1) + (2 * k - 1) = n /\ (i - 1) + 2 * k = n + 1
  OBVIOUS
<1> HIDE DEF x, y, n
<1>5. (i - 1) + Len(x) <= Len(p) /\ \A j \in 1..Len(x) : p[(i - 1) + j] = x[j]
  BY DEF At, x
<1>6. p[n] = y \div 16 /\ p[n + 1] = y % 16
  BY <1>2, <1>4, <1>5
<1>7. n + 1 <= Len(p)
  BY <1>2, <1>4, <1>5
<1> QED
  BY <1>3, <1>4, <1>6, <1>7, ByteIs DEF y, n

LEMMA AtSubSeq ==
  ASSUME NEW U, NEW p \in Seq(U), NEW i \in Nat \ {0}, NEW V, NEW x \in Seq(V), At(p, i, x)
  PROVE  SubSeq(p, i, (i - 1) + Len(x)) = x
<1>1. (i - 1) + Len(x) <= Len(p) /\ \A j \in 1..Len(x) : p[(i - 1) + j] = x[j]
  BY DEF At
<1> QED
  BY <1>1

\* A number without its plus, and the type its address has.
Number == 0..9
Bare(n) == IF Head(n) = Plus THEN Tail(n) ELSE n
TypeOf(n) == IF Head(n) = Plus THEN 145 ELSE 129

LEMMA NumberIs ==
  ASSUME NEW n, IsNumber(n)
  PROVE  /\ n \in Seq(Number \cup {Plus}) /\ n # <<>> /\ Len(n) \in Nat \ {0}
         /\ Bare(n) \in Seq(Number) /\ Len(Bare(n)) <= 255
         /\ n = IF TypeOf(n) = 145 THEN <<Plus>> \o Bare(n) ELSE Bare(n)
         /\ Address(n) = Hex(<<Len(Bare(n)), TypeOf(n)>>) \o Invert(Bare(n))
<1>1. n \in Seq(Number \cup {Plus}) /\ n # <<>> /\ Len(n) <= 255
  BY DEF IsNumber, Number, ValidNumber
<1>2. Len(n) \in Nat \ {0}
  BY <1>1, EmptySeq
<1>3. \A i \in 2..Len(n) : n[i] \in Number
  <2>1. ASSUME NEW i \in 2..Len(n) PROVE n[i] \in Number
    <3>1. n[i] # Plus /\ n[i] \in Number \cup {Plus}
      BY <1>1 DEF IsNumber, ValidNumber
    <3> QED
      BY <3>1
  <2> QED
    BY <2>1
<1>4. CASE Head(n) = Plus
  <2>1. Tail(n) \in Seq(Number) /\ Len(Tail(n)) = Len(n) - 1
    <3>1. Tail(n) = SubSeq(n, 2, Len(n))
      BY <1>1, TailIsSubSeq
    <3>2. SubSeq(n, 2, Len(n)) \in Seq(Number)
      BY <1>2, <1>3, SubSeqProperties
    <3>3. Len(Tail(n)) = Len(n) - 1
      BY <1>1, HeadTailProperties
    <3> QED
      BY <3>1, <3>2, <3>3, Zenon
  <2>2. n = <<Plus>> \o Tail(n)
    BY <1>1, <1>2, <1>4
  <2> QED
    BY <1>1, <1>2, <1>4, <2>1, <2>2 DEF Bare, TypeOf, Address
<1>5. CASE Head(n) # Plus
  <2>1. n[1] \in Number
    BY <1>1, <1>2, <1>5
  <2>2. n \in Seq(Number)
    BY <1>1, <1>2, <1>3, <2>1
  <2> QED
    BY <1>1, <1>2, <1>5, <2>2 DEF Bare, TypeOf, Address
<1> QED
  BY <1>4, <1>5

LEMMA WithoutPlus ==
  ASSUME NEW n, IsNumber(n)
  PROVE  Without(Plus, n) = Bare(n)
<1>1. Plus \notin Number
  BY DEF Plus, Number
<1> QED
  <2> DEFINE m == Bare(n)
  <2>1. m \in Seq(Number) /\ (n = <<Plus>> \o m \/ n = m)
    BY NumberIs
  <2> HIDE DEF m
  <2>2. Without(Plus, m) = m /\ Without(Plus, <<Plus>> \o m) = m
    BY <1>1, <2>1, WithoutFirst, WithoutNone
  <2> QED
    BY <2>1, <2>2 DEF m
LEMMA ByteType ==
  ASSUME NEW p, NEW i
  PROVE  Byte(p, i) \in Octet
<1> DEFINE d == Digit(p, i)
           e == Digit(p, i + 1)
<1>1. d \in 0..15 /\ e \in 0..15
  BY DEF Digit
<1>2. Byte(p, i) = 16 * d + e
  BY DEF Byte
<1> HIDE DEF d, e
<1>3. d \in Nat /\ d <= 15 /\ e \in Nat /\ e <= 15
  BY <1>1
<1>4. Byte(p, i) \in Nat /\ Byte(p, i) <= 255
  BY <1>2, <1>3
<1> QED
  BY <1>4, OctetIs

\* What an octet's digits are.
LEMMA HexDigits ==
  ASSUME NEW o \in Seq(Nat), NEW i \in 1..Len(o), NEW j, j = 2 * i - 1
  PROVE  Hex(o)[j] = o[i] \div 16 /\ Hex(o)[j + 1] = o[i] % 16
<1>1. Hex(o)[2 * i - 1] = o[i] \div 16 /\ Hex(o)[2 * i] = o[i] % 16
  BY HexType
<1>2. j + 1 = 2 * i
  OBVIOUS
<1> QED
  BY <1>1, <1>2

LEMMA HexOne ==
  ASSUME NEW x \in Octet
  PROVE  /\ <<x>> \in Seq(Octet) /\ Hex(<<x>>) \in Seq(Nat) /\ Len(Hex(<<x>>)) = 2
         /\ Hex(<<x>>)[1] = x \div 16 /\ Hex(<<x>>)[2] = x % 16
<1> DEFINE o == <<x>>
           m == Len(o)
           l == Len(Hex(o))
<1>1. o \in Seq(Octet) /\ o \in Seq(Nat) /\ o[1] = x
  BY OctetIs
<1>2. m = 1
  OBVIOUS
<1> HIDE DEF o, m, l
<1>3. Hex(o) \in Seq(Nat) /\ l = 2 * m
  BY <1>1, HexType DEF m, l
<1>4. l = 2
  BY <1>2, <1>3
<1>5. 1 \in 1..Len(o)
  BY <1>1, <1>2 DEF m
<1>6. Hex(o)[1] = o[1] \div 16 /\ Hex(o)[1 + 1] = o[1] % 16
  BY <1>1, <1>5, HexDigits
<1> QED
  BY <1>1, <1>3, <1>4, <1>6 DEF o, l

LEMMA HexTwo ==
  ASSUME NEW x \in Octet, NEW y \in Octet
  PROVE  /\ <<x, y>> \in Seq(Octet) /\ Hex(<<x, y>>) \in Seq(Nat) /\ Len(Hex(<<x, y>>)) = 4
         /\ Hex(<<x, y>>)[1] = x \div 16 /\ Hex(<<x, y>>)[2] = x % 16
<1> DEFINE o == <<x, y>>
           m == Len(o)
           l == Len(Hex(o))
<1>1. o \in Seq(Octet) /\ o \in Seq(Nat) /\ o[1] = x
  BY OctetIs
<1>2. m = 2
  OBVIOUS
<1> HIDE DEF o, m, l
<1>3. Hex(o) \in Seq(Nat) /\ l = 2 * m
  BY <1>1, HexType DEF m, l
<1>4. l = 4
  BY <1>2, <1>3
<1>5. 1 \in 1..Len(o)
  BY <1>1, <1>2 DEF m
<1>6. Hex(o)[1] = o[1] \div 16 /\ Hex(o)[1 + 1] = o[1] % 16
  BY <1>1, <1>5, HexDigits
<1> QED
  BY <1>1, <1>3, <1>4, <1>6 DEF o, l

LEMMA SeqWithin ==
  ASSUME NEW S, NEW T, S \subseteq T, NEW s \in Seq(S)
  PROVE  s \in Seq(T)
<1>1. s = [i \in 1..Len(s) |-> s[i]] /\ Len(s) \in Nat /\ \A i \in 1..Len(s) : s[i] \in T
  OBVIOUS
<1> QED
  BY <1>1

\* A number's semi-octets.
LEMMA InvertType ==
  ASSUME NEW V, V \subseteq Nat \ {15}, NEW n \in Seq(V)
  PROVE  Dso2String(Invert(n)) = n /\ Invert(n) \in Seq(Nat) /\ Len(Invert(n)) = Even(Len(n))
<1> DEFINE i == Invert(n)
           U == V \cup {15}
<1>1. 15 \notin V
  OBVIOUS
<1>2. Dso2String(i) = n /\ i \in Seq(U) /\ Len(i) = Even(Len(n))
  BY <1>1, InvertBack
<1>3. U \subseteq Nat
  OBVIOUS
<1> HIDE DEF i, U
<1>4. i \in Seq(Nat)
  BY <1>2, <1>3, SeqWithin
<1> QED
  BY <1>2, <1>4 DEF i

\* The centre's field tells its own length.
LEMMA CentreIs ==
  \E o \in Octet :
      /\ SmscField(Smsc) \in Seq(Nat) /\ Len(SmscField(Smsc)) = 2 + 2 * o
      /\ At(SmscField(Smsc), 1, Hex(<<o>>)) /\ (Smsc = <<>> => o = 0)
<1>1. CASE Smsc = <<>>
  <2> DEFINE h == Hex(<<0>>)
  <2>1. SmscField(Smsc) = h
    BY <1>1 DEF SmscField
  <2>2. 0 \in Octet
    BY OctetIs
  <2>3. h \in Seq(Nat)
    BY <2>2, HexOne
  <2>4. Len(h) = 2 + 2 * 0
    <3> DEFINE l == Len(h)
    <3>1. l = 2
      BY <2>2, HexOne
    <3> HIDE DEF l
    <3>2. l = 2 + 2 * 0
      BY <3>1
    <3> QED
      BY <3>2 DEF l
  <2> HIDE DEF h
  <2>5. At(h, 1, h)
    BY <2>3 DEF At
  <2> QED
    BY <2>1, <2>2, <2>3, <2>4, <2>5 DEF h
<1>2. CASE Smsc # <<>>
  <2> DEFINE n == Even(Len(Smsc))
             o == n \div 2 + 1
             h == Hex(<<o, 145>>)
             g == Hex(<<o>>)
             i == Invert(Smsc)
  <2>1. Smsc \in Seq(Number \cup {Plus}) /\ Len(Smsc) \in Nat /\ Len(Smsc) <= 255
    BY <1>2, NumbersAssumption DEF IsNumber, Number
  <2>2. n \in Nat /\ n <= 256 /\ 2 * (n \div 2) = n
    BY <2>1 DEF Even
  <2>3. SmscField(Smsc) = h \o i
    BY <1>2 DEF SmscField
  <2>4. i \in Seq(Nat) /\ Len(i) = n
    <3>1. Number \cup {Plus} \subseteq Nat \ {15}
      BY DEF Number, Plus
    <3> QED
      BY <2>1, <3>1, InvertType
  <2> HIDE DEF n
  <2>5. o \in Octet /\ 145 \in Octet /\ 2 * o = n + 2
    BY <2>2, OctetIs
  <2> HIDE DEF o, i
  <2>6. h \in Seq(Nat) /\ g \in Seq(Nat) /\ h[1] = g[1] /\ h[2] = g[2] /\ o \in Nat
    BY <2>5, HexOne, HexTwo, OctetIs
  <2> DEFINE k == Len(h)
             l == Len(g)
  <2>7. k = 4 /\ l = 2
    BY <2>5, HexOne, HexTwo
  <2> DEFINE q == Len(h \o i)
  <2> HIDE DEF h, g, k, l, q
  <2>8. q = k + Len(i) /\ h \o i \in Seq(Nat)
    <3>1. i \in Seq(Nat) /\ h \in Seq(Nat)
      BY <2>4, <2>6
    <3> QED
      BY <3>1, AtJoin DEF k, q
  <2>9. q = 2 + 2 * o
    BY <2>2, <2>4, <2>5, <2>6, <2>7, <2>8
  <2>10. At(h \o i, 1, g)
    <3>1. \A j \in 1..l : h[j] = g[j]
      BY <2>6, <2>7
    <3>2. k \in Nat /\ l <= k
      BY <2>7
    <3> QED
      BY <2>4, <2>6, <3>1, <3>2 DEF At, k, l
  <2> QED
    BY <2>3, <2>5, <1>2, <2>8, <2>9, <2>10 DEF g, q
<1> QED
  BY <1>1, <1>2

LEMMA AtFirst ==
  ASSUME NEW U, NEW p \in Seq(U), NEW x \in Seq(U), NEW y \in Seq(U),
         NEW j \in Nat \ {0}, At(p, 1, x), At(x, j, y)
  PROVE  At(p, j, y)
<1> DEFINE i == 1
<1>1. i \in Nat \ {0} /\ At(p, i, x)
  OBVIOUS
<1>2. i - 1 + j = j
  OBVIOUS
<1> HIDE DEF i
<1>3. At(p, (i - 1) + j, y)
  BY <1>1, AtInner
<1> QED
  BY <1>2, <1>3

\* Four fields one after the other.
LongAs(p, c, h, a, r) == Len(p) = Len(c) + Len(h) + Len(a) + Len(r)
LEMMA AtFour ==
  ASSUME NEW U, NEW c \in Seq(U), NEW h \in Seq(U), NEW a \in Seq(U), NEW r \in Seq(U),
         NEW p, p = c \o h \o a \o r
  PROVE  /\ p \in Seq(U) /\ At(p, 1, c) /\ At(p, Len(c) + 1, h)
         /\ At(p, Len(c) + Len(h) + 1, a) /\ At(p, Len(c) + Len(h) + Len(a) + 1, r)
         /\ LongAs(p, c, h, a, r)
<1> DEFINE d == c \o h
           e == d \o a
<1>1. d \in Seq(U) /\ Len(d) = Len(c) + Len(h) /\ At(d, 1, c) /\ At(d, Len(c) + 1, h)
  BY AtJoin
<1> HIDE DEF d
<1>2. e \in Seq(U) /\ Len(e) = Len(d) + Len(a) /\ At(e, 1, d) /\ At(e, Len(d) + 1, a)
  BY <1>1, AtJoin
<1>3. p = e \o r
  BY DEF d
<1> HIDE DEF e
<1>4. p \in Seq(U) /\ At(p, 1, e) /\ At(p, Len(e) + 1, r) /\ Len(p) = Len(e) + Len(r)
  BY <1>2, <1>3, AtJoin
<1> DEFINE lc == Len(c)
           lh == Len(h)
           la == Len(a)
           ld == Len(d)
           le == Len(e)
<1>5. lc \in Nat /\ lh \in Nat /\ la \in Nat /\ ld = lc + lh /\ le = ld + la
  BY <1>1, <1>2
<1> HIDE DEF lc, lh, la, ld, le
<1>6. At(p, 1, d) /\ At(p, ld + 1, a)
  <2>1. 1 \in Nat \ {0} /\ ld + 1 \in Nat \ {0} /\ At(e, ld + 1, a)
    BY <1>2, <1>5 DEF ld
  <2>2. At(p, 1, d)
    BY <1>1, <1>2, <1>4, <2>1, AtFirst
  <2>3. At(p, ld + 1, a)
    BY <1>1, <1>2, <1>4, <2>1, AtFirst
  <2> QED
    BY <2>2, <2>3
<1>7. At(p, 1, c) /\ At(p, lc + 1, h)
  <2>1. 1 \in Nat \ {0} /\ lc + 1 \in Nat \ {0} /\ At(d, lc + 1, h)
    BY <1>1, <1>5 DEF lc
  <2>2. At(p, 1, c)
    BY <1>1, <1>4, <1>6, <2>1, AtFirst
  <2>3. At(p, lc + 1, h)
    BY <1>1, <1>4, <1>6, <2>1, AtFirst
  <2> QED
    BY <2>2, <2>3
<1>8. ld + 1 = lc + lh + 1 /\ le + 1 = lc + lh + la + 1
  BY <1>5
<1>9. At(p, lc + lh + 1, a) /\ At(p, lc + lh + la + 1, r)
  <2>1. At(p, le + 1, r)
    BY <1>4 DEF le
  <2> QED
    BY <1>6, <1>8, <2>1
<1>10. Len(p) = lc + lh + la + Len(r)
  <2> DEFINE k == Len(p)
             m == Len(r)
  <2>1. k = le + m /\ m \in Nat
    BY <1>4 DEF le
  <2> HIDE DEF k, m
  <2>2. k = lc + lh + la + m
    BY <1>5, <2>1
  <2> QED
    BY <2>2 DEF k, m
<1> QED
  BY <1>4, <1>7, <1>9, <1>10 DEF lc, lh, la, LongAs

LEMMA AtOctet ==
  ASSUME NEW U, NEW p \in Seq(U), NEW i \in Nat \ {0}, NEW o \in Seq(Octet),
         At(p, i, Hex(o)), NEW k \in 1..Len(o), NEW j, j = i + 2 * (k - 1)
  PROVE  Byte(p, j) = o[k]
BY AtByte

LEMMA AtOne ==
  ASSUME NEW U, NEW p \in Seq(U), NEW i \in Nat \ {0}, NEW x \in Octet,
         At(p, i, Hex(<<x>>))
  PROVE  Byte(p, i) = x
<1> DEFINE o == <<x>>
           k == 1
<1>1. o \in Seq(Octet) /\ k \in 1..Len(o) /\ o[k] = x /\ i = i + 2 * (k - 1)
  BY HexOne
<1> HIDE DEF k
<1>2. At(p, i, Hex(o))
  OBVIOUS
<1> HIDE DEF o
<1> QED
  BY <1>1, <1>2, AtOctet

LEMMA AtTwo ==
  ASSUME NEW U, NEW p \in Seq(U), NEW i \in Nat \ {0}, NEW x \in Octet, NEW y \in Octet,
         At(p, i, Hex(<<x, y>>))
  PROVE  Byte(p, i) = x /\ Byte(p, i + 2) = y
<1> DEFINE o == <<x, y>>
           k == 1
           l == 2
           j == i + 2
<1>1. o \in Seq(Octet) /\ k \in 1..Len(o) /\ o[k] = x /\ i = i + 2 * (k - 1)
      /\ l \in 1..Len(o) /\ o[l] = y /\ j = i + 2 * (l - 1)
  BY HexTwo
<1> HIDE DEF k, l, j
<1>2. At(p, i, Hex(o))
  OBVIOUS
<1> HIDE DEF o
<1>3. Byte(p, i) = x
  BY <1>1, <1>2, AtOctet
<1>4. Byte(p, j) = y
  BY <1>1, <1>2, AtOctet
<1> QED
  BY <1>3, <1>4 DEF j

EndsBehind(p, r) == Len(p) = BehindDestination(p) - 1 + Len(r)

\* A PDU for the gateway's own number, from its first field to what follows the
\* destination.
LEMMA Fields ==
  ASSUME NEW U, Nat \subseteq U, NEW f \in Octet, NEW r \in Seq(U),
         NEW p, p = SmscField(Smsc) \o Hex(<<f, 0>>) \o Address(Own) \o r
  PROVE  /\ p \in Seq(U) /\ Byte(p, DestinationAt(p) - 4) = f
         /\ BehindDestination(p) \in Nat \ {0} /\ At(p, BehindDestination(p), r)
         /\ EndsBehind(p, r)
         /\ SubmittedTo(p) = Own
         /\ Smsc = <<>> => SendNumber(p) = Without(Plus, Own)
<1> DEFINE c == SmscField(Smsc)
           h == Hex(<<f, 0>>)
           n == Len(Bare(Own))
           a1 == Hex(<<n, TypeOf(Own)>>)
           a2 == Invert(Bare(Own))
           a == a1 \o a2
           lc == Len(c)
           lh == Len(h)
           l1 == Len(a1)
           l2 == Len(a2)
           la == Len(a)
<1>1. IsNumber(Own)
  BY NumbersAssumption
<1>2. Address(Own) = a /\ Bare(Own) \in Seq(Number) /\ n \in Nat /\ n <= 255
  <2>1. Address(Own) = a /\ Bare(Own) \in Seq(Number) /\ Len(Bare(Own)) <= 255
    BY <1>1, NumberIs, Zenon
  <2>2. Len(Bare(Own)) \in Nat
    BY <2>1
  <2> QED
    BY <2>1, <2>2
<1>3. n \in Octet /\ TypeOf(Own) \in Octet /\ 0 \in Octet
  <2>1. 145 \in Octet /\ 129 \in Octet /\ 0 \in Octet
    BY OctetIs
  <2>2. TypeOf(Own) = 145 \/ TypeOf(Own) = 129
    BY DEF TypeOf
  <2>3. n \in Octet
    BY <1>2, OctetIs
  <2> QED
    BY <2>1, <2>2, <2>3
<1>4. a1 \in Seq(Nat) /\ l1 = 4 /\ h \in Seq(Nat) /\ lh = 4
  BY <1>3, HexTwo
<1>5. a2 \in Seq(Nat) /\ l2 = Even(n) /\ Dso2String(a2) = Bare(Own)
  <2>1. Number \subseteq Nat \ {15}
    BY DEF Number
  <2> QED
    BY <1>2, <2>1, InvertType
<1>6. PICK o \in Octet :
        c \in Seq(Nat) /\ lc = 2 + 2 * o /\ At(c, 1, Hex(<<o>>)) /\ (Smsc = <<>> => o = 0)
  BY CentreIs
<1>7. p = c \o h \o a \o r
  BY <1>2, Zenon
<1> HIDE DEF n, a1, a2, c, h, lc, lh, l1, l2, la
<1>8. a \in Seq(Nat) /\ la = l1 + l2 /\ At(a, 1, a1) /\ At(a, l1 + 1, a2)
  BY <1>4, <1>5, AtJoin DEF l1, l2, la
<1> HIDE DEF a
<1>9. /\ c \in Seq(U) /\ h \in Seq(U) /\ a \in Seq(U) /\ a1 \in Seq(U) /\ a2 \in Seq(U)
      /\ Hex(<<o>>) \in Seq(U)
  BY <1>4, <1>5, <1>6, <1>8, HexOne, SeqWithin
<1>10. p \in Seq(U) /\ At(p, 1, c) /\ At(p, lc + 1, h) /\ At(p, lc + lh + 1, a)
       /\ At(p, lc + lh + la + 1, r) /\ LongAs(p, c, h, a, r)
  BY <1>7, <1>9, AtFour DEF lc, lh, la
<1>11. o \in Nat /\ lc \in Nat /\ Even(n) \in Nat
  BY <1>2, <1>6, OctetIs DEF Even
<1>12. Byte(p, 1) = o
  <2>1. 1 \in Nat \ {0}
    OBVIOUS
  <2>2. At(p, 1, Hex(<<o>>))
    BY <1>6, <1>9, <1>10, <2>1, AtFirst
  <2> QED
    BY <1>10, <2>1, <2>2, AtOne
<1> DEFINE da == lc + 5
           de == lc + 9
           bd == de + Even(n)
<1>13. /\ DestinationAt(p) = da /\ da \in Nat \ {0} /\ de \in Nat \ {0} /\ bd \in Nat \ {0}
       /\ lc + lh + 1 = da /\ (da - 1) + (l1 + 1) = de /\ lc + lh + la + 1 = bd
       /\ l1 + 1 \in Nat \ {0} /\ lc + 1 \in Nat \ {0} /\ lc + 1 = da - 4 /\ de = da + 4
  <2> DEFINE e == Even(n)
  <2>1. lh = 4 /\ l1 = 4 /\ l2 = e /\ lc = 2 + 2 * o /\ la = l1 + l2 /\ e \in Nat
        /\ o \in Nat /\ lc \in Nat
    BY <1>4, <1>5, <1>6, <1>8, <1>11
  <2>2. DestinationAt(p) = 7 + 2 * o
    BY <1>12 DEF DestinationAt
  <2> HIDE DEF e
  <2>3. da = 7 + 2 * o /\ bd = lc + 9 + e
    BY <2>1 DEF e
  <2> QED
    <3> DEFINE dd == DestinationAt(p)
    <3>1. dd = 7 + 2 * o
      BY <2>2
    <3> HIDE DEF da, de, bd, dd
    <3>2. de = lc + 9 /\ da = lc + 5
      BY DEF da, de
    <3>3. dd = da /\ da \in Nat \ {0} /\ de \in Nat \ {0} /\ bd \in Nat \ {0}
      BY <2>1, <2>3, <3>1, <3>2
    <3>4. lc + lh + 1 = da /\ (da - 1) + (l1 + 1) = de /\ lc + lh + la + 1 = bd
      BY <2>1, <2>3, <3>2
    <3>5. l1 + 1 \in Nat \ {0} /\ lc + 1 \in Nat \ {0} /\ lc + 1 = da - 4 /\ de = da + 4
      BY <2>1, <3>2
    <3> QED
      BY <3>3, <3>4, <3>5 DEF dd
<1>a. bd = da + 4 + Even(n) /\ (de - 1) + Even(n) = bd - 1
  BY <1>11
<1> HIDE DEF da, de, bd
<1>14. At(p, da, a1) /\ At(p, de, a2)
  <2>1. At(p, da, a)
    BY <1>10, <1>13
  <2>2. 1 \in Nat \ {0} /\ (da - 1) + 1 = da
    BY <1>13
  <2>3. At(p, (da - 1) + 1, a1)
    BY <1>8, <1>9, <1>10, <1>13, <2>1, <2>2, AtInner
  <2>4. At(p, (da - 1) + (l1 + 1), a2)
    BY <1>8, <1>9, <1>10, <1>13, <2>1, AtInner
  <2> QED
    BY <1>13, <2>2, <2>3, <2>4
<1>15. Byte(p, da) = n /\ Byte(p, da + 2) = TypeOf(Own)
  BY <1>3, <1>10, <1>13, <1>14, AtTwo DEF a1
<1>16. BehindDestination(p) = bd
  BY <1>a, <1>13, <1>15 DEF BehindDestination
<1>17. SubSeq(p, de, bd - 1) = a2
  <2>1. SubSeq(p, de, (de - 1) + Len(a2)) = a2
    BY <1>9, <1>10, <1>13, <1>14, AtSubSeq
  <2>2. (de - 1) + Len(a2) = bd - 1
    BY <1>a, <1>5 DEF l2
  <2> QED
    BY <2>1, <2>2
<1>18. SubmittedTo(p) = Own
  <2>1. SubmittedTo(p) = IF Byte(p, da + 2) = 145
                         THEN <<Plus>> \o Dso2String(SubSeq(p, da + 4, bd - 1))
                         ELSE Dso2String(SubSeq(p, da + 4, bd - 1))
    BY <1>13, <1>16 DEF SubmittedTo
  <2>2. SubSeq(p, da + 4, bd - 1) = a2
    BY <1>13, <1>17
  <2>3. Own = IF TypeOf(Own) = 145 THEN <<Plus>> \o Bare(Own) ELSE Bare(Own)
    BY <1>1, NumberIs
  <2> QED
    BY <1>5, <1>15, <2>1, <2>2, <2>3, Zenon
<1>19. Byte(p, DestinationAt(p) - 4) = f
  BY <1>3, <1>10, <1>13, AtTwo DEF h
<1>20. ASSUME Smsc = <<>>
       PROVE  SendNumber(p) = Without(Plus, Own)
  <2>1. o = 0 /\ da = 7 /\ de = 11
    BY <1>6, <1>20 DEF da, de
  <2>2. SendNumber(p) = Dso2String(Copied(p, 11, Even(n)))
    <3>1. Byte(p, 1) = 0 /\ Byte(p, 7) = n
      BY <1>12, <1>15, <2>1
    <3> DEFINE at == IF Byte(p, 1) = 0 THEN 7 ELSE 9 + 2 * Byte(p, 1)
    <3>2. at = 7
      BY <3>1
    <3>3. SendNumber(p) = Dso2String(Copied(p, at + 4, Even(Byte(p, at))))
      BY DEF SendNumber
    <3> HIDE DEF at
    <3>4. at + 4 = 11
      BY <3>2
    <3> QED
      BY <3>1, <3>2, <3>3, <3>4, Zenon
  <2>3. Copied(p, 11, Even(n)) = a2
    <3> DEFINE m == Even(n)
               lp == Len(p)
    <3>1. 10 + m <= lp /\ lp \in Nat
      <4>1. (de - 1) + l2 <= lp
        BY <1>14 DEF At, l2
      <4>2. l2 = m /\ m \in Nat
        BY <1>5, <1>11
      <4>3. lp \in Nat
        BY <1>10
      <4> HIDE DEF m, lp
      <4> QED
        BY <2>1, <4>1, <4>2, <4>3
    <3>2. m \in Nat
      BY <1>11
    <3>3. bd - 1 = 10 + m
      BY <2>1, <1>11 DEF bd
    <3> HIDE DEF m, lp
    <3>4. (IF 11 + m > lp THEN lp ELSE 11 + m - 1) = bd - 1
      BY <3>1, <3>2, <3>3
    <3>5. Copied(p, 11, m) = SubSeq(p, 11, bd - 1)
      BY <3>4 DEF Copied, lp
    <3> QED
      BY <1>17, <2>1, <3>5 DEF m
  <2>4. Without(Plus, Own) = Bare(Own)
    BY <1>1, WithoutPlus
  <2> QED
    BY <1>5, <2>2, <2>3, <2>4
<1>21. Len(p) = bd - 1 + Len(r)
  <2> DEFINE k == Len(p)
             m == Len(r)
  <2>1. k = lc + lh + la + m /\ m \in Nat
    <3>1. k = lc + lh + la + m
      BY <1>10, Zenon DEF LongAs, lc, lh, la
    <3>2. m \in Nat
      OBVIOUS
    <3> HIDE DEF k, m
    <3> QED
      BY <3>1, <3>2
  <2>2. lh \in Nat /\ la \in Nat
    <3>1. h \in Seq(Nat) /\ a \in Seq(Nat)
      BY <1>4, <1>8
    <3> QED
      BY <3>1 DEF lh, la
  <2> HIDE DEF k, m
  <2>3. k = bd - 1 + m
    BY <1>11, <1>13, <2>1, <2>2
  <2> QED
    BY <2>3 DEF k, m
<1> QED
  BY <1>10, <1>13, <1>16, <1>18, <1>19, <1>20, <1>21 DEF EndsBehind
------------------------------------------------------------------------------
(* Split.                                                                  *)

Put(s, b, need, grows, limit) ==
    IF s.size + need[b] <= limit
    THEN [parts |-> Append(Front(s.parts), Append(Last(s.parts), b)), size |-> s.size + grows[b]]
    ELSE [parts |-> Append(s.parts, <<b>>), size |-> grows[b]]
NoParts == [parts |-> <<<<>>>>, size |-> 0]

\* What has been made of the first i bytes is u[i].
Splits(u, text, need, grows, limit, n) ==
    u[0] = NoParts /\ \A i \in 1..n : u[i] = Put(u[i - 1], text[i], need, grows, limit)

LEMMA FrontIs ==
  ASSUME NEW W, NEW s \in Seq(W), s # <<>>
  PROVE  /\ Last(s) \in W /\ Len(s) \in Nat \ {0} /\ Last(s) = s[Len(s)]
         /\ Front(s) \in Seq(W) /\ Len(Front(s)) = Len(s) - 1
         /\ \A j \in 1..(Len(s) - 1) : Front(s)[j] = s[j]
<1>1. Len(s) \in Nat \ {0}
  BY EmptySeq
<1> DEFINE f == SubSeq(s, 1, Len(s) - 1)
<1>2. f = Front(s)
  BY DEF Front
<1>3. f \in Seq(W) /\ Len(f) = Len(s) - 1
  <2> DEFINE l == Len(s) - 1
             k == Len(SubSeq(s, 1, l))
  <2>1. l \in Int /\ l \in Nat /\ 1 \in Int /\ \A i \in 1..l : s[i] \in W
    BY <1>1
  <2> HIDE DEF l
  <2>2. SubSeq(s, 1, l) \in Seq(W) /\ k = IF 1 <= l THEN l - 1 + 1 ELSE 0
    BY <2>1, SubSeqProperties
  <2> HIDE DEF k
  <2>3. k = l
    BY <2>1, <2>2
  <2> QED
    BY <2>2, <2>3 DEF k, l
<1>4. \A j \in 1..(Len(s) - 1) : f[j] = s[j]
  BY <1>1
<1> QED
  BY <1>1, <1>2, <1>3, <1>4 DEF Last

LEMMA PutType ==
  ASSUME NEW W, NEW R, \A w \in W, b \in R : Append(w, b) \in W /\ <<b>> \in W,
         NEW need \in [R -> Nat], NEW grows \in [R -> Nat], NEW limit \in Nat,
         NEW s \in [parts : Seq(W) \ {<<>>}, size : Nat], NEW b \in R
  PROVE  Put(s, b, need, grows, limit) \in [parts : Seq(W) \ {<<>>}, size : Nat]
<1> DEFINE x == Append(Last(s.parts), b)
           p == Append(Front(s.parts), x)
           q == Append(s.parts, <<b>>)
<1>1. s.parts \in Seq(W) /\ s.parts # <<>> /\ s.size \in Nat /\ need[b] \in Nat /\ grows[b] \in Nat
  OBVIOUS
<1>2. Last(s.parts) \in W
  BY <1>1, EmptySeq DEF Last
<1>3. x \in W /\ <<b>> \in W
  BY <1>2
<1> HIDE DEF x
<1>4. p \in Seq(W) /\ p # <<>>
  <2> DEFINE t == s.parts
  <2>1. t \in Seq(W) /\ t # <<>>
    BY <1>1
  <2> HIDE DEF t
  <2> DEFINE f == Front(t)
  <2>2. f \in Seq(W)
    BY <2>1, FrontIs
  <2> HIDE DEF f
  <2>3. Append(f, x) \in Seq(W) /\ Append(f, x) # <<>>
    BY <1>3, <2>2
  <2> QED
    BY <2>3 DEF f, t
<1>5. q \in Seq(W) /\ q # <<>>
  <2> DEFINE y == <<b>>
  <2>1. y \in W
    BY <1>3
  <2> HIDE DEF y
  <2> QED
    BY <1>1, <2>1
<1> HIDE DEF p, q
<1>6. Put(s, b, need, grows, limit) =
        IF s.size + need[b] <= limit THEN [parts |-> p, size |-> s.size + grows[b]]
        ELSE [parts |-> q, size |-> grows[b]]
  BY DEF Put, p, q, x
<1> QED
  BY <1>1, <1>4, <1>5, <1>6

\* Putting bytes of R stays within V.
Puts(V, R, need, grows, limit) ==
    NoParts \in V /\ \A s \in V, b \in R : Put(s, b, need, grows, limit) \in V

LEMMA SplittingIn ==
  ASSUME NEW V, NEW R, NEW need, NEW grows, NEW limit, Puts(V, R, need, grows, limit),
         NEW text \in Seq(R), NEW n \in Nat, n = Len(text)
  PROVE  \E u \in [0..n -> V] : /\ Splits(u, text, need, grows, limit, n)
                                /\ Split(text, need, grows, limit) = u[n].parts
<1> DEFINE a == NoParts
           G == [x \in (1..n) \X V |-> Put(x[2], text[x[1]], need, grows, limit)]
           Eq(h) == h = [i \in 0..n |-> IF i = 0 THEN NoParts
                                        ELSE Put(h[i - 1], text[i], need, grows, limit)]
           h == CHOOSE h : Eq(h)
<1>1. n \in Nat /\ \A i \in 1..n : text[i] \in R
  OBVIOUS
<1>2. a \in V /\ G \in [(1..n) \X V -> V]
  BY <1>1 DEF Puts
<1>3. PICK u \in [0..n -> V] : Recurs(u, n, a, G)
  <2> HIDE DEF G, a
  <2> QED BY <1>1, <1>2, Recursion
<1>4. u[0] = NoParts /\ \A i \in 1..n : u[i] = Put(u[i - 1], text[i], need, grows, limit)
  <2>1. u[0] = NoParts /\ \A i \in 1..n : u[i] = G[<<i, u[i - 1]>>]
    BY <1>3 DEF Recurs
  <2>2. ASSUME NEW i \in 1..n
        PROVE  G[<<i, u[i - 1]>>] = Put(u[i - 1], text[i], need, grows, limit)
    <3>1. u[i - 1] \in V
      BY <1>1
    <3> DEFINE w == u[i - 1]
    <3> HIDE DEF w
    <3>2. <<i, w>> \in (1..n) \X V
      BY <3>1 DEF w
    <3>3. G[<<i, w>>] = Put(w, text[i], need, grows, limit)
      BY <3>2
    <3> QED
      BY <3>3 DEF w
  <2> QED
    BY <2>1, <2>2, Zenon
<1>5. Splits(u, text, need, grows, limit, n)
  BY <1>4 DEF Splits
<1>6. Eq(u)
  <2>1. ASSUME NEW i \in 0..n
        PROVE  u[i] = IF i = 0 THEN NoParts ELSE Put(u[i - 1], text[i], need, grows, limit)
    <3>1. CASE i = 0
      BY <1>4, <3>1
    <3>2. CASE i # 0
      <4>1. i \in 1..n
        BY <1>1, <3>2
      <4> QED
        BY <1>4, <3>2, <4>1, Zenon
    <3> QED
      BY <3>1, <3>2
  <2> QED
    BY <2>1
<1>7. Split(text, need, grows, limit) = h[n].parts
  BY DEF Split, Put, NoParts
<1>8. Eq(h)
  <2> HIDE DEF Eq
  <2> QED BY <1>6, Zenon
<1>9. h[0] = NoParts /\ \A i \in 1..n : h[i] = Put(h[i - 1], text[i], need, grows, limit)
  <2> HIDE DEF h
  <2>1. \A i \in 0..n : h[i] = IF i = 0 THEN NoParts
                               ELSE Put(h[i - 1], text[i], need, grows, limit)
    BY <1>8, Zenon
  <2>2. ASSUME NEW i \in 1..n PROVE h[i] = Put(h[i - 1], text[i], need, grows, limit)
    <3>1. i \in 0..n /\ i # 0
      BY <1>1
    <3> QED
      BY <2>1, <3>1, Zenon
  <2>3. 0 \in 0..n
    BY <1>1
  <2> QED
    BY <2>1, <2>2, <2>3, Zenon
<1> HIDE DEF h
<1>10. u[n] = h[n]
  <2>1. \A i \in 1..n : u[i - 1] = h[i - 1] => u[i] = h[i]
    <3> SUFFICES ASSUME NEW i \in 1..n, u[i - 1] = h[i - 1] PROVE u[i] = h[i]
      OBVIOUS
    <3> QED
      BY <1>4, <1>9, Zenon
  <2>2. u[0] = h[0]
    BY <1>4, <1>9
  <2>3. Agree(u, h, n)
    BY <1>1, <2>1, <2>2, SameRecursion
  <2> QED
    BY <1>1, <2>3 DEF Agree
<1> QED
  BY <1>5, <1>7, <1>10

Splittable(R, text, need, grows, limit, n) ==
    \E u \in [0..n -> [parts : Seq(Seq(R)) \ {<<>>}, size : Nat]] :
        /\ Splits(u, text, need, grows, limit, n)
        /\ Split(text, need, grows, limit) = u[n].parts

\* A text is split byte by byte.
LEMMA Splitting ==
  ASSUME NEW R, NEW need \in [R -> Nat], NEW grows \in [R -> Nat], NEW limit \in Nat,
         NEW text \in Seq(R), NEW n \in Nat, n = Len(text)
  PROVE  Splittable(R, text, need, grows, limit, n)
<1> DEFINE W == Seq(R)
           V == [parts : Seq(W) \ {<<>>}, size : Nat]
<1>1. \A w \in W, b \in R : Append(w, b) \in W /\ <<b>> \in W
  OBVIOUS
<1>2. <<>> \in W
  OBVIOUS
<1> HIDE DEF W
<1>3. NoParts \in V
  BY <1>2 DEF NoParts
<1>4. \A s \in V, b \in R : Put(s, b, need, grows, limit) \in V
  BY <1>1, PutType
<1>a. Puts(V, R, need, grows, limit)
  BY <1>3, <1>4 DEF Puts
<1> HIDE DEF V
<1>5. \E u \in [0..n -> V] : /\ Splits(u, text, need, grows, limit, n)
                            /\ Split(text, need, grows, limit) = u[n].parts
  BY <1>a, SplittingIn
<1> QED
  BY <1>5, Zenon DEF V, W, Splittable

\* What the bytes up to each weigh together.
Sums(c, text, grows, n) == c[0] = 0 /\ \A i \in 1..n : c[i] = c[i - 1] + grows[text[i]]
\* A part may begin behind k bytes: at a byte that asks for something.
Starts(k, text, need) == k < Len(text) => k = 0 \/ need[text[k + 1]] > 0
Growing(x, size, i, text, c, need, limit) ==
    \E k \in 0..i : /\ x = SubSeq(text, k + 1, i) /\ size = c[i] - c[k] /\ size <= limit
                    /\ Starts(k, text, need) /\ (i > 0 => k < i)
Cut(x, text, c, need, limit) ==
    \E l \in 1..Len(text) : \E k \in 0..(l - 1) :
        /\ x = SubSeq(text, k + 1, l) /\ c[l] - c[k] <= limit
        /\ Starts(k, text, need) /\ Starts(l, text, need)

LEMMA SumsExist ==
  ASSUME NEW R, NEW text \in Seq(R), NEW n \in Nat, n = Len(text), NEW grows \in [R -> Nat]
  PROVE  \E c \in [0..n -> Nat] : Sums(c, text, grows, n)
<1> DEFINE a == 0
           G == [x \in (1..n) \X Nat |-> x[2] + grows[text[x[1]]]]
<1>1. \A i \in 1..n : text[i] \in R
  OBVIOUS
<1>2. a \in Nat /\ G \in [(1..n) \X Nat -> Nat]
  BY <1>1
<1>3. PICK c \in [0..n -> Nat] : Recurs(c, n, a, G)
  <2> HIDE DEF G, a
  <2> QED BY <1>2, Recursion
<1>4. c[0] = 0 /\ \A i \in 1..n : c[i] = G[<<i, c[i - 1]>>]
  BY <1>3 DEF Recurs
<1>5. ASSUME NEW i \in 1..n PROVE c[i] = c[i - 1] + grows[text[i]]
  <2>1. c[i - 1] \in Nat
    OBVIOUS
  <2> DEFINE w == c[i - 1]
  <2> HIDE DEF w
  <2>2. <<i, w>> \in (1..n) \X Nat
    BY <2>1 DEF w
  <2>3. G[<<i, w>>] = w + grows[text[i]]
    BY <2>2
  <2> QED
    BY <1>4, <2>3 DEF w
<1> QED
  BY <1>4, <1>5 DEF Sums

LEMMA SubSeqMore ==
  ASSUME NEW R, NEW text \in Seq(R), NEW i \in 1..Len(text), NEW k \in 0..(i - 1)
  PROVE  Append(SubSeq(text, k + 1, i - 1), text[i]) = SubSeq(text, k + 1, i)
OBVIOUS

LEMMA SubSeqOne ==
  ASSUME NEW R, NEW text \in Seq(R), NEW i \in 1..Len(text)
  PROVE  <<text[i]>> = SubSeq(text, (i - 1) + 1, i)
OBVIOUS

SumsAt(c, i, g) == c[i] \in Nat /\ c[i - 1] \in Nat /\ g \in Nat /\ c[i] = c[i - 1] + g

LEMMA SumsStep ==
  ASSUME NEW R, NEW text \in Seq(R), NEW n \in Nat, n = Len(text), NEW grows \in [R -> Nat],
         NEW c \in [0..n -> Nat], Sums(c, text, grows, n)
  PROVE  \A i \in 1..n : SumsAt(c, i, grows[text[i]])
<1> SUFFICES ASSUME NEW i \in 1..n PROVE SumsAt(c, i, grows[text[i]])
  OBVIOUS
<1>1. text[i] \in R /\ i - 1 \in 0..n /\ i \in 0..n
  OBVIOUS
<1>2. c[i] = c[i - 1] + grows[text[i]]
  BY DEF Sums
<1>3. c[i] \in Nat /\ c[i - 1] \in Nat /\ grows[text[i]] \in Nat
  BY <1>1
<1> QED
  BY <1>2, <1>3 DEF SumsAt

LEMMA GrowingMore ==
  ASSUME NEW R, NEW text \in Seq(R), NEW n \in Nat, n = Len(text),
         NEW need \in [R -> Nat], NEW grows \in [R -> Nat], NEW limit \in Nat,
         NEW c \in [0..n -> Nat], Sums(c, text, grows, n), NEW i \in 1..n,
         NEW x, NEW size \in Nat, Growing(x, size, i - 1, text, c, need, limit),
         size + grows[text[i]] <= limit
  PROVE  Growing(Append(x, text[i]), size + grows[text[i]], i, text, c, need, limit)
<1>1. PICK k \in 0..(i - 1) :
        x = SubSeq(text, k + 1, i - 1) /\ size = c[i - 1] - c[k] /\ Starts(k, text, need)
  BY DEF Growing
<1>2. Append(x, text[i]) = SubSeq(text, k + 1, i)
  BY <1>1, SubSeqMore
<1>3. size + grows[text[i]] = c[i] - c[k]
  <2> DEFINE a == c[i]
             b == c[i - 1]
             d == c[k]
             g == grows[text[i]]
  <2>1. a \in Nat /\ b \in Nat /\ g \in Nat /\ a = b + g
    <3>1. SumsAt(c, i, grows[text[i]])
      BY SumsStep
    <3> QED
      BY <3>1, Zenon DEF SumsAt
  <2>2. d \in Nat
    <3>1. k \in 0..n
      OBVIOUS
    <3> QED
      BY <3>1
  <2>3. size = b - d
    BY <1>1
  <2> HIDE DEF a, b, d, g
  <2>4. size + g = a - d
    BY <2>1, <2>2, <2>3
  <2> QED
    BY <2>4 DEF a, d, g
<1>4. k \in 0..i /\ k < i
  OBVIOUS
<1> QED
  BY <1>1, <1>2, <1>3, <1>4 DEF Growing

LEMMA GrowingNew ==
  ASSUME NEW R, NEW text \in Seq(R), NEW n \in Nat, n = Len(text),
         NEW need \in [R -> Nat], NEW grows \in [R -> Nat], NEW limit \in Nat,
         NEW c \in [0..n -> Nat], Sums(c, text, grows, n), NEW i \in 1..n,
         need[text[i]] > 0, grows[text[i]] <= limit
  PROVE  Growing(<<text[i]>>, grows[text[i]], i, text, c, need, limit)
<1> DEFINE k == i - 1
<1>1. k \in 0..i /\ k < i /\ k + 1 = i
  OBVIOUS
<1>2. <<text[i]>> = SubSeq(text, k + 1, i)
  BY SubSeqOne
<1>3. grows[text[i]] = c[i] - c[k]
  <2> DEFINE a == c[i]
             b == c[i - 1]
             g == grows[text[i]]
  <2>1. a \in Nat /\ b \in Nat /\ g \in Nat /\ a = b + g
    <3>1. SumsAt(c, i, grows[text[i]])
      BY SumsStep
    <3> QED
      BY <3>1, Zenon DEF SumsAt
  <2> HIDE DEF a, b, g
  <2>2. g = a - b
    BY <2>1
  <2> QED
    BY <2>2 DEF a, b, g
<1>4. Starts(k, text, need)
  BY DEF Starts
<1> HIDE DEF k
<1> QED
  BY <1>1, <1>2, <1>3, <1>4 DEF Growing

LEMMA GrowingCut ==
  ASSUME NEW R, NEW text \in Seq(R), NEW n \in Nat, n = Len(text),
         NEW need, NEW limit \in Nat, NEW c, NEW i \in 1..n,
         NEW x, NEW size, Growing(x, size, i, text, c, need, limit), Starts(i, text, need)
  PROVE  Cut(x, text, c, need, limit)
BY DEF Growing, Cut

\* All parts of s but the last are cut, the last grows.
Splitted(s, i, text, c, need, limit) ==
    /\ Growing(Last(s.parts), s.size, i, text, c, need, limit)
    /\ \A j \in 1..(Len(s.parts) - 1) : Cut(s.parts[j], text, c, need, limit)
Bounds(need, grows, limit, R) == \A b \in R : grows[b] <= need[b] /\ need[b] <= limit

LEMMA AppendParts ==
  ASSUME NEW W, NEW s \in Seq(W), s # <<>>, NEW x \in W
  PROVE  /\ Last(Append(s, x)) = x /\ Len(Append(s, x)) = Len(s) + 1
         /\ \A j \in 1..Len(s) : Append(s, x)[j] = s[j]
BY DEF Last

LEMMA ReplaceLast ==
  ASSUME NEW W, NEW s \in Seq(W), s # <<>>, NEW x \in W
  PROVE  /\ Last(Append(Front(s), x)) = x /\ Len(Append(Front(s), x)) = Len(s)
         /\ \A j \in 1..(Len(s) - 1) : Append(Front(s), x)[j] = s[j]
<1> DEFINE f == Front(s)
<1>1. f \in Seq(W) /\ Len(f) = Len(s) - 1 /\ Len(s) \in Nat
      /\ \A j \in 1..(Len(s) - 1) : f[j] = s[j]
  BY FrontIs
<1> HIDE DEF f
<1>2. Last(Append(f, x)) = x /\ Len(Append(f, x)) = Len(f) + 1
      /\ \A j \in 1..Len(f) : Append(f, x)[j] = f[j]
  BY <1>1 DEF Last
<1> DEFINE l == Len(f)
           m == Len(s)
           k == Len(Append(f, x))
<1>3. l = m - 1 /\ k = l + 1 /\ m \in Nat
  BY <1>1, <1>2
<1>4. \A j \in 1..l : Append(f, x)[j] = s[j]
  BY <1>1, <1>2
<1> HIDE DEF l, m, k
<1>5. k = m
  BY <1>3
<1>6. \A j \in 1..(m - 1) : Append(f, x)[j] = s[j]
  <2>1. l = m - 1
    BY <1>3
  <2> QED
    BY <1>4, <2>1, Zenon
<1> QED
  BY <1>2, <1>5, <1>6 DEF f, m, k

LEMMA SplittedOn ==
  ASSUME NEW R, NEW text \in Seq(R), NEW n \in Nat, n = Len(text),
         NEW need \in [R -> Nat], NEW grows \in [R -> Nat], NEW limit \in Nat,
         Bounds(need, grows, limit, R),
         NEW c \in [0..n -> Nat], Sums(c, text, grows, n), NEW i \in 1..n,
         NEW s \in [parts : Seq(Seq(R)) \ {<<>>}, size : Nat],
         Splitted(s, i - 1, text, c, need, limit)
  PROVE  Splitted(Put(s, text[i], need, grows, limit), i, text, c, need, limit)
<1> DEFINE W == Seq(R)
           b == text[i]
           p == s.parts
           z == s.size
           t == Put(s, b, need, grows, limit)
<1>1. b \in R /\ b = text[i]
  OBVIOUS
<1>2. p \in Seq(W) /\ p # <<>> /\ z \in Nat
  OBVIOUS
<1>3. /\ Growing(Last(p), z, i - 1, text, c, need, limit)
      /\ \A j \in 1..(Len(p) - 1) : Cut(p[j], text, c, need, limit)
  BY DEF Splitted
<1>4. grows[b] \in Nat /\ need[b] \in Nat /\ grows[b] <= need[b] /\ need[b] <= limit
  BY <1>1 DEF Bounds
<1> DEFINE x == Append(Last(p), b)
           y == <<b>>
           q == Append(Front(p), x)
           r == Append(p, y)
<1>5. x \in W /\ y \in W
  <2>1. Last(p) \in Seq(R)
    BY <1>2, FrontIs
  <2> QED
    BY <1>1, <2>1
<1>6. t = IF z + need[b] <= limit THEN [parts |-> q, size |-> z + grows[b]]
          ELSE [parts |-> r, size |-> grows[b]]
  BY DEF Put
<1> HIDE DEF W, p, z, t, b
<1>7. CASE z + need[b] <= limit
  <2>1. t.parts = q /\ t.size = z + grows[b]
    BY <1>6, <1>7
  <2>2. Growing(x, z + grows[b], i, text, c, need, limit)
    <3>1. z + grows[b] <= limit
      <4> DEFINE nb == need[b]
                 gb == grows[b]
      <4>1. nb \in Nat /\ gb \in Nat /\ gb <= nb /\ z + nb <= limit
        BY <1>4, <1>7
      <4> HIDE DEF nb, gb
      <4>2. z + gb <= limit
        BY <1>2, <4>1
      <4> QED
        BY <4>2 DEF gb
    <3> DEFINE l == Last(p)
    <3>2. Growing(l, z, i - 1, text, c, need, limit)
      BY <1>3
    <3> HIDE DEF l
    <3>3. Growing(Append(l, text[i]), z + grows[text[i]], i, text, c, need, limit)
      BY <1>1, <1>2, <3>1, <3>2, GrowingMore
    <3> QED
      BY <1>1, <3>3 DEF l
  <2> HIDE DEF x, y, q, r
  <2>3. Last(q) = x /\ Len(q) = Len(p) /\ \A j \in 1..(Len(p) - 1) : q[j] = p[j]
    BY <1>2, <1>5, ReplaceLast DEF q
  <2>4. ASSUME NEW j \in 1..(Len(q) - 1) PROVE Cut(q[j], text, c, need, limit)
    <3>1. j \in 1..(Len(p) - 1)
      BY <2>3
    <3> QED
      BY <1>3, <2>3, <3>1
  <2> QED
    BY <2>1, <2>2, <2>3, <2>4 DEF Splitted, t, b
<1>8. CASE ~(z + need[b] <= limit)
  <2>1. t.parts = r /\ t.size = grows[b]
    BY <1>6, <1>8
  <2>2. z <= limit
    BY <1>3 DEF Growing
  <2>3. need[b] > 0
    <3> DEFINE nb == need[b]
    <3>1. nb \in Nat /\ ~(z + nb <= limit)
      BY <1>4, <1>8
    <3> HIDE DEF nb
    <3>2. nb > 0
      BY <1>2, <2>2, <3>1
    <3> QED
      BY <3>2 DEF nb
  <2>4. Growing(y, grows[b], i, text, c, need, limit)
    <3>1. need[text[i]] > 0 /\ grows[text[i]] <= limit
      BY <1>1, <1>4, <2>3
    <3>2. Growing(<<text[i]>>, grows[text[i]], i, text, c, need, limit)
      BY <3>1, GrowingNew
    <3> QED
      BY <1>1, <3>2, Zenon
  <2>5. i > 1
    <3>1. CASE i = 1
      <4>1. PICK k \in 0..(i - 1) : z = c[i - 1] - c[k]
        BY <1>3 DEF Growing
      <4>2. c[i - 1] = 0 /\ c[k] = 0
        BY <3>1 DEF Sums
      <4>3. z = 0
        BY <4>1, <4>2
      <4> QED
        BY <1>4, <1>8, <4>3
    <3> QED
      BY <3>1
  <2>6. Cut(Last(p), text, c, need, limit)
    <3>1. i - 1 \in 1..n
      BY <2>5
    <3>2. Starts(i - 1, text, need)
      BY <1>1, <2>3 DEF Starts
    <3> DEFINE l == Last(p)
               h == i - 1
    <3>3. Growing(l, z, h, text, c, need, limit) /\ h \in 1..n /\ Starts(h, text, need)
      BY <1>3, <3>1, <3>2
    <3> HIDE DEF l, h
    <3>4. Cut(l, text, c, need, limit)
      BY <3>3, GrowingCut
    <3> QED
      BY <3>4 DEF l
  <2> HIDE DEF x, y, q, r
  <2>7. Last(r) = y /\ Len(r) = Len(p) + 1 /\ \A j \in 1..Len(p) : r[j] = p[j]
    BY <1>2, <1>5, AppendParts DEF r
  <2>8. Last(p) = p[Len(p)] /\ Len(p) \in Nat \ {0}
    BY <1>2, FrontIs
  <2>9. ASSUME NEW j \in 1..(Len(r) - 1) PROVE Cut(r[j], text, c, need, limit)
    <3>1. j \in 1..Len(p) /\ (j = Len(p) \/ j \in 1..(Len(p) - 1))
      BY <2>7, <2>8
    <3>2. r[j] = p[j]
      BY <2>7, <3>1
    <3>3. CASE j = Len(p)
      BY <2>6, <2>8, <3>2, <3>3
    <3>4. CASE j \in 1..(Len(p) - 1)
      BY <1>3, <3>2, <3>4
    <3> QED
      BY <3>1, <3>3, <3>4
  <2> QED
    BY <2>1, <2>4, <2>7, <2>9 DEF Splitted, t, b
<1> QED
  BY <1>7, <1>8

\* A text that is not empty is split into parts none of which is empty or weighs
\* more than the limit; and no part begins where nothing is asked for.
LEMMA SplitCuts ==
  ASSUME NEW R, NEW text \in Seq(R), NEW n \in Nat \ {0}, n = Len(text),
         NEW need \in [R -> Nat], NEW grows \in [R -> Nat], NEW limit \in Nat,
         Bounds(need, grows, limit, R),
         NEW c \in [0..n -> Nat], Sums(c, text, grows, n)
  PROVE  /\ Split(text, need, grows, limit) \in Seq(Seq(R))
         /\ Split(text, need, grows, limit) # <<>>
         /\ \A j \in 1..Len(Split(text, need, grows, limit)) :
               Cut(Split(text, need, grows, limit)[j], text, c, need, limit)
<1> DEFINE W == Seq(R)
           V == [parts : Seq(W) \ {<<>>}, size : Nat]
<1>1. PICK u \in [0..n -> V] : /\ Splits(u, text, need, grows, limit, n)
                              /\ Split(text, need, grows, limit) = u[n].parts
  <2>1. Splittable(R, text, need, grows, limit, n)
    BY Splitting
  <2> QED
    BY <2>1, Zenon DEF Splittable
<1>2. u[0] = NoParts /\ \A i \in 1..n : u[i] = Put(u[i - 1], text[i], need, grows, limit)
  BY <1>1 DEF Splits
<1>3. \A i \in 0..n : u[i] \in V
  OBVIOUS
<1> HIDE DEF V
<1> DEFINE S == {i \in 0..n : Splitted(u[i], i, text, c, need, limit)}
<1>4. 0 \in S
  <2> DEFINE e == <<>>
             k == 0
             i == 0
  <2>1. Last(NoParts.parts) = e /\ NoParts.size = 0 /\ Len(NoParts.parts) - 1 = 0
    BY DEF NoParts, Last
  <2>2. k \in 0..i /\ e = SubSeq(text, k + 1, i) /\ 0 = c[i] - c[k] /\ 0 <= limit
        /\ Starts(k, text, need) /\ ~(i > 0)
    BY DEF Starts
  <2> HIDE DEF e, k
  <2>3. Growing(e, 0, i, text, c, need, limit)
    BY <2>2 DEF Growing
  <2>4. \A j \in 1..(Len(NoParts.parts) - 1) : FALSE
    <3> DEFINE l == Len(NoParts.parts) - 1
    <3>1. l = 0
      BY <2>1
    <3> HIDE DEF l
    <3>2. \A j \in 1..l : FALSE
      BY <3>1
    <3> QED
      BY <3>2 DEF l
  <2>5. Splitted(NoParts, 0, text, c, need, limit)
    BY <2>1, <2>3, <2>4, Zenon DEF Splitted
  <2>6. 0 \in 0..n
    OBVIOUS
  <2> QED
    BY <1>2, <2>5, <2>6, Zenon
<1>5. \A i \in 1..n : i - 1 \in S => i \in S
  <2> SUFFICES ASSUME NEW i \in 1..n, i - 1 \in S PROVE i \in S
    OBVIOUS
  <2> DEFINE s == u[i - 1]
  <2>1. s \in [parts : Seq(Seq(R)) \ {<<>>}, size : Nat]
    BY <1>3 DEF V
  <2>2. Splitted(s, i - 1, text, c, need, limit)
    OBVIOUS
  <2>3. u[i] = Put(s, text[i], need, grows, limit)
    BY <1>2
  <2> HIDE DEF s
  <2>4. Splitted(Put(s, text[i], need, grows, limit), i, text, c, need, limit)
    BY <2>1, <2>2, SplittedOn
  <2> QED
    BY <2>3, <2>4
<1>6. n \in S
  <2> HIDE DEF S
  <2>1. \A i \in 0..n : i \in S
    BY <1>4, <1>5, InductTo
  <2> QED
    BY <2>1
<1> DEFINE p == u[n].parts
           z == u[n].size
<1>7. p \in Seq(W) /\ p # <<>>
  <2>1. u[n] \in V
    BY <1>3
  <2> HIDE DEF W
  <2> QED
    BY <2>1 DEF V
<1>8. /\ Growing(Last(p), z, n, text, c, need, limit)
      /\ \A j \in 1..(Len(p) - 1) : Cut(p[j], text, c, need, limit)
  BY <1>6 DEF Splitted
<1> HIDE DEF p, z, S
<1>9. Cut(Last(p), text, c, need, limit)
  <2>1. Starts(n, text, need) /\ n \in 1..n
    BY DEF Starts
  <2> DEFINE l == Last(p)
  <2>2. Growing(l, z, n, text, c, need, limit)
    BY <1>8
  <2> HIDE DEF l
  <2>3. Cut(l, text, c, need, limit)
    BY <2>1, <2>2, GrowingCut
  <2> QED
    BY <2>3 DEF l
<1>10. ASSUME NEW j \in 1..Len(p) PROVE Cut(p[j], text, c, need, limit)
  <2> HIDE DEF W
  <2>1. Last(p) = p[Len(p)] /\ Len(p) \in Nat \ {0}
    BY <1>7, FrontIs
  <2>2. j = Len(p) \/ j \in 1..(Len(p) - 1)
    BY <2>1
  <2>3. CASE j = Len(p)
    BY <1>9, <2>1, <2>3
  <2>4. CASE j \in 1..(Len(p) - 1)
    BY <1>8, <2>4
  <2> QED
    BY <2>2, <2>3, <2>4
<1>11. p = Split(text, need, grows, limit)
  BY <1>1 DEF p
<1> HIDE DEF W
<1>12. Split(text, need, grows, limit) \in Seq(W)
  BY <1>7, <1>11
<1> QED
  BY <1>7, <1>10, <1>11, <1>12, Zenon DEF W

LEMMA SumsGrow ==
  ASSUME NEW R, NEW text \in Seq(R), NEW n \in Nat, n = Len(text), NEW grows \in [R -> Nat],
         NEW c \in [0..n -> Nat], Sums(c, text, grows, n), NEW k \in 0..n, NEW l \in k..n
  PROVE  c[k] <= c[l]
<1> DEFINE S == {m \in Nat : k + m <= n => c[k] <= c[k + m]}
<1>1. 0 \in S
  <2>1. c[k] \in Nat /\ k + 0 = k
    OBVIOUS
  <2> QED
    BY <2>1
<1>2. ASSUME NEW m \in Nat, m \in S PROVE m + 1 \in S
  <2>1. SUFFICES ASSUME k + (m + 1) <= n PROVE c[k] <= c[k + (m + 1)]
    OBVIOUS
  <2> DEFINE i == k + (m + 1)
  <2>2. i \in 1..n /\ i - 1 = k + m
    BY <2>1
  <2>3. SumsAt(c, i, grows[text[i]])
    <3> HIDE DEF i
    <3>1. \A j \in 1..n : SumsAt(c, j, grows[text[j]])
      BY SumsStep
    <3> QED
      BY <2>2, <3>1
  <2> DEFINE a == c[i]
             b == c[i - 1]
             d == c[k]
             g == grows[text[i]]
  <2>4. a \in Nat /\ b \in Nat /\ g \in Nat /\ a = b + g
    BY <2>3, Zenon DEF SumsAt
  <2>5. d <= b /\ d \in Nat
    <3>1. k + m <= n
      BY <2>1
    <3>2. c[k] <= c[k + m]
      BY <1>2, <3>1
    <3>3. c[k] \in Nat
      OBVIOUS
    <3> QED
      BY <2>2, <3>2, <3>3
  <2> HIDE DEF a, b, d, g, i
  <2>6. d <= a
    BY <2>4, <2>5
  <2> QED
    BY <2>6 DEF a, d, i
<1>3. l - k \in S
  <2> HIDE DEF S
  <2>1. l - k \in Nat
    OBVIOUS
  <2>2. Nat \subseteq S
    BY <1>1, <1>2, Induct
  <2> QED
    BY <2>1, <2>2
<1>4. k + (l - k) = l
  OBVIOUS
<1> QED
  BY <1>3, <1>4

Behind(c, k, m) == [j \in 0..m |-> c[k + j] - c[k]]
\* x is what is behind the k-th byte up to the l-th, and has sums of its own.
Shifted(x, m, R, text, grows, c, k, l) ==
    /\ x \in Seq(R) /\ Len(x) = m /\ m \in Nat \ {0}
    /\ \A j \in 1..m : x[j] = text[k + j]
    /\ Behind(c, k, m) \in [0..m -> Nat]
    /\ Sums(Behind(c, k, m), x, grows, m) /\ Behind(c, k, m)[m] = c[l] - c[k]
\* Sums that start at the k-th byte.
LEMMA SumsShift ==
  ASSUME NEW R, NEW text \in Seq(R), NEW n \in Nat, n = Len(text), NEW grows \in [R -> Nat],
         NEW c \in [0..n -> Nat], Sums(c, text, grows, n), NEW l \in 1..n, NEW k \in 0..(l - 1),
         NEW x, x = SubSeq(text, k + 1, l), NEW m, m = l - k
  PROVE  Shifted(x, m, R, text, grows, c, k, l)
<1>1. x \in Seq(R) /\ Len(x) = m /\ m \in Nat \ {0}
  OBVIOUS
<1>2. \A j \in 1..m : x[j] = text[k + j] /\ k + j \in 1..n
  OBVIOUS
<1> DEFINE d == Behind(c, k, m)
<1>3. ASSUME NEW j \in 0..m PROVE d[j] \in Nat /\ d[j] = c[k + j] - c[k]
  <2>1. k \in 0..n /\ k + j \in 0..n /\ k + j \in k..n
    OBVIOUS
  <2> DEFINE a == c[k + j]
             b == c[k]
             i == k + j
  <2>2. a \in Nat /\ b \in Nat
    BY <2>1
  <2>3. b <= a
    <3> HIDE DEF i
    <3>1. c[k] <= c[i]
      BY <2>1, SumsGrow DEF i
    <3> QED
      BY <3>1 DEF i
  <2>4. d[j] = a - b
    BY DEF Behind
  <2> HIDE DEF a, b, d
  <2>5. a - b \in Nat
    BY <2>2, <2>3
  <2> QED
    BY <2>4, <2>5 DEF a, b
<1>4. d \in [0..m -> Nat]
  <2>1. d = [j \in 0..m |-> d[j]]
    BY DEF Behind
  <2> HIDE DEF d
  <2> QED
    BY <1>3, <2>1
<1>5. d[0] = 0
  <2>1. k \in 0..n /\ k + 0 = k /\ 0 \in 0..m
    BY <1>1
  <2>2. c[k] \in Nat
    BY <2>1
  <2>3. d[0] = c[k + 0] - c[k]
    BY <1>3, <2>1
  <2> DEFINE a == c[k]
  <2>4. d[0] = a - a
    BY <2>1, <2>3
  <2>5. a \in Nat
    BY <2>2
  <2> HIDE DEF a, d
  <2> QED
    BY <2>4, <2>5
<1>6. ASSUME NEW j \in 1..m PROVE d[j] = d[j - 1] + grows[x[j]]
  <2> DEFINE i == k + j
             h == j - 1
  <2>1. i \in 1..n /\ i - 1 = k + h /\ x[j] = text[i] /\ h \in 0..m /\ j \in 0..m
    BY <1>2
  <2>2. d[j] = c[i] - c[k] /\ d[h] = c[i - 1] - c[k]
    BY <1>3, <2>1
  <2> HIDE DEF i, d, h
  <2>3. SumsAt(c, i, grows[text[i]])
    <3>1. \A jj \in 1..n : SumsAt(c, jj, grows[text[jj]])
      BY SumsStep
    <3> QED
      BY <2>1, <3>1
  <2> DEFINE a == c[i]
             b == c[i - 1]
             e == c[k]
             g == grows[text[i]]
  <2>4. a \in Nat /\ b \in Nat /\ g \in Nat /\ a = b + g
    BY <2>3, Zenon DEF SumsAt
  <2>5. e \in Nat
    <3>1. k \in 0..n
      OBVIOUS
    <3> QED
      BY <3>1
  <2>6. d[j] = a - e /\ d[h] = b - e
    BY <2>2
  <2> HIDE DEF a, b, e, g
  <2>7. d[j] = d[h] + g
    BY <2>4, <2>5, <2>6
  <2> QED
    BY <2>1, <2>7 DEF g, h
<1>7. d[m] = c[l] - c[k]
  <2>1. m \in 0..m /\ k + m = l
    BY <1>1
  <2> QED
    BY <1>3, <2>1
<1> HIDE DEF d
<1>8. Sums(d, x, grows, m)
  BY <1>5, <1>6 DEF Sums
<1> QED
  BY <1>1, <1>2, <1>4, <1>7, <1>8 DEF d, Shifted

\* The septets of a text weigh no more than its characters do.
LEMMA SeptetsLength ==
  ASSUME NEW x \in Seq(SevenBit), NEW n \in Nat, n = Len(x), NEW R, NEW grows \in [R -> Nat],
         x \in Seq(R), \A b \in SevenBit : Len(Septets7(b)) <= grows[b],
         NEW c \in [0..n -> Nat], Sums(c, x, grows, n)
  PROVE  Len(ToSeptets[x]) <= c[n]
<1> DEFINE s == [i \in DOMAIN x |-> Septets7(x[i])]
<1>1. ToSeptets[x] = FlattenSeq(s) /\ s \in Seq(Seq(SevenBit))
  BY ToSeptetsType
<1>2. Len(s) = n /\ \A i \in 1..n : s[i] = Septets7(x[i]) /\ x[i] \in SevenBit
  OBVIOUS
<1> HIDE DEF s
<1>3. PICK f \in [0..Len(s) -> Seq(SevenBit)] : Flattens(f, s, Len(s))
  BY <1>1, Flattening
<1>4. Flattens(f, s, n) /\ Pieces(s, n, SevenBit)
  BY <1>1, <1>2, <1>3 DEF Pieces
<1> DEFINE S == {i \in 0..n : Len(f[i]) <= c[i]}
<1>5. 0 \in S
  <2>1. f[0] = <<>> /\ c[0] = 0
    BY <1>4, FlattensEnds DEF Sums
  <2>2. 0 \in 0..n
    OBVIOUS
  <2>3. Len(<<>>) <= 0
    OBVIOUS
  <2> QED
    BY <2>1, <2>2, <2>3
<1>6. \A i \in 1..n : i - 1 \in S => i \in S
  <2> SUFFICES ASSUME NEW i \in 1..n, i - 1 \in S PROVE i \in S
    OBVIOUS
  <2>1. /\ s[i] \in Seq(SevenBit) /\ f[i] \in Seq(SevenBit) /\ f[i - 1] \in Seq(SevenBit)
        /\ Joins(f[i], f[i - 1], s[i])
    BY <1>4, FlattensGrows
  <2> DEFINE u == f[i]
             v == f[i - 1]
             w == s[i]
  <2>2. /\ u \in Seq(SevenBit) /\ v \in Seq(SevenBit) /\ w \in Seq(SevenBit) /\ Joins(u, v, w)
        /\ Len(v) <= c[i - 1] /\ Len(w) <= grows[x[i]]
    BY <1>2, <2>1
  <2>5. SumsAt(c, i, grows[x[i]])
    BY SumsStep
  <2> DEFINE a == c[i]
             b == c[i - 1]
             g == grows[x[i]]
             la == Len(u)
             lb == Len(v)
             lg == Len(w)
  <2>6. a \in Nat /\ b \in Nat /\ g \in Nat /\ a = b + g
    BY <2>5, Zenon DEF SumsAt
  <2> HIDE DEF u, v, w, a, b, g, la, lb, lg
  <2>7. lb \in Nat /\ lg \in Nat /\ la = lb + lg
    BY <2>2, JoinsPlaces DEF la, lb, lg
  <2>8. lb <= b /\ lg <= g
    BY <2>2 DEF lb, lg, b, g
  <2>9. la <= a
    BY <2>6, <2>7, <2>8
  <2>10. i \in 0..n
    OBVIOUS
  <2> QED
    BY <2>9, <2>10 DEF la, a, u
<1>7. n \in S
  <2> HIDE DEF S
  <2>1. \A i \in 0..n : i \in S
    BY <1>5, <1>6, InductTo
  <2> QED
    BY <2>1
<1>8. FlattenSeq(s) = f[n]
  BY <1>4, FlattensEnds
<1> QED
  BY <1>1, <1>7, <1>8

\* What Split counts for a byte is what it becomes.
LEMMA EscapedIs ==
  ASSUME NEW b \in SevenBit
  PROVE  /\ Escaped[b] \in 1..2 /\ Len(Septets7(b)) = Escaped[b]
         /\ Units[b] = 2 /\ Len(Septets7(b)) <= Units[b]
<1>1. b \in Nat /\ b <= 127 /\ b \in 0..255
  BY SevenBitIs
<1>2. Escaped[b] = EscapeLength(b) /\ Units[b] = UnitLength(b)
  BY <1>1 DEF Escaped, Units
<1>3. UnitLength(b) = 2
  BY <1>1 DEF UnitLength, Continues
<1> DEFINE E == \E e \in Escapes : e[1] = b
           l == Len(Septets7(b))
<1>4. EscapeLength(b) = IF E THEN 2 ELSE 1
  BY DEF EscapeLength
<1>5. l = IF E THEN 2 ELSE 1
  <2>1. CASE E
    <3>1. Septets7(b) = <<27, (CHOOSE e \in Escapes : e[1] = b)[2]>>
      BY <2>1, Zenon DEF Septets7
    <3> DEFINE y == (CHOOSE e \in Escapes : e[1] = b)[2]
    <3> HIDE DEF y
    <3>2. Len(<<27, y>>) = 2
      OBVIOUS
    <3> QED
      BY <2>1, <3>1, <3>2, Zenon DEF y
  <2>2. CASE ~E
    <3> DEFINE places == {s \in 0..127 : Ascii(s) = b}
               y == IF places = {} THEN b ELSE CHOOSE s \in places : \A t \in places : s <= t
    <3>1. Septets7(b) = <<y>>
      BY <2>2, Zenon DEF Septets7
    <3> HIDE DEF y
    <3>2. Len(<<y>>) = 1
      OBVIOUS
    <3> QED
      BY <2>2, <3>1, <3>2, Zenon
  <2> QED
    BY <2>1, <2>2
<1> HIDE DEF E, l
<1>6. l <= 2 /\ Escaped[b] \in 1..2 /\ l = Escaped[b]
  BY <1>2, <1>4, <1>5
<1> QED
  BY <1>2, <1>3, <1>6 DEF l

\* A character begins with the i-th byte, and the next one w bytes behind.
CharacterAt(x, i, w, n) ==
    /\ w \in 1..3 /\ i + w <= n + 1
    /\ w > 1 => Continues(x[i + 1])
    /\ w > 2 => Continues(x[i + 2])
    /\ i + w <= n => ~Continues(x[i + w])
    /\ w = 1 => x[i] < 128
    /\ w = 2 => x[i] >= 192 /\ x[i] < 224
    /\ w = 3 => x[i] >= 224 /\ x[i] < 240

LEMMA Characters ==
  ASSUME NEW x \in Seq(Octet), WellFormed(x), NEW n \in Nat, n = Len(x),
         NEW i \in 1..n, ~Continues(x[i])
  PROVE  CharacterAt(x, i, UnitBytes(x, i), n)
<1> DEFINE w == UnitBytes(x, i)
<1>1. ASSUME NEW j \in 1..n
      PROVE  /\ x[j] \in Nat /\ x[j] < 240
             /\ Continues(x[j]) <=> (j > 1 /\ x[j - 1] >= 192) \/ (j > 2 /\ x[j - 2] >= 224)
             /\ (x[j] >= 192 => j < n) /\ (x[j] >= 224 => j + 1 < n)
             /\ Continues(x[j]) <=> x[j] >= 128 /\ x[j] < 192
  <2>1. x[j] \in Octet
    OBVIOUS
  <2>2. x[j] \in Nat
    BY <2>1, OctetIs
  <2>3. Continues(x[j]) <=> x[j] >= 128 /\ x[j] < 192
    <3> DEFINE b == x[j]
    <3>1. b \in Nat
      BY <2>2
    <3> HIDE DEF b
    <3>2. Continues(b) <=> b >= 128 /\ b < 192
      BY <3>1 DEF Continues
    <3> QED
      BY <3>2 DEF b
  <2> QED
    <3>1. j \in DOMAIN x
      OBVIOUS
    <3>2. /\ x[j] < 240
          /\ Continues(x[j]) <=> (j > 1 /\ x[j - 1] >= 192) \/ (j > 2 /\ x[j - 2] >= 224)
          /\ (x[j] >= 192 => j < Len(x)) /\ (x[j] >= 224 => j + 1 < Len(x))
      BY <3>1, Zenon DEF WellFormed
    <3> QED
      BY <2>2, <2>3, <3>2, Zenon
<1> DEFINE b == x[i]
<1>2. b \in Nat /\ b < 240 /\ (b < 128 \/ b >= 192) /\ (b >= 192 => i < n) /\ (b >= 224 => i + 1 < n)
  <2>1. ~(b >= 128 /\ b < 192)
    BY <1>1
  <2>2. b \in Nat /\ b < 240 /\ (b >= 192 => i < n) /\ (b >= 224 => i + 1 < n)
    BY <1>1
  <2> HIDE DEF b
  <2> QED
    BY <2>1, <2>2
<1>3. w = IF b < 128 THEN 1 ELSE IF b < 224 THEN 2 ELSE 3
  BY DEF UnitBytes
<1> SUFFICES /\ w \in 1..3 /\ i + w <= n + 1
             /\ w > 1 => Continues(x[i + 1])
             /\ w > 2 => Continues(x[i + 2])
             /\ i + w <= n => ~Continues(x[i + w])
             /\ w = 1 => x[i] < 128
             /\ w = 2 => x[i] >= 192 /\ x[i] < 224
             /\ w = 3 => x[i] >= 224 /\ x[i] < 240
  BY DEF CharacterAt
<1> HIDE DEF w
<1>4. ~(i > 1 /\ x[i - 1] >= 192)
  <2>1. Continues(x[i]) <=> (i > 1 /\ x[i - 1] >= 192) \/ (i > 2 /\ x[i - 2] >= 224)
    BY <1>1
  <2> QED
    BY <2>1, Zenon
<1>5. CASE b < 128
  <2>1. w = 1
    BY <1>3, <1>5
  <2>2. ASSUME i + 1 <= n PROVE ~Continues(x[i + 1])
    <3>1. i + 1 \in 1..n /\ (i + 1) - 1 = i /\ (i + 1) - 2 = i - 1
      BY <2>2
    <3>2. Continues(x[i + 1]) <=> (i + 1 > 1 /\ b >= 192) \/ (i + 1 > 2 /\ x[i - 1] >= 224)
      BY <1>1, <3>1
    <3>3. ~(b >= 192)
      BY <1>2, <1>5
    <3>4. ~(i + 1 > 2 /\ x[i - 1] >= 224)
      <4>1. SUFFICES ASSUME i > 1 PROVE ~(x[i - 1] >= 224)
        OBVIOUS
      <4>2. x[i - 1] \in Nat /\ ~(x[i - 1] >= 192)
        BY <1>1, <1>4, <4>1
      <4> DEFINE a == x[i - 1]
      <4>3. a \in Nat /\ ~(a >= 192)
        BY <4>2
      <4> HIDE DEF a
      <4>4. ~(a >= 224)
        BY <4>3
      <4> QED
        BY <4>4 DEF a
    <3> QED
      BY <3>2, <3>3, <3>4
  <2> QED
    BY <1>5, <2>1, <2>2
<1>6. CASE b >= 192
  <2>1. i + 1 \in 1..n /\ (i + 1) - 1 = i /\ (i + 1) - 2 = i - 1 /\ i + 1 > 1
    BY <1>2, <1>6
  <2>2. Continues(x[i + 1])
    <3>1. Continues(x[i + 1]) <=> (i + 1 > 1 /\ b >= 192) \/ (i + 1 > 2 /\ x[i - 1] >= 224)
      BY <1>1, <2>1
    <3> QED
      BY <1>6, <2>1, <3>1
  <2>3. ~(x[i + 1] >= 192) /\ ~(x[i + 1] >= 224)
    <3> DEFINE a == x[i + 1]
    <3>1. a \in Nat /\ a < 192
      BY <1>1, <2>1, <2>2
    <3> HIDE DEF a
    <3>2. ~(a >= 192) /\ ~(a >= 224)
      BY <3>1
    <3> QED
      BY <3>2 DEF a
  <2>4. CASE b < 224
    <3>1. w = 2
      BY <1>2, <1>3, <1>6, <2>4
    <3>2. ASSUME i + 2 <= n PROVE ~Continues(x[i + 2])
      <4>1. i + 2 \in 1..n /\ (i + 2) - 1 = i + 1 /\ (i + 2) - 2 = i
        BY <3>2
      <4>2. Continues(x[i + 2]) <=> (i + 2 > 1 /\ x[i + 1] >= 192) \/ (i + 2 > 2 /\ b >= 224)
        BY <1>1, <4>1
      <4>3. ~(b >= 224)
        BY <1>2, <2>4
      <4> QED
        BY <2>3, <4>2, <4>3
    <3> QED
      BY <1>2, <1>6, <2>1, <2>2, <2>4, <3>1, <3>2
  <2>5. CASE b >= 224
    <3>1. w = 3
      BY <1>2, <1>3, <2>5
    <3>2. i + 2 \in 1..n /\ (i + 2) - 1 = i + 1 /\ (i + 2) - 2 = i /\ i + 2 > 2
      BY <1>2, <2>5
    <3>3. Continues(x[i + 2])
      BY <1>1, <2>5, <3>2
    <3>4. ~(x[i + 2] >= 192)
      <4> DEFINE a == x[i + 2]
      <4>1. a \in Nat /\ a < 192
        BY <1>1, <3>2, <3>3
      <4> HIDE DEF a
      <4>2. ~(a >= 192)
        BY <4>1
      <4> QED
        BY <4>2 DEF a
    <3>5. ASSUME i + 3 <= n PROVE ~Continues(x[i + 3])
      <4>1. i + 3 \in 1..n /\ (i + 3) - 1 = i + 2 /\ (i + 3) - 2 = i + 1
        BY <3>5
      <4>2. Continues(x[i + 3]) <=> (i + 3 > 1 /\ x[i + 2] >= 192) \/ (i + 3 > 2 /\ x[i + 1] >= 224)
        BY <1>1, <4>1
      <4> QED
        BY <2>3, <3>4, <4>2
    <3> QED
      BY <1>2, <2>2, <2>5, <3>1, <3>2, <3>3, <3>5
  <2> QED
    BY <1>2, <2>4, <2>5
<1> QED
  BY <1>2, <1>5, <1>6

LEMMA UnitsIs ==
  ASSUME NEW b \in Octet
  PROVE  /\ Units[b] = (IF Continues(b) THEN 0 ELSE 2) /\ Units[b] \in Nat
         /\ Units \in [Octet -> Nat]
BY DEF Units, UnitLength, Octet

\* A character begins with the i-th byte, or nothing is left.
Boundary(x, i, n) == i > n \/ ~Continues(x[i])

\* What is given out for the bytes from the i-th on.
UnitsFrom(g, c, x, n, i) == Boundary(x, i, n) => Len(g[i]) = c[n] - c[i - 1]

LEMMA UnitsFromOn ==
  ASSUME NEW x \in Seq(Octet), WellFormed(x), NEW n \in Nat, n = Len(x),
         NEW c \in [0..n -> Nat], Sums(c, x, Units, n), NEW g \in [1..(n + 3) -> Seq(Octet)],
         Scans(g, UnitsOut(x), UnitsStep(x), n, n), NEW i \in 1..n,
         \A j \in (i + 1)..(n + 1) : UnitsFrom(g, c, x, n, j)
  PROVE  UnitsFrom(g, c, x, n, i)
<1> SUFFICES ASSUME ~Continues(x[i]) PROVE Len(g[i]) = c[n] - c[i - 1]
  BY DEF UnitsFrom, Boundary
<1> DEFINE w == UnitBytes(x, i)
           k == i + w
           o == UnitsOut(x)[i]
           u == g[i]
           v == g[k]
<1>1. /\ w \in 1..3 /\ i + w <= n + 1
      /\ w > 1 => Continues(x[i + 1])
      /\ w > 2 => Continues(x[i + 2])
      /\ i + w <= n => ~Continues(x[i + w])
  <2>1. CharacterAt(x, i, w, n)
    BY Characters
  <2> HIDE DEF w
  <2> QED BY <2>1 DEF CharacterAt
<1>2. UnitsStep(x)[i] = w /\ o \in Seq(Octet) /\ Len(o) = 2
  <2>1. UnitsOut(x) \in Seq(Seq(Octet)) /\ Len(UnitsOut(x)) = n
    BY UnitsTypes
  <2>2. o = <<UnitCode(x, i) \div 256, UnitCode(x, i) % 256>>
    BY DEF UnitsOut
  <2>3. Len(o) = 2
    <3> DEFINE a == UnitCode(x, i) \div 256
               b == UnitCode(x, i) % 256
    <3> HIDE DEF a, b
    <3>1. Len(<<a, b>>) = 2
      OBVIOUS
    <3> QED
      BY <2>2, <3>1 DEF a, b
  <2> HIDE DEF w
  <2>4. UnitsStep(x)[i] = w
    BY DEF UnitsStep, w
  <2> DEFINE W == Seq(Octet)
  <2>5. UnitsOut(x) \in Seq(W)
    BY <2>1
  <2> HIDE DEF W
  <2>6. o \in W
    BY <2>1, <2>5
  <2> QED
    BY <2>3, <2>4, <2>6 DEF W
<1>3. k \in 1..(n + 3) /\ k \in (i + 1)..(n + 1)
  BY <1>1
<1>4. u \in Seq(Octet) /\ v \in Seq(Octet)
  <2> DEFINE W == Seq(Octet)
  <2>1. i \in 1..(n + 3) /\ g \in [1..(n + 3) -> W]
    OBVIOUS
  <2> HIDE DEF W, k
  <2>2. g[i] \in W /\ g[k] \in W
    BY <1>3, <2>1
  <2> QED
    BY <2>2 DEF W
<1>5. Joins(u, o, v)
  BY <1>2 DEF Scans
<1>6. Boundary(x, k, n)
  BY <1>1 DEF Boundary
<1>7. Len(v) = c[n] - c[k - 1]
  BY <1>3, <1>6 DEF UnitsFrom
<1>8. \A j \in 1..n : SumsAt(c, j, Units[x[j]]) /\ Units[x[j]] = IF Continues(x[j]) THEN 0 ELSE 2
  <2>1. Units \in [Octet -> Nat] /\ \A j \in 1..n : x[j] \in Octet
    BY UnitsIs
  <2>2. \A j \in 1..n : SumsAt(c, j, Units[x[j]])
    BY <2>1, SumsStep
  <2> QED
    BY <2>1, <2>2, UnitsIs
<1>9. c[k - 1] = c[i - 1] + 2 /\ c[i - 1] \in Nat /\ c[k - 1] \in Nat
  <2>1. c[i] = c[i - 1] + 2 /\ c[i - 1] \in Nat /\ c[i] \in Nat
    BY <1>8, Zenon DEF SumsAt
  <2>2. CASE w = 1
    <3>1. k - 1 = i
      BY <2>2
    <3> QED
      BY <2>1, <3>1
  <2>3. ASSUME NEW j \in 1..n, Continues(x[j]) PROVE c[j] = c[j - 1]
    <3>1. c[j] = c[j - 1] + 0 /\ c[j - 1] \in Nat
      BY <1>8, <2>3, Zenon DEF SumsAt
    <3> QED
      BY <3>1
  <2>4. CASE w = 2
    <3>1. i + 1 \in 1..n /\ (i + 1) - 1 = i /\ k - 1 = i + 1
      BY <1>1, <2>4
    <3>2. c[i + 1] = c[(i + 1) - 1]
      BY <1>1, <2>3, <2>4, <3>1
    <3> QED
      BY <2>1, <3>1, <3>2
  <2>5. CASE w = 3
    <3>1. i + 1 \in 1..n /\ (i + 1) - 1 = i /\ i + 2 \in 1..n /\ (i + 2) - 1 = i + 1
          /\ k - 1 = i + 2
      BY <1>1, <2>5
    <3>2. c[i + 1] = c[(i + 1) - 1] /\ c[i + 2] = c[(i + 2) - 1]
      BY <1>1, <2>3, <2>5, <3>1
    <3> QED
      BY <2>1, <3>1, <3>2
  <2> QED
    BY <1>1, <2>2, <2>4, <2>5
<1>10. Len(u) = Len(o) + Len(v)
  <2>1. o \in Seq(Octet)
    BY <1>2
  <2> HIDE DEF u, o, v
  <2> QED BY <1>4, <1>5, <2>1, JoinsPlaces
<1> DEFINE a == c[n]
           b == c[i - 1]
           d == c[k - 1]
           lu == Len(u)
           lo == Len(o)
           lv == Len(v)
<1>11. a \in Nat /\ b \in Nat /\ d \in Nat /\ d = b + 2 /\ lu = lo + lv /\ lo = 2 /\ lv = a - d
  <2>1. c[n] \in Nat
    OBVIOUS
  <2> QED
    BY <1>2, <1>7, <1>9, <1>10, <2>1
<1> HIDE DEF a, b, d, lu, lo, lv, u
<1>12. lu = a - b
  BY <1>11
<1> QED
  BY <1>12 DEF lu, a, b, u

LEMMA UnitsScan ==
  ASSUME NEW x \in Seq(Octet)
  PROVE  \E g \in [1..(Len(x) + 3) -> Seq(Octet)] :
            Scans(g, UnitsOut(x), UnitsStep(x), Len(x), Len(x)) /\ ToUnits[x] = g[1]
<1> DEFINE W == Seq(Octet)
           out == UnitsOut(x)
           step == UnitsStep(x)
           n == Len(x)
<1>1. <<>> \in W /\ (\A u, v \in W : u \o v \in W)
  OBVIOUS
<1>2. out \in Seq(W) /\ n = Len(out) /\ step \in [1..n -> 1..3] /\ n \in Nat
  BY UnitsTypes
<1>3. ToUnits[x] = Scan(out, step)
  BY ToUnitsIs
<1> HIDE DEF W, out, step, n
<1>4. PICK g \in [1..(n + 3) -> W] : Scans(g, out, step, n, n) /\ Scan(out, step) = g[1]
  BY <1>1, <1>2, Scanning
<1> QED
  BY <1>3, <1>4 DEF W, out, step, n

\* The units of a well-formed text weigh what its bytes weigh.
LEMMA UnitsLength ==
  ASSUME NEW x \in Seq(Octet), WellFormed(x), NEW n \in Nat \ {0}, n = Len(x),
         NEW c \in [0..n -> Nat], Sums(c, x, Units, n)
  PROVE  Len(ToUnits[x]) = c[n]
<1>5. PICK g \in [1..(n + 3) -> Seq(Octet)] :
        Scans(g, UnitsOut(x), UnitsStep(x), n, n) /\ ToUnits[x] = g[1]
  <2>1. \E g \in [1..(Len(x) + 3) -> Seq(Octet)] :
            Scans(g, UnitsOut(x), UnitsStep(x), Len(x), Len(x)) /\ ToUnits[x] = g[1]
    BY UnitsScan
  <2> QED
    BY <2>1, Zenon
<1> DEFINE S == {m \in Nat : m <= n => \A i \in 1..(n + 1) : i > n - m => UnitsFrom(g, c, x, n, i)}
<1>6. 0 \in S
  <2>1. ASSUME NEW i \in 1..(n + 1), i > n PROVE UnitsFrom(g, c, x, n, i)
    <3>1. i = n + 1 /\ i \in (n + 1)..(n + 3) /\ i - 1 = n
      BY <2>1
    <3>2. g[i] = <<>>
      BY <1>5, <3>1 DEF Scans
    <3>3. Len(g[i]) = 0
      BY <3>2
    <3>4. c[n] - c[i - 1] = 0
      <4>1. c[n] \in Nat
        OBVIOUS
      <4> QED
        BY <3>1, <4>1
    <3> QED
      BY <3>3, <3>4 DEF UnitsFrom
  <2> QED
    BY <2>1
<1>7. ASSUME NEW m \in Nat, m \in S PROVE m + 1 \in S
  <2>1. ASSUME m + 1 <= n, NEW i \in 1..(n + 1), i > n - (m + 1)
        PROVE  UnitsFrom(g, c, x, n, i)
    <3>1. CASE i > n - m
      BY <1>7, <2>1, <3>1
    <3>2. CASE i = n - m
      <4>1. i \in 1..n /\ \A j \in (i + 1)..(n + 1) : j \in 1..(n + 1) /\ j > n - m
        BY <2>1, <3>2
      <4>2. \A j \in (i + 1)..(n + 1) : UnitsFrom(g, c, x, n, j)
        BY <1>7, <2>1, <4>1
      <4> QED
        BY <1>5, <4>1, <4>2, UnitsFromOn
    <3> QED
      BY <2>1, <3>1, <3>2
  <2> QED
    BY <2>1
<1>8. n \in S
  <2> HIDE DEF S
  <2> QED BY <1>6, <1>7, Induct
<1>9. UnitsFrom(g, c, x, n, 1)
  <2>1. 1 \in 1..(n + 1) /\ 1 > n - n
    OBVIOUS
  <2> QED
    BY <1>8, <2>1
<1>10. Boundary(x, 1, n)
  <2>1. 1 \in DOMAIN x /\ ~(1 > 1) /\ ~(1 > 2)
    OBVIOUS
  <2>2. ~Continues(x[1])
    BY <2>1, Zenon DEF WellFormed
  <2> QED
    BY <2>2 DEF Boundary
<1>11. c[1 - 1] = 0 /\ c[n] \in Nat
  BY DEF Sums
<1>12. Len(g[1]) = c[n]
  BY <1>9, <1>10, <1>11 DEF UnitsFrom
<1> QED
  BY <1>5, <1>12

\* A piece of a well-formed text, from one character's begin to another's.
LEMMA PieceWellFormed ==
  ASSUME NEW text \in Seq(Octet), WellFormed(text), NEW n \in Nat, n = Len(text),
         NEW l \in 1..n, NEW k \in 0..(l - 1), NEW m, m = l - k,
         NEW x \in Seq(Octet), Len(x) = m, \A j \in 1..m : x[j] = text[k + j],
         Starts(k, text, Units), Starts(l, text, Units)
  PROVE  WellFormed(x)
<1>1. ASSUME NEW j \in 1..n
      PROVE  /\ text[j] \in Nat /\ text[j] < 240
             /\ Continues(text[j]) <=> (j > 1 /\ text[j - 1] >= 192) \/ (j > 2 /\ text[j - 2] >= 224)
             /\ (text[j] >= 192 => j < n) /\ (text[j] >= 224 => j + 1 < n)
  <2>1. text[j] \in Octet
    OBVIOUS
  <2>2. text[j] \in Nat
    BY <2>1, OctetIs
  <2>3. j \in DOMAIN text
    OBVIOUS
  <2>4. /\ text[j] < 240
        /\ Continues(text[j]) <=> (j > 1 /\ text[j - 1] >= 192) \/ (j > 2 /\ text[j - 2] >= 224)
        /\ (text[j] >= 192 => j < Len(text)) /\ (text[j] >= 224 => j + 1 < Len(text))
    BY <2>3, Zenon DEF WellFormed
  <2> QED
    BY <2>2, <2>4, Zenon
<1>2. ASSUME NEW j \in 0..(n - 1), Starts(j, text, Units), j > 0
      PROVE  ~Continues(text[j + 1])
  <2>1. text[j + 1] \in Octet /\ j < Len(text)
    BY <1>2
  <2>2. Units[text[j + 1]] > 0
    BY <1>2, <2>1 DEF Starts
  <2> QED
    BY <2>1, <2>2, UnitsIs
<1>3. m \in Nat \ {0}
  OBVIOUS
<1>4. ASSUME NEW j \in 1..m
      PROVE  /\ x[j] < 240
             /\ Continues(x[j]) <=> (j > 1 /\ x[j - 1] >= 192) \/ (j > 2 /\ x[j - 2] >= 224)
             /\ (x[j] >= 192 => j < m) /\ (x[j] >= 224 => j + 1 < m)
  <2> DEFINE i == k + j
  <2>1. i \in 1..n /\ x[j] = text[i]
    BY <1>3
  <2>2. Continues(x[j]) <=> (j > 1 /\ x[j - 1] >= 192) \/ (j > 2 /\ x[j - 2] >= 224)
    <3>1. Continues(text[i]) <=> (i > 1 /\ text[i - 1] >= 192) \/ (i > 2 /\ text[i - 2] >= 224)
      BY <1>1, <2>1
    <3>2. j > 1 => x[j - 1] = text[i - 1] /\ i > 1
      <4>1. SUFFICES ASSUME j > 1 PROVE x[j - 1] = text[i - 1] /\ i > 1
        OBVIOUS
      <4>2. j - 1 \in 1..m /\ k + (j - 1) = i - 1
        BY <4>1
      <4>3. x[j - 1] = text[k + (j - 1)]
        BY <4>2
      <4> QED
        BY <4>1, <4>2, <4>3
    <3>3. j > 2 => x[j - 2] = text[i - 2] /\ i > 2
      <4>1. SUFFICES ASSUME j > 2 PROVE x[j - 2] = text[i - 2] /\ i > 2
        OBVIOUS
      <4>2. j - 2 \in 1..m /\ k + (j - 2) = i - 2
        BY <4>1
      <4>3. x[j - 2] = text[k + (j - 2)]
        BY <4>2
      <4> QED
        BY <4>1, <4>2, <4>3
    <3>4. ASSUME j = 1 PROVE ~Continues(text[i])
      <4>1. CASE k = 0
        <5>1. ~(i > 1) /\ ~(i > 2)
          BY <3>4, <4>1
        <5> QED
          BY <3>1, <5>1
      <4>2. CASE k > 0
        <5>1. k \in 0..(n - 1) /\ i = k + 1
          BY <3>4
        <5> QED
          BY <1>2, <4>2, <5>1
      <4> QED
        BY <4>1, <4>2
    <3>5. ASSUME j = 2, i > 2 PROVE ~(text[i - 2] >= 224)
      <4>1. k \in 1..n /\ k = i - 2 /\ k + 1 \in 1..n /\ k + 1 > 1 /\ (k + 1) - 1 = k
            /\ k \in 0..(n - 1) /\ k > 0
        BY <3>5
      <4>2. ~Continues(text[k + 1])
        BY <1>2, <4>1
      <4>3. ~(text[k] >= 192)
        BY <1>1, <4>1, <4>2
      <4>4. text[k] \in Nat
        BY <1>1, <4>1
      <4> DEFINE a == text[k]
      <4>5. a \in Nat /\ ~(a >= 192)
        BY <4>3, <4>4
      <4> HIDE DEF a
      <4>6. ~(a >= 224)
        BY <4>5
      <4> QED
        BY <4>1, <4>6 DEF a
    <3> HIDE DEF i
    <3>6. CASE j = 1
      <4>1. ~(j > 1) /\ ~(j > 2)
        BY <3>6
      <4> QED
        BY <2>1, <3>4, <3>6, <4>1
    <3>7. CASE j = 2
      <4>1. j > 1 /\ ~(j > 2)
        BY <3>7
      <4> QED
        BY <2>1, <3>1, <3>2, <3>5, <3>7, <4>1
    <3>8. CASE j > 2
      <4>1. j > 1
        BY <3>8
      <4> QED
        BY <2>1, <3>1, <3>2, <3>3, <3>8, <4>1
    <3>9. j = 1 \/ j = 2 \/ j > 2
      OBVIOUS
    <3> QED
      BY <3>6, <3>7, <3>8, <3>9
  <2>3. ASSUME NEW e \in 0..1, text[i] >= 192 + 32 * e PROVE j + e < m
    <3>1. i + e < n
      <4>1. CASE e = 0
        BY <1>1, <2>1, <2>3, <4>1
      <4>2. CASE e = 1
        BY <1>1, <2>1, <2>3, <4>2
      <4> QED
        BY <4>1, <4>2
    <3>2. CASE l = n
      BY <3>1, <3>2
    <3>3. CASE l < n
      <4>1. l \in 0..(n - 1) /\ l > 0
        BY <3>3
      <4>2. ~Continues(text[l + 1])
        BY <1>2, <4>1
      <4>3. l + 1 \in 1..n /\ l + 1 > 1 /\ (l + 1) - 1 = l /\ (l + 1) - 2 = l - 1
        BY <3>3
      <4>4. ~(text[l] >= 192) /\ ~(l + 1 > 2 /\ text[l - 1] >= 224)
        <5>1. Continues(text[l + 1])
                 <=> (l + 1 > 1 /\ text[l] >= 192) \/ (l + 1 > 2 /\ text[l - 1] >= 224)
          BY <1>1, <4>3
        <5> QED
          BY <4>2, <4>3, <5>1
      <4>5. text[i] \in Nat
        BY <1>1, <2>1
      <4> DEFINE a == text[i]
      <4>6. a \in Nat /\ a >= 192 + 32 * e
        BY <2>3, <4>5
      <4> HIDE DEF a
      <4>7. a >= 192 /\ (e = 1 => a >= 224)
        BY <4>6
      <4>8. i # l
        BY <4>4, <4>7 DEF a
      <4>9. e = 1 => i # l - 1
        <5>1. SUFFICES ASSUME e = 1, i = l - 1 PROVE FALSE
          OBVIOUS
        <5>2. l + 1 > 2
          BY <5>1, <2>1
        <5>3. text[l - 1] >= 224
          BY <4>7, <5>1 DEF a
        <5> QED
          BY <4>4, <5>2, <5>3
      <4> QED
        BY <4>8, <4>9
    <3> QED
      BY <3>2, <3>3
  <2>4. x[j] >= 192 => j < m
    <3>1. SUFFICES ASSUME x[j] >= 192 PROVE j < m
      OBVIOUS
    <3> DEFINE e == 0
    <3>2. e \in 0..1 /\ 192 + 32 * e = 192 /\ j + e = j
      OBVIOUS
    <3> HIDE DEF e, i
    <3>3. text[i] >= 192 + 32 * e
      BY <2>1, <3>1, <3>2
    <3> QED
      BY <2>3, <3>2, <3>3
  <2>5. x[j] >= 224 => j + 1 < m
    <3>1. SUFFICES ASSUME x[j] >= 224 PROVE j + 1 < m
      OBVIOUS
    <3> DEFINE e == 1
    <3>2. e \in 0..1 /\ 192 + 32 * e = 224 /\ j + e = j + 1
      OBVIOUS
    <3> HIDE DEF e, i
    <3>3. text[i] >= 192 + 32 * e
      BY <2>1, <3>1, <3>2
    <3> QED
      BY <2>3, <3>2, <3>3
  <2>6. x[j] < 240
    BY <1>1, <2>1
  <2> QED
    BY <2>2, <2>4, <2>5, <2>6
<1> SUFFICES ASSUME NEW j \in DOMAIN x
             PROVE  /\ x[j] < 240
                    /\ Continues(x[j]) <=> (j > 1 /\ x[j - 1] >= 192) \/ (j > 2 /\ x[j - 2] >= 224)
                    /\ (x[j] >= 192 => j < Len(x)) /\ (x[j] >= 224 => j + 1 < Len(x))
  BY Zenon DEF WellFormed
<1>5. j \in 1..m
  OBVIOUS
<1>6. /\ x[j] < 240
      /\ Continues(x[j]) <=> (j > 1 /\ x[j - 1] >= 192) \/ (j > 2 /\ x[j - 2] >= 224)
      /\ (x[j] >= 192 => j < m) /\ (x[j] >= 224 => j + 1 < m)
  BY <1>4, <1>5
<1> QED
  BY <1>6

\* The bytes of x stand in the text, one behind the other.
StandsIn(x, text) ==
    \E k \in 0..Len(text) : \A j \in 1..Len(x) : k + j \in 1..Len(text) /\ x[j] = text[k + j]
\* A part that is not empty, stands in the text and weighs no more than the limit.
Piece(x, text, grows, limit) ==
    /\ x \in Seq(Octet) /\ x # <<>> /\ StandsIn(x, text)
    /\ \E d \in [0..Len(x) -> Nat] : Sums(d, x, grows, Len(x)) /\ d[Len(x)] <= limit
Pieced(p, text, need, grows, limit) ==
    /\ p \in Seq(Seq(Octet))
    /\ \A j \in 1..Len(p) : /\ Piece(p[j], text, grows, limit)
                            /\ WellFormed(text) /\ need = Units => WellFormed(p[j])

LEMMA CutPiece ==
  ASSUME NEW text \in Seq(Octet), NEW n \in Nat \ {0}, n = Len(text),
         NEW need, NEW grows \in [Octet -> Nat], NEW limit \in Nat,
         NEW c \in [0..n -> Nat], Sums(c, text, grows, n), NEW x, Cut(x, text, c, need, limit)
  PROVE  /\ Piece(x, text, grows, limit)
         /\ WellFormed(text) /\ need = Units => WellFormed(x)
<1>1. PICK l \in 1..n : \E k \in 0..(l - 1) :
        /\ x = SubSeq(text, k + 1, l) /\ c[l] - c[k] <= limit
        /\ Starts(k, text, need) /\ Starts(l, text, need)
  BY DEF Cut
<1>2. PICK k \in 0..(l - 1) :
        /\ x = SubSeq(text, k + 1, l) /\ c[l] - c[k] <= limit
        /\ Starts(k, text, need) /\ Starts(l, text, need)
  BY <1>1
<1> DEFINE m == l - k
           d == Behind(c, k, m)
<1>3. /\ x \in Seq(Octet) /\ Len(x) = m /\ m \in Nat \ {0}
      /\ \A j \in 1..m : x[j] = text[k + j]
      /\ d \in [0..m -> Nat] /\ Sums(d, x, grows, m) /\ d[m] = c[l] - c[k]
  <2>1. m = l - k
    OBVIOUS
  <2>2. n \in Nat
    OBVIOUS
  <2> HIDE DEF m
  <2>3. Shifted(x, m, Octet, text, grows, c, k, l)
    BY <1>2, <2>1, <2>2, SumsShift
  <2> QED BY <2>3, Zenon DEF Shifted, d
<1> HIDE DEF d
<1>4. WellFormed(text) /\ need = Units => WellFormed(x)
  <2> SUFFICES ASSUME WellFormed(text), need = Units PROVE WellFormed(x)
    OBVIOUS
  <2>1. m = l - k /\ n \in Nat
    OBVIOUS
  <2>2. Starts(k, text, Units) /\ Starts(l, text, Units)
    BY <1>2
  <2> HIDE DEF m
  <2> QED BY <1>3, <2>1, <2>2, PieceWellFormed
<1>5. k \in 0..n /\ \A j \in 1..m : k + j \in 1..n
  OBVIOUS
<1> HIDE DEF m
<1>6. StandsIn(x, text)
  BY <1>3, <1>5 DEF StandsIn
<1>7. x # <<>>
  BY <1>3, EmptySeq
<1>8. \E e \in [0..Len(x) -> Nat] : Sums(e, x, grows, Len(x)) /\ e[Len(x)] <= limit
  <2>1. \E e \in [0..m -> Nat] : Sums(e, x, grows, m) /\ e[m] <= limit
    BY <1>2, <1>3
  <2>2. Len(x) = m
    BY <1>3
  <2> QED
    BY <2>1, <2>2, Zenon
<1> QED
  BY <1>3, <1>4, <1>6, <1>7, <1>8 DEF Piece

LEMMA SplitPieces ==
  ASSUME NEW text \in Seq(Octet), text # <<>>,
         NEW need \in [Octet -> Nat], NEW grows \in [Octet -> Nat], NEW limit \in Nat,
         Bounds(need, grows, limit, Octet)
  PROVE  /\ Pieced(Split(text, need, grows, limit), text, need, grows, limit)
         /\ Split(text, need, grows, limit) # <<>>
<1> DEFINE n == Len(text)
           p == Split(text, need, grows, limit)
<1>1. n \in Nat \ {0} /\ n = Len(text)
  BY EmptySeq
<1> HIDE DEF n
<1>2. PICK c \in [0..n -> Nat] : Sums(c, text, grows, n)
  BY <1>1, SumsExist
<1>3. /\ p \in Seq(Seq(Octet)) /\ p # <<>>
      /\ \A j \in 1..Len(p) : Cut(p[j], text, c, need, limit)
  <2> HIDE DEF p
  <2> QED BY <1>1, <1>2, SplitCuts DEF p
<1> HIDE DEF p
<1>4. ASSUME NEW j \in 1..Len(p)
      PROVE  /\ Piece(p[j], text, grows, limit)
             /\ WellFormed(text) /\ need = Units => WellFormed(p[j])
  <2> DEFINE x == p[j]
  <2>1. Cut(x, text, c, need, limit)
    BY <1>3
  <2> HIDE DEF x
  <2>2. Piece(x, text, grows, limit) /\ (WellFormed(text) /\ need = Units => WellFormed(x))
    BY <1>1, <1>2, <2>1, CutPiece
  <2> QED
    BY <2>2 DEF x
<1>5. Pieced(p, text, need, grows, limit)
  <2>1. p \in Seq(Seq(Octet))
    BY <1>3
  <2> QED
    BY <1>4, <2>1, Zenon DEF Pieced
<1> QED
  BY <1>3, <1>5 DEF p

LEMMA MessageIs ==
  ASSUME NEW text \in Messages \cup PhoneTexts
  PROVE  text \in Seq(Octet) /\ text # <<>>
<1>1. text \in Seq(1..255) /\ text # <<>>
  BY TextsAssumption
<1>2. 1..255 \subseteq Octet
  BY OctetIs
<1> QED
  BY <1>1, <1>2, SeqWithin

LEMMA LimitsAre ==
  /\ Length7 \in Nat /\ LengthUcs2 \in Nat /\ 4 <= Length7 /\ 4 <= LengthUcs2
  /\ LengthUcs2 <= Length7 /\ Length7 <= 248
BY LimitsAssumption

\* What the bytes ask for fits into an empty part.
LEMMA BoundsAre ==
  /\ Escaped \in [Octet -> Nat] /\ Bounds(Escaped, Escaped, Length7, Octet)
  /\ Units \in [Octet -> Nat] /\ Bounds(Units, Units, Length7, Octet)
  /\ Bounds(Units, Units, LengthUcs2, Octet)
  /\ Wide \in [Octet -> Nat] /\ [b \in 0..255 |-> 1] \in [Octet -> Nat]
  /\ Bounds(Wide, [b \in 0..255 |-> 1], Length7, Octet)
<1>1. \A b \in Octet : EscapeLength(b) \in 1..2 /\ UnitLength(b) \in 0..2
  BY DEF EscapeLength, UnitLength
<1>2. ASSUME NEW b \in Octet PROVE Octets8(b) \in 1..4
  BY DEF Octets8
<1>3. /\ Escaped = [b \in Octet |-> EscapeLength(b)] /\ Units = [b \in Octet |-> UnitLength(b)]
      /\ Wide = [b \in Octet |-> Octets8(b)]
      /\ [b \in 0..255 |-> 1] = [b \in Octet |-> 1]
  BY DEF Escaped, Units, Wide, Octet
<1>4. Escaped \in [Octet -> Nat] /\ Bounds(Escaped, Escaped, Length7, Octet)
  <2>1. \A b \in Octet : Escaped[b] \in Nat /\ Escaped[b] <= 2
    BY <1>1, <1>3
  <2> QED
    BY <1>3, <2>1, LimitsAre DEF Bounds
<1>5. /\ Units \in [Octet -> Nat] /\ Bounds(Units, Units, Length7, Octet)
      /\ Bounds(Units, Units, LengthUcs2, Octet)
  <2>1. \A b \in Octet : Units[b] \in Nat /\ Units[b] <= 2
    BY <1>1, <1>3
  <2> QED
    BY <1>3, <2>1, LimitsAre DEF Bounds
<1>6. /\ Wide \in [Octet -> Nat] /\ [b \in 0..255 |-> 1] \in [Octet -> Nat]
      /\ Bounds(Wide, [b \in 0..255 |-> 1], Length7, Octet)
  <2>1. \A b \in Octet : Wide[b] \in Nat /\ 1 <= Wide[b] /\ Wide[b] <= 4
    BY <1>2, <1>3
  <2> DEFINE one == [b \in Octet |-> 1]
  <2>2. \A b \in Octet : one[b] = 1
    OBVIOUS
  <2>3. one \in [Octet -> Nat]
    OBVIOUS
  <2> HIDE DEF one
  <2>4. Bounds(Wide, one, Length7, Octet)
    BY <2>1, <2>2, LimitsAre DEF Bounds
  <2>5. Wide \in [Octet -> Nat]
    BY <1>3, <2>1
  <2> QED
    BY <1>3, <2>3, <2>4, <2>5, Zenon DEF one
<1> QED
  BY <1>4, <1>5, <1>6
------------------------------------------------------------------------------
(* The parts of a text.                                                    *)

\* What gsm_encode_pdu is given: bytes, all of them ASCII in the 7-bit alphabet.
Coded(coding, x) == coding = "UTF-8" /\ \E i \in DOMAIN x : x[i] >= 128
Codable(ucs2, x) == x \in Seq(Octet) /\ x # <<>> /\ (~ucs2 => x \in Seq(SevenBit))
Fits(ucs2, x) == IF ucs2 THEN Len(ToUnits[x]) <= LengthUcs2 ELSE Len(ToSeptets[x]) <= Length7

LEMMA AsciiOnly ==
  ASSUME NEW x \in Seq(Octet), \A i \in 1..Len(x) : ~(x[i] >= 128)
  PROVE  x \in Seq(SevenBit)
<1>1. ASSUME NEW i \in 1..Len(x) PROVE x[i] \in SevenBit
  <2>1. x[i] \in Octet
    OBVIOUS
  <2>2. x[i] \in Nat /\ ~(x[i] >= 128)
    BY <2>1, OctetIs
  <2> DEFINE b == x[i]
  <2> HIDE DEF b
  <2>3. b \in Nat /\ ~(b >= 128)
    BY <2>2 DEF b
  <2>4. b <= 127
    BY <2>3
  <2> QED
    BY <2>3, <2>4, SevenBitIs DEF b
<1> QED
  BY <1>1

LEMMA PieceFits ==
  ASSUME NEW x, NEW text, NEW limit \in Nat, Piece(x, text, Units, limit), WellFormed(x),
         limit <= Length7, (\E i \in DOMAIN x : x[i] >= 128) => limit <= LengthUcs2
  PROVE  Fits(\E i \in DOMAIN x : x[i] >= 128, x)
<1> DEFINE n == Len(x)
<1>1. x \in Seq(Octet) /\ x # <<>> /\ n \in Nat \ {0} /\ DOMAIN x = 1..n
  <2>1. x \in Seq(Octet) /\ x # <<>>
    BY DEF Piece
  <2> QED
    BY <2>1, EmptySeq
<1>2. PICK d \in [0..n -> Nat] : Sums(d, x, Units, n) /\ d[n] <= limit
  BY Zenon DEF Piece
<1>3. d[n] \in Nat
  BY <1>1
<1> HIDE DEF n
<1>4. CASE \E i \in DOMAIN x : x[i] >= 128
  <2>1. Len(ToUnits[x]) = d[n]
    BY <1>1, <1>2, UnitsLength DEF n
  <2> DEFINE a == d[n]
             l == Len(ToUnits[x])
  <2>2. l = a /\ a \in Nat /\ a <= limit /\ limit <= LengthUcs2
    BY <1>2, <1>3, <1>4, <2>1
  <2> HIDE DEF a, l
  <2>3. l <= LengthUcs2
    BY <2>2, LimitsAre
  <2> QED
    BY <1>4, <2>3 DEF Fits, l
<1>5. CASE ~\E i \in DOMAIN x : x[i] >= 128
  <2>1. x \in Seq(SevenBit)
    BY <1>1, <1>5, AsciiOnly DEF n
  <2>2. Units \in [Octet -> Nat] /\ \A b \in SevenBit : Len(Septets7(b)) <= Units[b]
    BY BoundsAre, EscapedIs
  <2>3. n \in Nat /\ n = Len(x)
    BY <1>1 DEF n
  <2>4. Len(ToSeptets[x]) <= d[n]
    BY <1>1, <1>2, <2>1, <2>2, <2>3, SeptetsLength
  <2>5. ToSeptets[x] \in Seq(SevenBit)
    BY <2>1, ToSeptetsType
  <2>6. Len(ToSeptets[x]) \in Nat
    BY <2>5
  <2> DEFINE a == d[n]
             l == Len(ToSeptets[x])
  <2>7. l <= a /\ l \in Nat /\ a \in Nat /\ a <= limit /\ limit <= Length7
    BY <1>2, <1>3, <2>4, <2>6
  <2> HIDE DEF a, l
  <2>8. l <= Length7
    BY <2>7, LimitsAre
  <2> QED
    BY <1>5, <2>8 DEF Fits, l
<1> QED
  BY <1>4, <1>5

LEMMA AsciiPieceFits ==
  ASSUME NEW x, NEW text, IsAscii(text), text \in Seq(Octet),
         Piece(x, text, Escaped, Length7)
  PROVE  Codable(FALSE, x) /\ Fits(FALSE, x)
<1> DEFINE n == Len(x)
<1>1. x \in Seq(Octet) /\ x # <<>> /\ n \in Nat \ {0} /\ DOMAIN x = 1..n
  <2>1. x \in Seq(Octet) /\ x # <<>>
    BY DEF Piece
  <2> QED
    BY <2>1, EmptySeq
<1>2. PICK d \in [0..n -> Nat] : Sums(d, x, Escaped, n) /\ d[n] <= Length7
  BY Zenon DEF Piece
<1>3. d[n] \in Nat
  BY <1>1
<1>4. ASSUME NEW j \in 1..Len(x) PROVE ~(x[j] >= 128)
  <2>1. PICK i \in 1..Len(text) : x[j] = text[i]
    BY Zenon DEF Piece, StandsIn
  <2>2. text[i] < 128 /\ text[i] \in Octet
    BY DEF IsAscii
  <2>3. text[i] \in Nat
    BY <2>2, OctetIs
  <2> DEFINE b == text[i]
  <2>4. x[j] = b /\ b \in Nat /\ b < 128
    BY <2>1, <2>2, <2>3
  <2> HIDE DEF b
  <2> QED
    BY <2>4
<1>5. x \in Seq(SevenBit)
  BY <1>1, <1>4, AsciiOnly
<1> HIDE DEF n
<1>6. Escaped \in [Octet -> Nat] /\ \A b \in SevenBit : Len(Septets7(b)) <= Escaped[b]
  <2>1. ASSUME NEW b \in SevenBit PROVE Len(Septets7(b)) <= Escaped[b]
    <3>1. Escaped[b] \in 1..2 /\ Len(Septets7(b)) = Escaped[b]
      BY EscapedIs
    <3> QED
      BY <3>1
  <2> QED
    BY <2>1, BoundsAre
<1>7. n \in Nat /\ n = Len(x)
  BY <1>1 DEF n
<1>8. Len(ToSeptets[x]) <= d[n]
  BY <1>1, <1>2, <1>5, <1>6, <1>7, SeptetsLength
<1>9. ToSeptets[x] \in Seq(SevenBit)
  BY <1>5, ToSeptetsType
<1>10. Len(ToSeptets[x]) \in Nat
  BY <1>9
<1> DEFINE a == d[n]
           l == Len(ToSeptets[x])
<1>11. l <= a /\ l \in Nat /\ a \in Nat /\ a <= Length7
  BY <1>2, <1>3, <1>8, <1>10
<1> HIDE DEF a, l
<1>12. l <= Length7
  BY <1>11, LimitsAre
<1>13. Fits(FALSE, x)
  BY <1>12 DEF Fits, l
<1> QED
  BY <1>1, <1>5, <1>13 DEF Codable

\* The parts a command makes of a text, as gsm_encode_pdu is given them.
PartsAre(p, sized) ==
    /\ p.parts \in Seq(Seq(Octet))
    /\ \A i \in 1..Len(p.parts) :
        /\ Codable(Coded(p.coding, p.parts[i]), p.parts[i])
        /\ sized => Fits(Coded(p.coding, p.parts[i]), p.parts[i])

\* Parts for UTF-8, whatever they weigh.
Sized(x, sized) == x # <<>> /\ (sized => Fits(\E j \in DOMAIN x : x[j] >= 128, x))

LEMMA CodedParts ==
  ASSUME NEW p \in Seq(Seq(Octet)), NEW sized, \A i \in 1..Len(p) : Sized(p[i], sized)
  PROVE  PartsAre([coding |-> "UTF-8", parts |-> p], sized)
<1> DEFINE r == [coding |-> "UTF-8", parts |-> p]
<1>1. r.coding = "UTF-8" /\ r.parts = p
  OBVIOUS
<1> HIDE DEF r
<1>2. ASSUME NEW i \in 1..Len(p)
      PROVE  /\ Codable(Coded("UTF-8", p[i]), p[i])
             /\ sized => Fits(Coded("UTF-8", p[i]), p[i])
  <2> DEFINE x == p[i]
             wide == \E j \in DOMAIN x : x[j] >= 128
  <2>1. x \in Seq(Octet)
    <3> DEFINE W == Seq(Octet)
    <3>1. p \in Seq(W)
      OBVIOUS
    <3> HIDE DEF W
    <3>2. p[i] \in W
      BY <3>1
    <3> QED
      BY <3>2 DEF W
  <2>2. x # <<>> /\ (sized => Fits(wide, x))
    BY Zenon DEF Sized
  <2> HIDE DEF x
  <2>3. Coded("UTF-8", x) = wide
    BY DEF Coded
  <2>4. ASSUME ~wide PROVE x \in Seq(SevenBit)
    <3>1. \A j \in 1..Len(x) : j \in DOMAIN x
      BY <2>1
    <3>2. \A j \in 1..Len(x) : ~(x[j] >= 128)
      BY <2>4, <3>1, Zenon
    <3> QED
      BY <2>1, <3>2, AsciiOnly
  <2> HIDE DEF wide
  <2>5. Codable(wide, x)
    BY <2>1, <2>2, <2>4, Zenon DEF Codable
  <2> QED
    BY <2>2, <2>3, <2>5, Zenon DEF x
<1>3. PartsAre(r, sized)
  BY <1>1, <1>2, Zenon DEF PartsAre
<1> QED
  BY <1>3, Zenon DEF r

\* Parts of the split by characters of two or three bytes.
LEMMA UnitParts ==
  ASSUME NEW text \in Seq(Octet), text # <<>>, NEW limit \in {Length7, LengthUcs2},
         (\E i \in DOMAIN text : text[i] >= 128) => limit = LengthUcs2
  PROVE  PartsAre([coding |-> "UTF-8", parts |-> Split(text, Units, Units, limit)],
                  WellFormed(text))
<1> DEFINE p == Split(text, Units, Units, limit)
<1>1. limit \in Nat /\ limit <= Length7 /\ Bounds(Units, Units, limit, Octet)
      /\ Units \in [Octet -> Nat]
  <2>1. limit \in Nat /\ limit <= Length7
    BY LimitsAre
  <2>2. Bounds(Units, Units, limit, Octet)
    <3>1. limit = Length7 \/ limit = LengthUcs2
      OBVIOUS
    <3> QED
      BY <3>1, BoundsAre, Zenon
  <2> QED
    BY <2>1, <2>2, BoundsAre
<1>2. Pieced(p, text, Units, Units, limit) /\ p # <<>>
  BY <1>1, SplitPieces
<1> HIDE DEF p
<1>3. p \in Seq(Seq(Octet))
  BY <1>2 DEF Pieced
<1>4. ASSUME NEW i \in 1..Len(p) PROVE Sized(p[i], WellFormed(text))
  <2> DEFINE x == p[i]
  <2>1. Piece(x, text, Units, limit) /\ (WellFormed(text) => WellFormed(x))
    BY <1>2, Zenon DEF Pieced
  <2> HIDE DEF x
  <2>2. x # <<>> /\ x \in Seq(Octet)
    BY <2>1 DEF Piece
  <2>3. (\E j \in DOMAIN x : x[j] >= 128) => limit <= LengthUcs2
    <3>1. SUFFICES ASSUME NEW j \in DOMAIN x, x[j] >= 128 PROVE limit <= LengthUcs2
      OBVIOUS
    <3>2. j \in 1..Len(x)
      BY <2>2
    <3>3. PICK k \in 1..Len(text) : x[j] = text[k]
      BY <2>1, <3>2, Zenon DEF Piece, StandsIn
    <3>4. k \in DOMAIN text /\ text[k] >= 128
      BY <3>1, <3>3
    <3> QED
      BY <3>4, LimitsAre
  <2>4. ASSUME WellFormed(text) PROVE Fits(\E j \in DOMAIN x : x[j] >= 128, x)
    <3>1. limit \in Nat /\ limit <= Length7 /\ Piece(x, text, Units, limit) /\ WellFormed(x)
      BY <1>1, <2>1, <2>4
    <3> QED
      BY <2>3, <3>1, PieceFits, Zenon
  <2> QED
    BY <2>2, <2>4, Zenon DEF x, Sized
<1>5. PartsAre([coding |-> "UTF-8", parts |-> p], WellFormed(text))
  BY <1>3, <1>4, CodedParts, Zenon
<1> QED
  BY <1>5, Zenon DEF p

LEMMA EscapedParts ==
  ASSUME NEW text \in Seq(Octet), text # <<>>, IsAscii(text)
  PROVE  PartsAre([coding |-> "ASCII", parts |-> Split(text, Escaped, Escaped, Length7)], TRUE)
<1> DEFINE p == Split(text, Escaped, Escaped, Length7)
           r == [coding |-> "ASCII", parts |-> p]
<1>1. Pieced(p, text, Escaped, Escaped, Length7)
  BY LimitsAre, BoundsAre, SplitPieces
<1> HIDE DEF p
<1>2. r.coding = "ASCII" /\ r.parts = p
  OBVIOUS
<1> HIDE DEF r
<1>3. ASSUME NEW i \in 1..Len(p) PROVE Codable(FALSE, p[i]) /\ Fits(FALSE, p[i])
  <2> DEFINE x == p[i]
  <2>1. Piece(x, text, Escaped, Length7)
    BY <1>1, Zenon DEF Pieced
  <2> HIDE DEF x
  <2>2. Codable(FALSE, x) /\ Fits(FALSE, x)
    BY <2>1, AsciiPieceFits
  <2> QED
    BY <2>2, Zenon DEF x
<1>4. \A x : Coded("ASCII", x) = FALSE
  BY DEF Coded
<1>5. p \in Seq(Seq(Octet))
  BY <1>1 DEF Pieced
<1>6. PartsAre(r, TRUE)
  BY <1>2, <1>3, <1>4, <1>5, Zenon DEF PartsAre
<1> QED
  BY <1>6, Zenon DEF r, p

LEMMA WideParts ==
  ASSUME NEW text \in Seq(Octet), text # <<>>
  PROVE  PartsAre(AppParts(text), FALSE)
<1> DEFINE one == [b \in 0..255 |-> 1]
           s == Split(text, Wide, one, Length7)
           p == Front(s)
<1>1. Wide \in [Octet -> Nat] /\ one \in [Octet -> Nat] /\ Bounds(Wide, one, Length7, Octet)
  BY BoundsAre
<1>2. AppParts(text) = [coding |-> "UTF-8", parts |-> p]
  BY Zenon DEF AppParts
<1> HIDE DEF one
<1>3. Pieced(s, text, Wide, one, Length7) /\ s # <<>>
  BY <1>1, LimitsAre, SplitPieces
<1> HIDE DEF s
<1> DEFINE W == Seq(Octet)
<1>4. s \in Seq(W) /\ s # <<>>
  BY <1>3 DEF Pieced
<1>5. \A i \in 1..Len(s) : s[i] # <<>>
  <2>1. \A i \in 1..Len(s) : Piece(s[i], text, one, Length7)
    BY <1>3, Zenon DEF Pieced
  <2> QED
    BY <2>1, Zenon DEF Piece
<1> HIDE DEF W
<1>6. /\ p \in Seq(W) /\ Len(p) = Len(s) - 1 /\ Len(s) \in Nat \ {0}
      /\ \A i \in 1..(Len(s) - 1) : p[i] = s[i]
  BY <1>4, FrontIs
<1> HIDE DEF p
<1>7. ASSUME NEW i \in 1..Len(p) PROVE Sized(p[i], FALSE)
  <2>1. i \in 1..(Len(s) - 1) /\ i \in 1..Len(s)
    BY <1>6
  <2>2. p[i] # <<>>
    BY <1>5, <1>6, <2>1
  <2> QED
    BY <2>2, Zenon DEF Sized
<1>8. p \in Seq(Seq(Octet))
  BY <1>6 DEF W
<1>9. PartsAre([coding |-> "UTF-8", parts |-> p], FALSE)
  BY <1>7, <1>8, CodedParts, Zenon
<1> QED
  BY <1>2, <1>9, Zenon

\* Whatever a command is given, it hands parts over that can be encoded; the parts
\* of handle_gsm_send_sms and of a file fit.
LEMMA CommandParts ==
  ASSUME NEW cmd \in {"file", "sms", "app"}, NEW text \in Messages
  PROVE  PartsAre(Parts(cmd, text), cmd \in {"file", "sms"} /\ WellFormed(text))
<1> DEFINE sized == cmd \in {"file", "sms"} /\ WellFormed(text)
<1>1. text \in Seq(Octet) /\ text # <<>>
  BY MessageIs
<1>2. ASSUME NEW p, NEW s, PartsAre(p, s), sized => s PROVE PartsAre(p, sized)
  BY <1>2, Zenon DEF PartsAre
<1>3. IsAscii(text) => ~\E i \in DOMAIN text : text[i] >= 128
  <2>1. SUFFICES ASSUME IsAscii(text), NEW i \in DOMAIN text, text[i] >= 128 PROVE FALSE
    OBVIOUS
  <2>2. text[i] \in Octet /\ text[i] < 128
    BY <1>1, <2>1 DEF IsAscii
  <2>3. text[i] \in Nat
    BY <2>2, OctetIs
  <2> DEFINE b == text[i]
  <2>4. b \in Nat /\ b < 128 /\ b >= 128
    BY <2>1, <2>2, <2>3
  <2> HIDE DEF b
  <2> QED
    BY <2>4
<1>4. CASE cmd = "file"
  <2>1. Parts(cmd, text) = FileParts(text)
    BY <1>4 DEF Parts
  <2>2. CASE IsAscii(text) /\ \A i \in DOMAIN text : text[i] # 96
    <3> DEFINE r == [coding |-> "ASCII", parts |-> Split(text, Escaped, Escaped, Length7)]
    <3>1. FileParts(text) = r
      BY <2>2, Zenon DEF FileParts
    <3>2. PartsAre(r, TRUE)
      BY <1>1, <2>2, EscapedParts, Zenon
    <3> HIDE DEF r, sized
    <3>3. PartsAre(r, sized)
      BY <1>2, <3>2, Zenon
    <3> QED
      BY <2>1, <3>1, <3>3, Zenon DEF sized
  <2>3. CASE ~(IsAscii(text) /\ \A i \in DOMAIN text : text[i] # 96)
    <3> DEFINE r == [coding |-> "UTF-8", parts |-> Split(text, Units, Units, LengthUcs2)]
    <3>1. FileParts(text) = r
      BY <2>3, Zenon DEF FileParts
    <3>2. PartsAre(r, WellFormed(text))
      BY <1>1, UnitParts
    <3> HIDE DEF r
    <3>3. PartsAre(r, sized)
      BY <1>2, <3>2, Zenon
    <3> QED
      BY <2>1, <3>1, <3>3, Zenon
  <2> QED
    BY <2>2, <2>3, Zenon
<1>5. CASE cmd = "sms"
  <2> DEFINE limit == IF IsAscii(text) THEN Length7 ELSE LengthUcs2
             r == [coding |-> "UTF-8", parts |-> Split(text, Units, Units, limit)]
  <2>1. Parts(cmd, text) = SmsParts(text)
    BY <1>5 DEF Parts
  <2>2. SmsParts(text) = r
    BY Zenon DEF SmsParts
  <2>3. limit \in {Length7, LengthUcs2}
        /\ ((\E i \in DOMAIN text : text[i] >= 128) => limit = LengthUcs2)
    BY <1>3, Zenon
  <2> HIDE DEF limit
  <2>4. PartsAre(r, WellFormed(text))
    BY <1>1, <2>3, UnitParts
  <2> HIDE DEF r
  <2>5. PartsAre(r, sized)
    BY <1>2, <2>4, Zenon
  <2> QED
    BY <2>1, <2>2, <2>5, Zenon
<1>6. CASE cmd = "app"
  <2>1. Parts(cmd, text) = AppParts(text)
    BY <1>6 DEF Parts
  <2>2. PartsAre(AppParts(text), FALSE)
    BY <1>1, WideParts
  <2>3. ~sized
    BY <1>6
  <2> HIDE DEF sized
  <2>4. PartsAre(AppParts(text), sized)
    BY <1>2, <2>2, <2>3, Zenon
  <2> QED
    BY <2>1, <2>4, Zenon DEF sized
<1> QED
  BY <1>4, <1>5, <1>6
------------------------------------------------------------------------------
(* The PDUs that are submitted.                                            *)

LEMMA SeptetsSome ==
  ASSUME NEW x \in Seq(SevenBit), x # <<>>
  PROVE  ToSeptets[x] # <<>>
<1> DEFINE s == [i \in DOMAIN x |-> Septets7(x[i])]
           n == Len(x)
<1>1. ToSeptets[x] = FlattenSeq(s) /\ s \in Seq(Seq(SevenBit))
  BY ToSeptetsType
<1>2. n \in Nat /\ 1 \in 1..n
  BY EmptySeq
<1>3. Len(s) = n /\ s[1] = Septets7(x[1]) /\ x[1] \in SevenBit
  BY <1>2
<1> HIDE DEF s, n
<1>4. PICK f \in [0..Len(s) -> Seq(SevenBit)] : Flattens(f, s, Len(s))
  BY <1>1, Flattening
<1>5. Flattens(f, s, n) /\ Pieces(s, n, SevenBit)
  BY <1>1, <1>3, <1>4 DEF Pieces
<1>6. /\ s[1] \in Seq(SevenBit) /\ f[1 - 1] \in Seq(SevenBit) /\ Joins(f[1], f[1 - 1], s[1])
  BY <1>2, <1>5, FlattensGrows
<1>7. Begins(f[n], f[1]) /\ FlattenSeq(s) = f[n]
  <2>1. 1 \in 0..n
    BY <1>2
  <2> QED
    BY <1>2, <1>5, <2>1, FlattensBegins, FlattensEnds
<1> DEFINE a == f[1]
           b == f[1 - 1]
           c == s[1]
           l == Len(c)
           k == Len(b)
<1>8. b \in Seq(SevenBit) /\ c \in Seq(SevenBit) /\ Joins(a, b, c)
  BY <1>6
<1>9. l \in 1..2
  BY <1>3, Septets7Type
<1> HIDE DEF a, b, c
<1>10. Len(a) = k + l /\ k \in Nat
  BY <1>8, JoinsPlaces
<1> HIDE DEF k, l
<1>11. Len(a) > 0
  BY <1>9, <1>10
<1>12. Len(a) <= Len(FlattenSeq(s))
  BY <1>7 DEF Begins, a
<1>13. FlattenSeq(s) # <<>>
  <2>1. SUFFICES ASSUME FlattenSeq(s) = <<>> PROVE FALSE
    OBVIOUS
  <2>2. Len(a) <= 0
    BY <1>12, <2>1
  <2> QED
    BY <1>10, <1>9, <1>11, <2>2
<1> QED
  BY <1>1, <1>13

LEMMA AddressIs ==
  ASSUME NEW n, IsNumber(n)
  PROVE  Address(n) \in Seq(Nat)
<1> DEFINE l == Len(Bare(n))
           b == Bare(n)
<1>1. /\ b \in Seq(Number) /\ Len(b) <= 255
      /\ Address(n) = Hex(<<l, TypeOf(n)>>) \o Invert(b)
  BY NumberIs
<1> HIDE DEF b
<1>2. l \in Octet
  <2>1. l \in Nat
    BY <1>1 DEF b
  <2> QED
    BY <1>1, <2>1, OctetIs DEF b
<1>3. TypeOf(n) \in Octet
  <2>1. TypeOf(n) = 145 \/ TypeOf(n) = 129
    BY Zenon DEF TypeOf
  <2> QED
    BY <2>1, OctetIs
<1>4. Number \subseteq Nat \ {15}
  BY DEF Number
<1>5. Invert(b) \in Seq(Nat)
  BY <1>1, <1>4, InvertType
<1> HIDE DEF l
<1>6. Hex(<<l, TypeOf(n)>>) \in Seq(Nat)
  BY <1>2, <1>3, HexTwo
<1> QED
  BY <1>1, <1>5, <1>6, AtJoin

LEMMA AddressType == Address(Own) \in Seq(Nat) /\ ValidNumber(Own) /\ IsNumber(Own)
<1>1. IsNumber(Own)
  BY NumbersAssumption
<1>2. ValidNumber(Own)
  BY <1>1 DEF IsNumber
<1> QED
  BY <1>1, <1>2, AddressIs

LEMMA ConfiguredCentre == Smsc # <<>> => ValidNumber(Smsc)
BY NumbersAssumption DEF IsNumber

\* The digits that begin an encoded octet string.
LEMMA FirstOctet ==
  ASSUME NEW U, NEW p \in Seq(U), NEW i \in Nat \ {0}, NEW l \in Octet, NEW o \in Seq(Nat),
         At(p, i, Hex(<<l>> \o o))
  PROVE  Byte(p, i) = l
<1> DEFINE q == <<l>> \o o
           n == Len(q)
           h == Hex(q)
           m == Len(h)
<1>1. l \in Nat
  BY OctetIs
<1>2. q \in Seq(Nat) /\ n \in Nat \ {0} /\ q[1] = l
  <2>1. <<l>> \in Seq(Nat) /\ Len(<<l>>) = 1 /\ <<l>>[1] = l
    BY <1>1
  <2> DEFINE s == <<l>>
  <2> HIDE DEF s
  <2>2. s \o o \in Seq(Nat) /\ Len(s \o o) = 1 + Len(o) /\ (s \o o)[1] = s[1]
    BY <2>1 DEF s
  <2> QED
    BY <2>1, <2>2 DEF s
<1> HIDE DEF q
<1>3. h \in Seq(Nat) /\ m = 2 * n
  BY <1>2, HexType
<1>4. h[1] = l \div 16 /\ h[1 + 1] = l % 16
  <2> DEFINE k == 1
             j == 1
  <2>1. k \in 1..n /\ j = 2 * k - 1
    BY <1>2
  <2> HIDE DEF k, j
  <2>2. h[j] = q[k] \div 16 /\ h[j + 1] = q[k] % 16
    BY <1>2, <2>1, HexDigits
  <2> QED
    BY <1>2, <2>2 DEF j, k
<1> HIDE DEF n, h
<1>5. 1 \in 1..m /\ 2 \in 1..m /\ m \in Nat
  BY <1>2, <1>3
<1> HIDE DEF m
<1>6. (i - 1) + m <= Len(p) /\ \A j \in 1..m : p[(i - 1) + j] = h[j]
  BY DEF At, m, h, q
<1>7. p[(i - 1) + 1] = h[1] /\ p[(i - 1) + 2] = h[2]
  BY <1>5, <1>6
<1>8. (i - 1) + 1 = i /\ (i - 1) + 2 = i + 1 /\ i + 1 <= Len(p)
  BY <1>5, <1>6
<1> QED
  BY <1>4, <1>7, <1>8, ByteIs

\* The user data begins with its length.
Measures(l, o, ud, ucs2, x) ==
    /\ ud = Hex(<<l>> \o o) /\ Hex(<<l>> \o o) \in Seq(Nat)
    /\ Fits(ucs2, x) => l <= (IF ucs2 THEN LengthUcs2 + 6 ELSE Length7 + 7) /\ l \in Octet

LEMMA UserDataIs ==
  ASSUME NEW ucs2 \in BOOLEAN, NEW x, Codable(ucs2, x), NEW i \in Nat, NEW n \in Nat
  PROVE  \E l \in Nat : \E o \in Seq(Nat) : Measures(l, o, UserData(ucs2, x, i, n), ucs2, x)
<1> DEFINE header == <<5, 0, 3, 0, n, i>>
           units == ToUnits[x]
           septets == ToSeptets[x]
           body == IF ucs2 THEN units ELSE Encode7bit(x)
           l == IF ucs2 THEN Len(units) + 6 ELSE Len(septets) + 7
           o == header \o body
<1>1. header \in Seq(Nat)
  OBVIOUS
<1>2. body \in Seq(Nat) /\ l \in Nat
  <2>1. Octet \subseteq Nat /\ SevenBit \subseteq Nat
    BY OctetIs, SevenBitIs
  <2>2. CASE ucs2
    <3>1. units \in Seq(Octet)
      BY ToUnitsType DEF Codable
    <3> HIDE DEF units
    <3>2. units \in Seq(Nat)
      BY <2>1, <3>1, SeqWithin
    <3>3. Len(units) \in Nat
      BY <3>1
    <3> QED
      BY <2>2, <3>2, <3>3
  <2>3. CASE ~ucs2
    <3>1. x \in Seq(SevenBit)
      BY <2>3 DEF Codable
    <3>2. septets \in Seq(SevenBit)
      BY <3>1, ToSeptetsType
    <3> HIDE DEF septets
    <3>3. Len(septets) \in Nat
      BY <3>2
    <3>4. Encode7bit(x) = <<Head(septets) * 2>> \o Pack[Tail(septets)]
      BY DEF Encode7bit, septets
    <3>5. septets # <<>>
      BY <3>1, SeptetsSome DEF septets, Codable
    <3>6. Head(septets) \in SevenBit /\ Tail(septets) \in Seq(SevenBit)
      BY <3>2, <3>5
    <3> DEFINE rest == Tail(septets)
               packed == Pack[rest]
    <3>a. rest \in Seq(SevenBit)
      BY <3>6
    <3> HIDE DEF rest
    <3>b. packed \in Seq(Octet)
      BY <3>a, PackType
    <3> HIDE DEF packed
    <3>c. packed \in Seq(Nat)
      BY <2>1, <3>b, SeqWithin
    <3>7. Pack[Tail(septets)] \in Seq(Nat)
      BY <3>c DEF packed, rest
    <3> DEFINE first == Head(septets)
    <3>d. first \in Nat
      BY <2>1, <3>6
    <3> HIDE DEF first
    <3>e. first * 2 \in Nat
      BY <3>d
    <3>8. Head(septets) * 2 \in Nat
      BY <3>e DEF first
    <3>9. <<Head(septets) * 2>> \o Pack[Tail(septets)] \in Seq(Nat)
      BY <3>7, <3>8
    <3> QED
      BY <2>3, <3>3, <3>4, <3>9
  <2> QED
    BY <2>2, <2>3
<1>3. UserData(ucs2, x, i, n) = Hex(<<l>> \o header \o body)
  BY Zenon DEF UserData
<1>4. Fits(ucs2, x) => l <= (IF ucs2 THEN LengthUcs2 + 6 ELSE Length7 + 7) /\ l \in Octet
  <2> SUFFICES ASSUME Fits(ucs2, x)
               PROVE  l <= (IF ucs2 THEN LengthUcs2 + 6 ELSE Length7 + 7) /\ l \in Octet
    OBVIOUS
  <2>1. CASE ucs2
    <3> DEFINE m == Len(units)
    <3>1. m <= LengthUcs2 /\ l = m + 6
      BY <2>1 DEF Fits
    <3>2. m + 6 \in Nat
      BY <1>2, <2>1
    <3>3. units \in Seq(Octet)
      BY ToUnitsType DEF Codable
    <3>4. m \in Nat
      BY <3>3
    <3> HIDE DEF m
    <3>5. m + 6 <= LengthUcs2 + 6 /\ m + 6 <= 255
      BY <3>1, <3>4, LimitsAre
    <3> QED
      BY <2>1, <3>1, <3>2, <3>5, OctetIs
  <2>2. CASE ~ucs2
    <3> DEFINE m == Len(septets)
    <3>1. m <= Length7 /\ l = m + 7
      BY <2>2 DEF Fits
    <3>2. m + 7 \in Nat
      BY <1>2, <2>2
    <3>3. septets \in Seq(SevenBit)
      BY <2>2, ToSeptetsType DEF Codable
    <3>4. m \in Nat
      BY <3>3
    <3> HIDE DEF m
    <3>5. m + 7 <= Length7 + 7 /\ m + 7 <= 255
      BY <3>1, <3>4, LimitsAre
    <3> QED
      BY <2>2, <3>1, <3>2, <3>5, OctetIs
  <2> QED
    BY <2>1, <2>2
<1> HIDE DEF header, body
<1>5. o \in Seq(Nat)
  BY <1>1, <1>2
<1>6. <<l>> \o header \o body = <<l>> \o o
  <2> HIDE DEF l
  <2>1. <<l>> \in Seq(Nat)
    BY <1>2
  <2> QED
    BY <1>1, <1>2, <2>1, ConcatAssociative
<1>7. Hex(<<l>> \o o) \in Seq(Nat)
  <2> HIDE DEF l, o
  <2>1. <<l>> \o o \in Seq(Nat)
    BY <1>2, <1>5
  <2> QED
    BY <2>1, HexType
<1> HIDE DEF l, o
<1>8. Measures(l, o, UserData(ucs2, x, i, n), ucs2, x)
  BY <1>3, <1>4, <1>6, <1>7, Zenon DEF Measures
<1> QED
  BY <1>2, <1>5, <1>8, Zenon

\* A PDU goes to the span's own number.
Goes(p) ==
    /\ p \in Seq(Int) /\ SubmittedTo(p) = Own
    /\ Smsc = <<>> => SendNumber(p) = Without(Plus, Own)
\* Its user data is no longer than its alphabet allows.
Sizes(p) ==
    Byte(p, BehindDestination(p) + 6) <=
        IF Byte(p, BehindDestination(p) + 2) = 8 THEN LengthUcs2 + 6 ELSE Length7 + 7

\* Three octets of the header.
LEMMA HexThree ==
  ASSUME NEW U, Nat \subseteq U, NEW x \in Octet
  PROVE  /\ <<0, x, 0>> \in Seq(Octet) /\ Hex(<<0, x, 0>>) \in Seq(U)
         /\ Len(Hex(<<0, x, 0>>)) = 6 /\ <<0, x, 0>>[2] = x
<1> DEFINE o == <<0, x, 0>>
           l == Len(o)
           m == Len(Hex(o))
<1>1. 0 \in Octet /\ Octet \subseteq Nat
  BY OctetIs
<1>2. o \in Seq(Octet) /\ l = 3 /\ o[2] = x
  BY <1>1
<1> HIDE DEF o
<1>3. o \in Seq(Nat)
  BY <1>1, <1>2, SeqWithin
<1>4. Hex(o) \in Seq(Nat) /\ m = 2 * l
  BY <1>3, HexType
<1>5. Hex(o) \in Seq(U)
  <2> DEFINE h == Hex(o)
  <2>1. h \in Seq(Nat)
    BY <1>4
  <2> HIDE DEF h
  <2>2. h \in Seq(U)
    BY <2>1, SeqWithin
  <2> QED
    BY <2>2 DEF h
<1> HIDE DEF l, m
<1>6. m = 6
  BY <1>2, <1>4
<1> QED
  BY <1>2, <1>5, <1>6 DEF o, m

\* gsm_encode_pdu: every part goes to the number, and one that fits has its length.
LEMMA Encoded ==
  ASSUME NEW ucs2 \in BOOLEAN, NEW x, Codable(ucs2, x), NEW i \in Nat, NEW n \in Nat,
         NEW p, p = EncodePdu(Smsc, Own, ucs2, x, i, n)
  PROVE  Goes(p) /\ (Fits(ucs2, x) => Sizes(p))
<1> DEFINE dcs == IF ucs2 THEN 8 ELSE 0
           c == SmscField(Smsc)
           h == Hex(<<113, 0>>)
           a == Address(Own)
           h3 == Hex(<<0, dcs, 0>>)
           ud == UserData(ucs2, x, i, n)
           r == h3 \o ud
<1>1. p = c \o h \o a \o h3 \o ud
  BY AddressType, ConfiguredCentre, Zenon DEF EncodePdu
<1>2. PICK l \in Nat : \E o \in Seq(Nat) : Measures(l, o, ud, ucs2, x)
  BY UserDataIs, Zenon
<1>3. PICK o \in Seq(Nat) :
            /\ ud = Hex(<<l>> \o o) /\ Hex(<<l>> \o o) \in Seq(Nat)
            /\ Fits(ucs2, x) => l <= (IF ucs2 THEN LengthUcs2 + 6 ELSE Length7 + 7) /\ l \in Octet
  BY <1>2, Zenon DEF Measures
<1>4. dcs \in Octet /\ 113 \in Octet /\ 0 \in Octet /\ Nat \subseteq Int
  BY OctetIs
<1> HIDE DEF ud, dcs
<1>5. c \in Seq(Nat) /\ h \in Seq(Nat) /\ a \in Seq(Nat) /\ ud \in Seq(Nat)
  BY <1>3, <1>4, CentreIs, HexTwo, AddressType
<1>6. h3 \in Seq(Int) /\ Len(h3) = 6 /\ <<0, dcs, 0>> \in Seq(Octet) /\ <<0, dcs, 0>>[2] = dcs
  BY <1>4, HexThree
<1> HIDE DEF c, h, a, h3
<1>7. c \in Seq(Int) /\ h \in Seq(Int) /\ a \in Seq(Int) /\ ud \in Seq(Int)
  <2>1. \A s \in Seq(Nat) : s \in Seq(Int)
    BY <1>4, SeqWithin, Zenon
  <2> QED
    BY <1>5, <2>1, Zenon
<1>8. p = c \o h \o a \o r
  <2>1. h3 \in Seq(Int)
    BY <1>6
  <2> DEFINE z == c \o h \o a
  <2>3. z \in Seq(Int)
    BY <1>7
  <2> HIDE DEF z
  <2> DEFINE V == Int
  <2>5. z \in Seq(V) /\ h3 \in Seq(V) /\ ud \in Seq(V)
    BY <1>7, <2>1, <2>3
  <2> HIDE DEF V
  <2>4. (z \o h3) \o ud = z \o (h3 \o ud)
    BY <2>5, ConcatAssociative
  <2>2. c \o h \o a \o h3 \o ud = c \o h \o a \o (h3 \o ud)
    BY <2>4, Zenon DEF z
  <2> QED
    BY <1>1, <2>2, Zenon
<1>9. r \in Seq(Int) /\ At(r, 1, h3) /\ At(r, Len(h3) + 1, ud)
  BY <1>6, <1>7, AtJoin
<1> HIDE DEF r
<1> DEFINE bd == BehindDestination(p)
<1>10. /\ p \in Seq(Int) /\ bd \in Nat \ {0} /\ At(p, bd, r) /\ SubmittedTo(p) = Own
       /\ Smsc = <<>> => SendNumber(p) = Without(Plus, Own)
  <2> DEFINE f == 113
  <2>1. p = SmscField(Smsc) \o Hex(<<f, 0>>) \o Address(Own) \o r
    BY <1>8, Zenon DEF c, h, a
  <2>2. f \in Octet /\ r \in Seq(Int)
    BY <1>4, <1>9
  <2> HIDE DEF f
  <2> QED
    BY <1>4, <2>1, <2>2, Fields, Zenon DEF bd
<1>11. Goes(p)
  BY <1>10 DEF Goes
<1> HIDE DEF bd
<1>12. At(p, bd, h3)
  <2>1. At(p, (bd - 1) + 1, h3)
    <3>1. 1 \in Nat \ {0}
      OBVIOUS
    <3> QED
      BY <1>6, <1>9, <1>10, <3>1, AtInner
  <2>2. (bd - 1) + 1 = bd
    BY <1>10
  <2> QED
    BY <2>1, <2>2
<1>13. Byte(p, bd + 2) = dcs
  <2> DEFINE t == <<0, dcs, 0>>
             k == 2
             j == bd + 2
  <2>1. t \in Seq(Octet) /\ Len(t) = 3 /\ t[k] = dcs /\ h3 = Hex(t)
    BY <1>6 DEF h3
  <2>2. k \in 1..Len(t) /\ j = bd + 2 * (k - 1)
    BY <1>10, <2>1
  <2> HIDE DEF t, k, j
  <2>3. At(p, bd, Hex(t))
    BY <1>12, <2>1
  <2>5. p \in Seq(Int) /\ bd \in Nat \ {0}
    BY <1>10, Zenon
  <2>6. t \in Seq(Octet) /\ k \in 1..Len(t) /\ j = bd + 2 * (k - 1)
    BY <2>1, <2>2, Zenon
  <2>4. Byte(p, j) = t[k]
    BY <2>3, <2>5, <2>6, AtOctet
  <2> QED
    BY <2>1, <2>4 DEF j
<1>14. ASSUME Fits(ucs2, x) PROVE Sizes(p)
  <2>1. l \in Octet /\ l <= (IF ucs2 THEN LengthUcs2 + 6 ELSE Length7 + 7)
    BY <1>3, <1>14
  <2>2. At(p, bd + 6, Hex(<<l>> \o o))
    <3>1. At(p, (bd - 1) + (Len(h3) + 1), ud)
      <4>1. Len(h3) + 1 \in Nat \ {0}
        BY <1>6
      <4> QED
        BY <1>7, <1>9, <1>10, <4>1, AtInner
    <3>2. (bd - 1) + (Len(h3) + 1) = bd + 6
      BY <1>6, <1>10
    <3> QED
      BY <1>3, <3>1, <3>2
  <2>3. bd + 6 \in Nat \ {0}
    BY <1>10
  <2>4. Byte(p, bd + 6) = l
    BY <1>10, <2>1, <2>2, <2>3, FirstOctet
  <2>5. (dcs = 8) <=> ucs2
    BY DEF dcs
  <2>6. Byte(p, BehindDestination(p) + 6) = l /\ (Byte(p, BehindDestination(p) + 2) = 8 <=> ucs2)
    BY <1>13, <2>4, <2>5 DEF bd
  <2> QED
    BY <2>1, <2>6, Zenon DEF Sizes
<1> QED
  BY <1>11, <1>14

LEMMA SubSeqIn ==
  ASSUME NEW V, NEW s \in Seq(V), NEW m \in Nat \ {0}, NEW n \in Int, n <= Len(s)
  PROVE  SubSeq(s, m, n) \in Seq(V)
<1>1. \A i \in m..n : s[i] \in V
  OBVIOUS
<1> QED
  BY <1>1, SubSeqProperties

LEMMA CopiedType ==
  ASSUME NEW V, NEW p \in Seq(V), NEW i \in Nat \ {0}, NEW n \in Nat
  PROVE  Copied(p, i, n) \in Seq(V)
<1> DEFINE l == Len(p)
           e == IF i + n > l THEN l ELSE i + n - 1
<1>1. l \in Nat
  OBVIOUS
<1> HIDE DEF l
<1>2. e \in Int /\ e <= l
  BY <1>1
<1> HIDE DEF e
<1>3. SubSeq(p, i, e) \in Seq(V)
  BY <1>2, SubSeqIn DEF l
<1> QED
  BY <1>3 DEF Copied, e, l

\* What is decoded from an octet is a number.
LEMMA EvenByte ==
  ASSUME NEW p, NEW i
  PROVE  Byte(p, i) \in Nat /\ Even(Byte(p, i)) \in Nat
<1> DEFINE b == Byte(p, i)
<1>1. b \in Nat
  BY ByteType, OctetIs
<1> HIDE DEF b
<1>2. Even(b) \in Nat
  BY <1>1 DEF Even
<1> QED
  BY <1>1, <1>2 DEF b

\* allogsm_forward_pdu, whatever it is given.
LEMMA ForwardedIn ==
  ASSUME NEW V, Nat \subseteq V, NEW q \in Seq(V), NEW p, p = ForwardPdu(q, Own, Smsc)
  PROVE  /\ p \in Seq(V) /\ SubmittedTo(p) = Own
         /\ Smsc = <<>> => SendNumber(p) = Without(Plus, Own)
<1> DEFINE oa == 5 + 2 * Byte(q, 1)
           pid == oa + 4 + Even(Byte(q, oa))
           f == 49
           c == SmscField(Smsc)
           h == Hex(<<f, 0>>)
           a == Address(Own)
           s1 == Copied(q, pid, 4)
           s2 == IF pid + 3 > Len(q) THEN <<>> ELSE Hex(<<0>>) \o SubSeq(q, pid + 18, Len(q))
           r == s1 \o s2
<1>1. p = c \o h \o a \o s1 \o s2
  BY Zenon DEF ForwardPdu
<1>2. pid \in Nat \ {0}
  <2>1. \A i : Byte(q, i) \in Nat /\ Even(Byte(q, i)) \in Nat
    BY EvenByte, Zenon
  <2>2. oa \in Nat
    BY <2>1
  <2> HIDE DEF oa
  <2> DEFINE e == Even(Byte(q, oa))
  <2>3. e \in Nat
    BY <2>1
  <2> HIDE DEF e
  <2>4. oa + 4 + e \in Nat \ {0}
    BY <2>2, <2>3
  <2> QED
    BY <2>4 DEF e
<1> HIDE DEF pid
<1>3. f \in Octet /\ 0 \in Octet /\ Nat \subseteq V
  BY OctetIs
<1> HIDE DEF f
<1>4. s1 \in Seq(V)
  BY <1>2, CopiedType
<1>5. s2 \in Seq(V)
  <2> DEFINE l == Len(q)
             z == Hex(<<0>>)
             t == SubSeq(q, pid + 18, l)
  <2>1. l \in Nat /\ pid + 18 \in Nat \ {0}
    BY <1>2
  <2>2. t \in Seq(V)
    BY <2>1, SubSeqIn
  <2>3. z \in Seq(Nat)
    BY <1>3, HexOne
  <2> HIDE DEF z, t, l
  <2>4. z \in Seq(V)
    BY <1>3, <2>3, SeqWithin
  <2>5. z \o t \in Seq(V) /\ <<>> \in Seq(V)
    BY <2>2, <2>4
  <2> QED
    BY <2>5 DEF z, t, l
<1>6. c \in Seq(Nat) /\ h \in Seq(Nat) /\ a \in Seq(Nat)
  BY <1>3, CentreIs, HexTwo, AddressType
<1> HIDE DEF c, h, a, s1, s2
<1>7. c \in Seq(V) /\ h \in Seq(V) /\ a \in Seq(V)
  <2>1. \A s \in Seq(Nat) : s \in Seq(V)
    BY <1>3, SeqWithin, Zenon
  <2> QED
    BY <1>6, <2>1, Zenon
<1>8. p = c \o h \o a \o r
  <2> DEFINE z == c \o h \o a
  <2>1. z \in Seq(V)
    BY <1>7
  <2> HIDE DEF z
  <2>2. (z \o s1) \o s2 = z \o (s1 \o s2)
    BY <1>4, <1>5, <2>1, ConcatAssociative
  <2> QED
    BY <1>1, <2>2, Zenon DEF z
<1>9. r \in Seq(V)
  BY <1>4, <1>5
<1> HIDE DEF r
<1>10. p = SmscField(Smsc) \o Hex(<<f, 0>>) \o Address(Own) \o r
  BY <1>8, Zenon DEF c, h, a
<1> QED
  BY <1>3, <1>9, <1>10, Fields, Zenon

LEMMA Forwarded ==
  ASSUME NEW q \in Seq(Int), NEW p, p = ForwardPdu(q, Own, Smsc)
  PROVE  Goes(p)
<1>1. Nat \subseteq Int
  OBVIOUS
<1>2. /\ p \in Seq(Int) /\ SubmittedTo(p) = Own
      /\ Smsc = <<>> => SendNumber(p) = Without(Plus, Own)
  BY <1>1, ForwardedIn, Zenon
<1> QED
  BY <1>2, Zenon DEF Goes
------------------------------------------------------------------------------
(* What is written and read.                                               *)

\* The first place at which something holds, or 0.
LEMMA MinIs ==
  ASSUME NEW S \in SUBSET Nat, S # {}
  PROVE  Min(S) \in S
<1>1. \E m \in S : \A t \in S : m <= t
  BY Least
<1> QED
  BY <1>1, Zenon DEF Min

LEMMA SanType ==
  ASSUME NEW b \in Seq(Int)
  PROVE  San[b].line \in Seq(Int) /\ San[b].rest \in Seq(Int)
<1> DEFINE a == Append(b, 0)
           S == {i \in 1..Len(a) : a[i] \notin Ends}
           skip == (IF S # {} THEN Min(S) ELSE 0) - 1
           n == Len(b)
           E == {i \in (skip + 1)..n : b[i] = CR}
           end == IF E # {} THEN Min(E) ELSE 0
           behind == SubSeq(b, skip + 1, n)
           next == IF end < n /\ b[end + 1] = LF THEN end + 2 ELSE end
           one == [line |-> SubSeq(b, skip + 1, end - 1), rest |-> SubSeq(b, next, n), more |-> TRUE]
           two == [line |-> behind, rest |-> <<>>, more |-> TRUE]
           three == [line |-> <<>>, rest |-> <<>>, more |-> FALSE]
           four == [line |-> behind, rest |-> b, more |-> FALSE]
<1>1. San[b] = CASE end > 0 -> one
                 [] end = 0 /\ behind \in Prompts -> two
                 [] end = 0 /\ behind = <<>> -> three
                 [] OTHER -> four
  BY DEF San, SelectInSeq, SelectInSubSeq
<1>2. n \in Nat /\ Len(a) = n + 1 /\ a[n + 1] = 0
  OBVIOUS
<1>3. skip \in Nat
  <2>1. n + 1 \in S
    BY <1>2 DEF Ends, CR, LF
  <2>2. S \in SUBSET Nat /\ \A i \in S : i \in Nat \ {0}
    OBVIOUS
  <2> HIDE DEF S
  <2>3. Min(S) \in S
    BY <2>1, <2>2, MinIs, Zenon
  <2>4. Min(S) \in Nat \ {0}
    BY <2>2, <2>3, Zenon
  <2> QED
    BY <2>1, <2>4
<1> HIDE DEF skip, n
<1>4. end \in 0..n
  <2>1. E \in SUBSET Nat /\ \A i \in E : i \in 0..n
    BY <1>2, <1>3
  <2> HIDE DEF E
  <2>2. E # {} => Min(E) \in E
    BY <2>1, MinIs, Zenon
  <2>3. E # {} => Min(E) \in 0..n
    BY <2>1, <2>2, Zenon
  <2> QED
    BY <1>2, <2>3
<1> HIDE DEF end
<1>5. \A k \in Nat \ {0}, l \in Int : l <= n => SubSeq(b, k, l) \in Seq(Int)
  BY SubSeqIn DEF n
<1>6. behind \in Seq(Int)
  <2>1. skip + 1 \in Nat \ {0} /\ n \in Int /\ n <= n
    BY <1>2, <1>3
  <2> QED
    BY <1>5, <2>1, Zenon
<1>7. ASSUME end > 0 PROVE SubSeq(b, skip + 1, end - 1) \in Seq(Int) /\ SubSeq(b, next, n) \in Seq(Int)
  <2>1. skip + 1 \in Nat \ {0} /\ end - 1 \in Int /\ end - 1 <= n
    BY <1>2, <1>3, <1>4
  <2>2. next \in Nat \ {0} /\ n \in Int /\ n <= n
    BY <1>2, <1>4, <1>7
  <2> QED
    BY <1>5, <2>1, <2>2, Zenon
<1>8. <<>> \in Seq(Int)
  OBVIOUS
<1> HIDE DEF behind, next
<1>9. CASE end > 0
  <2>1. San[b] = one
    BY <1>1, <1>9
  <2> QED
    BY <1>7, <1>9, <2>1
<1>10. CASE ~(end > 0)
  <2>1. San[b] \in {two, three, four}
    BY <1>1, <1>4, <1>10
  <2>2. two.line \in Seq(Int) /\ two.rest \in Seq(Int)
    BY <1>6, <1>8
  <2>3. three.line \in Seq(Int) /\ three.rest \in Seq(Int)
    BY <1>8
  <2>4. four.line \in Seq(Int) /\ four.rest \in Seq(Int)
    BY <1>6
  <2> HIDE DEF two, three, four
  <2> QED
    BY <2>1, <2>2, <2>3, <2>4, Zenon
<1> QED
  BY <1>9, <1>10

LEMMA CollectedType ==
  ASSUME NEW a \in Seq(Int), NEW s \in Seq(Seq(Int)), NEW n \in DOMAIN s, NEW capacity
  PROVE  /\ Collects(a, FlattenSeq(SubSeq(s, 1, n)), capacity) \in Seq(Int)
         /\ SubSeq(s, n + 1, Len(s)) \in Seq(Seq(Int))
<1> DEFINE W == Seq(Int)
           l == Len(s)
<1>1. s \in Seq(W) /\ l \in Nat /\ n \in 1..l
  OBVIOUS
<1> HIDE DEF W
<1>2. SubSeq(s, n + 1, l) \in Seq(W) /\ SubSeq(s, 1, n) \in Seq(W)
  <2>1. n + 1 \in Nat \ {0} /\ 1 \in Nat \ {0} /\ l \in Int /\ n \in Int /\ l <= l /\ n <= l
    BY <1>1
  <2> QED
    BY <1>1, <2>1, SubSeqIn DEF l
<1> DEFINE c == SubSeq(s, 1, n)
           f == FlattenSeq(c)
<1>3. c \in Seq(Seq(Int))
  BY <1>2 DEF W
<1> HIDE DEF c
<1>4. f \in Seq(Int)
  BY <1>3, FlattenType
<1> HIDE DEF f
<1>5. a \o f \in Seq(Int) /\ <<>> \in Seq(Int)
  BY <1>4
<1>6. Collects(a, f, capacity) \in Seq(Int)
  BY <1>5, Zenon DEF Collects
<1> QED
  BY <1>2, <1>6 DEF f, c, W, l

LEMMA DigitsType ==
  ASSUME NEW V, Nat \subseteq V
  PROVE  Centre \in Seq(V) /\ Stamp \in Seq(V)
<1> DEFINE h == Hex(<<2, 145>>)
           t == <<2, 1>>
<1>1. 2 \in Octet /\ 145 \in Octet
  BY OctetIs
<1>2. h \in Seq(Nat)
  BY <1>1, HexTwo
<1>3. t \in Seq(Nat) /\ Stamp \in Seq(Nat)
  BY DEF Stamp
<1> HIDE DEF h, t
<1>4. h \o t \in Seq(Nat)
  BY <1>2, <1>3
<1>5. Centre \in Seq(Nat)
  BY <1>4, Zenon DEF Centre, h, t
<1> QED
  BY <1>3, <1>5, SeqWithin, Zenon

LEMMA JoinSome ==
  ASSUME NEW V, NEW x \in Seq(V), NEW y \in Seq(V), x # <<>> \/ y # <<>>
  PROVE  x \o y \in Seq(V) /\ x \o y # <<>>
<1>1. x # <<>> => Len(x) > 0
  OBVIOUS
<1>2. y # <<>> => Len(y) > 0
  OBVIOUS
<1>3. Len(x \o y) = Len(x) + Len(y) /\ Len(x) >= 0 /\ Len(y) >= 0
  OBVIOUS
<1>4. Len(x \o y) > 0
  BY <1>1, <1>2, <1>3
<1> QED
  BY <1>4

LEMMA DeliveredType ==
  ASSUME NEW V, Nat \subseteq V, NEW p \in Seq(V)
  PROVE  Delivered(p) \in Seq(V) /\ Delivered(p) # <<>>
<1> DEFINE b == Byte(p, DestinationAt(p) - 4)
           udhi == (b \div 64) % 2
           pid == BehindDestination(p)
           h == Hex(<<4 + 64 * udhi>>)
           a == Address(Own)
           s1 == Copied(p, pid, 4)
           s2 == SubSeq(p, pid + 6, Len(p))
<1>1. pid \in Nat \ {0}
  <2> DEFINE d == DestinationAt(p)
             e == Even(Byte(p, DestinationAt(p)))
  <2>1. d \in Nat
    BY EvenByte DEF DestinationAt
  <2>2. e \in Nat
    BY EvenByte, Zenon
  <2>3. pid = d + 4 + e
    BY DEF BehindDestination
  <2> HIDE DEF d, e, pid
  <2> QED
    BY <2>1, <2>2, <2>3
<1>2. 4 + 64 * udhi \in Octet
  <2>1. b \in Nat
    BY EvenByte, Zenon
  <2> HIDE DEF b
  <2>2. udhi \in 0..1
    BY <2>1
  <2> HIDE DEF udhi
  <2>3. 4 + 64 * udhi \in Nat /\ 4 + 64 * udhi <= 255
    BY <2>2
  <2> QED
    BY <2>3, OctetIs
<1> HIDE DEF b, pid, udhi
<1>3. h \in Seq(Nat)
  BY <1>2, HexOne
<1>4. a \in Seq(Nat)
  BY AddressType
<1>5. s1 \in Seq(V)
  BY <1>1, CopiedType
<1>6. s2 \in Seq(V)
  <2> DEFINE l == Len(p)
  <2>1. l \in Int /\ l <= l /\ pid + 6 \in Nat \ {0}
    BY <1>1
  <2> QED
    BY <2>1, SubSeqIn DEF l
<1> HIDE DEF h, a, s1, s2
<1>7. h \in Seq(V) /\ a \in Seq(V) /\ Centre \in Seq(V) /\ Stamp \in Seq(V)
  BY <1>3, <1>4, DigitsType, SeqWithin, Zenon
<1>8. Delivered(p) = Centre \o h \o a \o s1 \o Stamp \o s2
  BY Zenon DEF Delivered, h, a, s1, s2, udhi, b, pid
<1>9. \A x \in Seq(V), y \in Seq(V) : x \o y \in Seq(V)
  OBVIOUS
<1>10. Centre \o h \o a \in Seq(V)
  BY <1>7, <1>9, Zenon
<1>11. Centre \o h \o a \o s1 \in Seq(V)
  BY <1>5, <1>7, <1>9, <1>10, Zenon
<1>12. Stamp # <<>>
  BY DEF Stamp
<1>13. /\ Centre \o h \o a \o s1 \o Stamp \in Seq(V)
       /\ Centre \o h \o a \o s1 \o Stamp # <<>>
  BY <1>7, <1>11, <1>12, JoinSome, Zenon
<1>14. /\ Centre \o h \o a \o s1 \o Stamp \o s2 \in Seq(V)
       /\ Centre \o h \o a \o s1 \o Stamp \o s2 # <<>>
  BY <1>6, <1>13, JoinSome, Zenon
<1> QED
  BY <1>8, <1>14, Zenon

LEMMA FromPhoneType ==
  ASSUME NEW V, Nat \subseteq V, NEW text \in PhoneTexts
  PROVE  /\ FromPhone(text) \in Seq(V) /\ FromPhone(text) # <<>>
         /\ text \in Seq(V) /\ text # <<>>
<1>1. text \in Seq(Octet) /\ text # <<>>
  BY MessageIs
<1>2. \A s \in Seq(Nat) : s \in Seq(V)
  BY SeqWithin, Zenon
<1>3. Octet \subseteq Nat /\ SevenBit \subseteq Nat
  BY OctetIs, SevenBitIs
<1>4. text \in Seq(Nat)
  BY <1>1, <1>3, SeqWithin, Zenon
<1> DEFINE h == Hex(<<4>>)
           a == Address(Phone)
           h7 == Hex(<<0, 0>>)
           h8 == Hex(<<0, 8>>)
           septets == ToSeptets[text]
           units == ToUnits[text]
           d7 == Hex(<<Len(septets)>> \o Pack[septets])
           d8 == Hex(<<Len(units)>> \o units)
           tail == IF IsAscii(text) THEN h7 \o Stamp \o d7 ELSE h8 \o Stamp \o d8
<1>5. h \in Seq(V) /\ h7 \in Seq(V) /\ h8 \in Seq(V)
  <2>1. 4 \in Octet /\ 0 \in Octet /\ 8 \in Octet
    BY OctetIs
  <2>2. h \in Seq(Nat)
    BY <2>1, HexOne
  <2>3. h7 \in Seq(Nat)
    BY <2>1, HexTwo
  <2>4. h8 \in Seq(Nat)
    BY <2>1, HexTwo
  <2> QED
    BY <1>2, <2>2, <2>3, <2>4, Zenon
<1>6. a \in Seq(V)
  <2>1. IsNumber(Phone)
    BY NumbersAssumption
  <2>2. a \in Seq(Nat)
    BY <2>1, AddressIs
  <2> QED
    BY <1>2, <2>2, Zenon
<1>7. ASSUME NEW s, s \in Seq(Nat) PROVE Hex(<<Len(s)>> \o s) \in Seq(V)
  <2> DEFINE l == Len(s)
             t == <<l>>
             o == t \o s
  <2>1. t \in Seq(Nat)
    BY <1>7
  <2> HIDE DEF t
  <2>2. o \in Seq(Nat)
    BY <1>7, <2>1
  <2> HIDE DEF o
  <2>3. Hex(o) \in Seq(Nat)
    BY <2>2, HexType
  <2> QED
    BY <1>2, <2>3, Zenon DEF o, t
<1>8. d8 \in Seq(V)
  <2>1. units \in Seq(Octet)
    BY <1>1, ToUnitsType
  <2> HIDE DEF units
  <2>2. units \in Seq(Nat)
    BY <1>3, <2>1, SeqWithin
  <2> QED
    BY <1>7, <2>2, Zenon
<1>9. IsAscii(text) => d7 \in Seq(V)
  <2> SUFFICES ASSUME IsAscii(text) PROVE d7 \in Seq(V)
    OBVIOUS
  <2>1. ASSUME NEW i \in 1..Len(text) PROVE ~(text[i] >= 128)
    <3>1. text[i] < 128 /\ text[i] \in Nat
      BY <1>4 DEF IsAscii
    <3> QED
      BY <3>1
  <2>2. text \in Seq(SevenBit)
    BY <1>1, <2>1, AsciiOnly
  <2>3. septets \in Seq(SevenBit)
    BY <2>2, ToSeptetsType
  <2> HIDE DEF septets
  <2> DEFINE packed == Pack[septets]
  <2>4. packed \in Seq(Octet)
    BY <2>3, PackType
  <2> HIDE DEF packed
  <2>5. packed \in Seq(Nat)
    BY <1>3, <2>4, SeqWithin
  <2> DEFINE l == Len(septets)
             t == <<l>>
             o == t \o packed
  <2>6. l \in Nat
    BY <2>3
  <2> HIDE DEF l
  <2>7. t \in Seq(Nat)
    BY <2>6
  <2> HIDE DEF t
  <2>8. o \in Seq(Nat)
    BY <2>5, <2>7
  <2> HIDE DEF o
  <2>9. Hex(o) \in Seq(Nat)
    BY <2>8, HexType
  <2> QED
    BY <1>2, <2>9, Zenon DEF o, t, l, packed
<1> HIDE DEF h, a, h7, h8, d7, d8
<1>10. FromPhone(text) = Centre \o h \o a \o tail
  BY Zenon DEF FromPhone, h, a, h7, h8, d7, d8
<1>11. Stamp \in Seq(V) /\ Centre \in Seq(V)
  BY DigitsType
<1>12. \A x \in Seq(V), y \in Seq(V) : x \o y \in Seq(V)
  OBVIOUS
<1>13. tail \in Seq(V)
  <2>1. CASE IsAscii(text)
    BY <1>5, <1>9, <1>11, <1>12, <2>1, Zenon
  <2>2. CASE ~IsAscii(text)
    BY <1>5, <1>8, <1>11, <1>12, <2>2, Zenon
  <2> QED
    BY <2>1, <2>2
<1> HIDE DEF tail
<1>14. Centre # <<>>
  <2>1. Hex(<<2, 145>>) \in Seq(Nat)
    <3>1. 2 \in Octet /\ 145 \in Octet
      BY OctetIs
    <3> QED
      BY <3>1, HexTwo
  <2>2. <<2, 1>> \in Seq(Nat) /\ <<2, 1>> # <<>>
    OBVIOUS
  <2>3. Hex(<<2, 145>>) \o <<2, 1>> # <<>>
    BY <2>1, <2>2, JoinSome, Zenon
  <2> QED
    BY <2>3, Zenon DEF Centre
<1>15. Centre \o h \in Seq(V) /\ Centre \o h # <<>>
  BY <1>2, <1>5, <1>6, <1>11, <1>14, JoinSome, Zenon
<1>16. Centre \o h \o a \in Seq(V) /\ Centre \o h \o a # <<>>
  BY <1>2, <1>5, <1>6, <1>15, JoinSome, Zenon
<1>17. Centre \o h \o a \o tail \in Seq(V) /\ Centre \o h \o a \o tail # <<>>
  BY <1>13, <1>16, JoinSome, Zenon
<1> QED
  BY <1>1, <1>2, <1>4, <1>10, <1>17, Zenon

LEMMA LinesType ==
  ASSUME NEW header \in Int, NEW body \in Seq(Int)
  PROVE  Lines(header, body) \in Seq(Seq(Int)) /\ Prompt \in Seq(Seq(Int))
<1> DEFINE n == Len(body)
           half == n \div 2
           V == Int
           a == <<CR, LF, header, CR>>
           b == <<LF>>
           c == SubSeq(body, 1, half)
           d == SubSeq(body, half + 1, n)
           e == <<CR, LF>>
           W == Seq(V)
<1>1. n \in Nat /\ half \in Nat /\ half <= n
  OBVIOUS
<1>2. CR \in V /\ LF \in V /\ GT \in V /\ SP \in V /\ header \in V
  BY DEF CR, LF, GT, SP
<1>3. c \in W /\ d \in W
  <2>1. 1 \in Nat \ {0} /\ half + 1 \in Nat \ {0} /\ half \in Int /\ n \in Int /\ n <= n
    BY <1>1
  <2> QED
    BY <1>1, <2>1, SubSeqIn DEF n
<1> HIDE DEF V, c, d
<1>4. a \in W /\ b \in W /\ e \in W /\ <<CR, LF, GT>> \in W /\ <<SP>> \in W
  BY <1>2
<1> HIDE DEF a, b, e
<1>5. d \o e \in W
  BY <1>3, <1>4
<1>6. Lines(header, body) = <<a, b, c, d \o e>>
  BY Zenon DEF Lines, a, b, c, d, e, half, n
<1> DEFINE f == d \o e
           g == <<CR, LF, GT>>
           h == <<SP>>
<1> HIDE DEF W, f, g, h
<1>7. <<a, b, c, f>> \in Seq(W) /\ <<g, h>> \in Seq(W)
  BY <1>3, <1>4, <1>5 DEF f, g, h
<1> QED
  BY <1>6, <1>7, Zenon DEF W, V, f, g, h, Prompt
------------------------------------------------------------------------------
(* The invariant: what goes on its way belongs to a text that was asked    *)
(* for, goes to its number and fits; buffers hold characters.              *)
WellFormedTexts == \A text \in Messages : WellFormed(text)
Parcels == todo \cup sending \cup air
Readable == stream \in Seq(Seq(Int)) /\ acc \in Seq(Int) /\ san \in Seq(Int)
Histories == asked \in Seq(ToSet(asked)) /\ inbox \in Seq(ToSet(inbox))
Reports == \A k \in DOMAIN inbox : inbox[k].pdu \in Seq(Int)
Parcel(t) == Goes(t.pdu) /\ t.number = SendNumber(t.pdu)
OwnSize(t) == asked[t.id].cmd \in {"file", "sms"} /\ WellFormedTexts => Sizes(t.pdu)
IInv ==
    /\ Readable /\ Histories /\ Reports
    /\ \A t \in Parcels : t.id \in Ids /\ Parcel(t) /\ OwnSize(t)

LEMMA AppendIs ==
  ASSUME NEW s, s \in Seq(ToSet(s)), NEW x
  PROVE  /\ Append(s, x) \in Seq(ToSet(Append(s, x)))
         /\ Len(s) + 1 \in DOMAIN Append(s, x) /\ Append(s, x)[Len(s) + 1] = x
         /\ \A i \in DOMAIN s : /\ i \in DOMAIN Append(s, x) /\ Append(s, x)[i] = s[i]
                                /\ i # Len(s) + 1
         /\ \A i \in DOMAIN Append(s, x) : i \in DOMAIN s \/ i = Len(s) + 1
<1> DEFINE V == ToSet(s)
           W == V \cup {x}
           a == Append(s, x)
           n == Len(s)
<1>1. s \in Seq(V)
  OBVIOUS
<1> HIDE DEF V
<1>2. s \in Seq(W) /\ x \in W /\ n \in Nat
  BY <1>1, SeqWithin
<1> HIDE DEF W
<1>3. /\ a \in Seq(W) /\ Len(a) = n + 1 /\ a[n + 1] = x /\ DOMAIN a = 1..(n + 1)
      /\ DOMAIN s = 1..n /\ \A i \in 1..n : a[i] = s[i]
  BY <1>2
<1> HIDE DEF a, n
<1>4. a \in Seq(ToSet(a))
  <2>1. \A i \in 1..(n + 1) : a[i] \in ToSet(a)
    BY <1>3, Zenon DEF ToSet
  <2>2. a = [i \in 1..(n + 1) |-> a[i]]
    BY <1>3
  <2> DEFINE T == ToSet(a)
  <2> HIDE DEF T
  <2>3. \A i \in 1..(n + 1) : a[i] \in T
    BY <2>1, Zenon DEF T
  <2>4. n + 1 \in Nat
    BY <1>2
  <2>5. a \in Seq(T)
    BY <2>2, <2>3, <2>4
  <2> QED
    BY <2>5, Zenon DEF T
<1>5. \A i \in 1..n : i \in 1..(n + 1) /\ i # n + 1
  BY <1>2
<1>6. n + 1 \in 1..(n + 1) /\ \A i \in 1..(n + 1) : i \in 1..n \/ i = n + 1
  BY <1>2
<1> QED
  BY <1>3, <1>4, <1>5, <1>6 DEF a, n

LEMMA QueuedIs ==
  ASSUME NEW id, NEW part, NEW pdu
  PROVE  /\ Queued(id, part, pdu).id = id /\ Queued(id, part, pdu).pdu = pdu
         /\ Queued(id, part, pdu).number = SendNumber(pdu) /\ Queued(id, part, pdu).part = part
BY DEF Queued

\* What a command hands to the span.
LEMMA AskedParts ==
  ASSUME NEW cmd \in {"file", "sms", "app"}, NEW text \in Messages,
         NEW p, p = Parts(cmd, text), NEW i \in 1..Len(p.parts),
         NEW pdu, pdu = EncodeText(Smsc, Own, p.coding, p.parts[i], i, Len(p.parts))
  PROVE  Goes(pdu) /\ (cmd \in {"file", "sms"} /\ WellFormed(text) => Sizes(pdu))
<1> DEFINE x == p.parts[i]
           ucs2 == Coded(p.coding, x)
           n == Len(p.parts)
           sized == cmd \in {"file", "sms"} /\ WellFormed(text)
<1>1. PartsAre(p, sized)
  BY CommandParts
<1>2. Codable(ucs2, x) /\ (sized => Fits(ucs2, x)) /\ p.parts \in Seq(Seq(Octet))
  BY <1>1, Zenon DEF PartsAre
<1>3. n \in Nat /\ i \in Nat
  <2> DEFINE W == Seq(Octet)
  <2>1. p.parts \in Seq(W)
    BY <1>2
  <2> HIDE DEF W
  <2> QED
    BY <2>1
<1>4. ucs2 \in BOOLEAN
  BY Zenon DEF Coded
<1>5. pdu = EncodePdu(Smsc, Own, ucs2, x, i, n)
  BY Zenon DEF EncodeText, Coded
<1> HIDE DEF x, ucs2, n, sized
<1>6. Goes(pdu) /\ (Fits(ucs2, x) => Sizes(pdu))
  BY <1>2, <1>3, <1>4, <1>5, Encoded
<1> QED
  BY <1>2, <1>6, Zenon DEF sized

LEMMA WritesType ==
  ASSUME Readable, NEW chunks \in Seq(Seq(Int)), Writes(chunks)
  PROVE  stream' \in Seq(Seq(Int))
<1> DEFINE W == Seq(Int)
<1>1. stream \in Seq(W) /\ chunks \in Seq(W)
  BY DEF Readable
<1> HIDE DEF W
<1>2. stream \o chunks \in Seq(W)
  BY <1>1
<1> QED
  BY <1>2, Zenon DEF Writes, W

\* A text more was asked for: what is on its way still belongs to its own.
LEMMA KeptParcel ==
  ASSUME asked \in Seq(ToSet(asked)), NEW x, asked' = Append(asked, x),
         NEW t, t.id \in Ids, Parcel(t), OwnSize(t)
  PROVE  t.id \in Ids' /\ Parcel(t)' /\ OwnSize(t)'
<1>1. t.id \in Ids' /\ asked'[t.id] = asked[t.id]
  BY AppendIs DEF Ids
<1> QED
  BY <1>1 DEF Parcel, OwnSize, Goes, Sizes, WellFormedTexts

\* What is on its way after a step was on its way before it, or is good.
LEMMA KeptParcels ==
  ASSUME IInv, UNCHANGED asked, Parcels' \subseteq Parcels
  PROVE  \A t \in Parcels' : t.id \in Ids' /\ Parcel(t)' /\ OwnSize(t)'
<1> SUFFICES ASSUME NEW t \in Parcels' PROVE t.id \in Ids' /\ Parcel(t)' /\ OwnSize(t)'
  OBVIOUS
<1>1. t.id \in Ids /\ Parcel(t) /\ OwnSize(t)
  BY DEF IInv
<1> QED
  BY <1>1 DEF Ids, Parcel, OwnSize, Goes, Sizes, WellFormedTexts

LEMMA Beginning == Init => IInv
<1> SUFFICES ASSUME Init PROVE IInv
  OBVIOUS
<1>1. stream \in Seq(Seq(Int)) /\ acc \in Seq(Int) /\ san \in Seq(Int)
  BY DEF Init
<1>2. asked = <<>> /\ inbox = <<>> /\ Parcels = {}
  BY DEF Init, Parcels
<1>3. \A S : <<>> \in Seq(S) /\ DOMAIN <<>> = {}
  OBVIOUS
<1>4. Histories /\ Reports
  BY <1>2, <1>3, Zenon DEF Histories, Reports
<1> QED
  BY <1>1, <1>2, <1>4, Zenon DEF IInv, Readable

LEMMA AskStep ==
  ASSUME IInv, NEW cmd \in Commands, NEW text \in Messages, Ask(cmd, text)
  PROVE  IInv'
<1> DEFINE p == Parts(cmd, text)
           id == Len(asked) + 1
           n == Len(p.parts)
           Pdu(i) == EncodeText(Smsc, Own, p.coding, p.parts[i], i, n)
           x == [cmd |-> cmd, text |-> text, plain |-> TRUE]
<1>1. /\ cmd \in {"file", "sms", "app"} /\ asked' = Append(asked, x)
      /\ todo' = todo \cup {Queued(id, i, Pdu(i)) : i \in 1..n}
      /\ UNCHANGED <<sending, air, stream, acc, san, inbox>>
  <2>1. cmd \in Commands \ {"forward"}
    BY Zenon DEF Ask
  <2>2. cmd \in {"file", "sms", "app"}
    BY <2>1, TextsAssumption
  <2> QED
    BY <2>2, Zenon DEF Ask
<1>2. asked \in Seq(ToSet(asked))
  BY Zenon DEF IInv, Histories
<1> HIDE DEF p
<1>3. x.cmd = cmd
  OBVIOUS
<1> HIDE DEF x
<1>4. asked' \in Seq(ToSet(asked')) /\ id \in Ids' /\ asked'[id] = x
  BY <1>1, <1>2, AppendIs, Zenon DEF Ids
<1>5. ASSUME NEW t \in Parcels' PROVE t.id \in Ids' /\ Parcel(t)' /\ OwnSize(t)'
  <2>1. t \in Parcels \/ t \in {Queued(id, i, Pdu(i)) : i \in 1..n}
    BY <1>1, <1>5 DEF Parcels
  <2>2. CASE t \in Parcels
    <3>1. t.id \in Ids /\ Parcel(t) /\ OwnSize(t)
      BY <2>2, Zenon DEF IInv
    <3>2. asked' = Append(asked, x)
      BY <1>1
    <3> HIDE DEF Pdu, n, id
    <3> QED
      BY <1>2, <3>1, <3>2, KeptParcel
  <2>3. CASE t \in {Queued(id, i, Pdu(i)) : i \in 1..n}
    <3>1. PICK i \in 1..n : t = Queued(id, i, Pdu(i))
      BY <2>3
    <3> DEFINE q == Pdu(i)
    <3>2. Goes(q) /\ (cmd \in {"file", "sms"} /\ WellFormed(text) => Sizes(q))
      <4>1. q = EncodeText(Smsc, Own, p.coding, p.parts[i], i, Len(p.parts)) /\ p = Parts(cmd, text)
        BY DEF p
      <4>2. i \in 1..Len(p.parts) /\ cmd \in {"file", "sms", "app"}
        BY <1>1
      <4> HIDE DEF q, p, n
      <4> QED
        BY <4>1, <4>2, AskedParts, Zenon
    <3>a. t = Queued(id, i, q)
      BY <3>1
    <3> HIDE DEF q, Pdu, id, n
    <3>3. t.id = id /\ t.pdu = q /\ t.number = SendNumber(q)
      BY <3>a, QueuedIs
    <3>4. Parcel(t)
      BY <3>2, <3>3, Zenon DEF Parcel
    <3>5. Parcel(t)'
      BY <3>4 DEF Parcel, Goes
    <3>6. WellFormedTexts' => WellFormed(text)
      BY Zenon DEF WellFormedTexts
    <3>7. OwnSize(t)'
      <4>1. Sizes(t.pdu)' <=> Sizes(q)
        BY <3>3 DEF Sizes
      <4> QED
        BY <1>3, <1>4, <3>2, <3>3, <3>6, <4>1, Zenon DEF OwnSize
    <3> QED
      BY <1>4, <3>3, <3>5, <3>7, Zenon
  <2> QED
    BY <2>1, <2>2, <2>3
<1>6. Readable' /\ Reports'
  BY <1>1 DEF IInv, Readable, Reports
<1>7. Histories'
  BY <1>1, <1>4 DEF IInv, Histories
<1> QED
  BY <1>5, <1>6, <1>7, Zenon DEF IInv

LEMMA ForwardStep ==
  ASSUME IInv, NEW k \in DOMAIN inbox, Forward(k)
  PROVE  IInv'
<1> DEFINE id == Len(asked) + 1
           q == ForwardPdu(inbox[k].pdu, Own, Smsc)
           new == Queued(id, 1, q)
           x == [cmd |-> "forward", text |-> inbox[k].text, plain |-> inbox[k].total = 0]
<1>1. /\ asked' = Append(asked, x) /\ todo' = todo \cup {new}
      /\ UNCHANGED <<sending, air, stream, acc, san, inbox>>
  BY Zenon DEF Forward
<1>2. asked \in Seq(ToSet(asked))
  BY Zenon DEF IInv, Histories
<1>3. x.cmd = "forward"
  OBVIOUS
<1> HIDE DEF x
<1>4. asked' \in Seq(ToSet(asked')) /\ id \in Ids' /\ asked'[id] = x
  BY <1>1, <1>2, AppendIs, Zenon DEF Ids
<1>5. Goes(q)
  <2>1. inbox[k].pdu \in Seq(Int)
    BY Zenon DEF IInv, Reports
  <2> QED
    BY <2>1, Forwarded
<1> HIDE DEF q
<1>6. new.id = id /\ new.pdu = q /\ new.number = SendNumber(q)
  BY QueuedIs
<1> HIDE DEF new
<1>7. ASSUME NEW t \in Parcels' PROVE t.id \in Ids' /\ Parcel(t)' /\ OwnSize(t)'
  <2>1. t \in Parcels \/ t = new
    BY <1>1, <1>7 DEF Parcels
  <2>2. CASE t \in Parcels
    <3>1. t.id \in Ids /\ Parcel(t) /\ OwnSize(t)
      BY <2>2, Zenon DEF IInv
    <3> QED
      BY <1>1, <1>2, <3>1, KeptParcel
  <2>3. CASE t = new
    <3>1. Parcel(t)
      BY <1>5, <1>6, <2>3, Zenon DEF Parcel
    <3>2. Parcel(t)'
      BY <3>1 DEF Parcel, Goes
    <3>3. asked'[t.id].cmd = "forward"
      BY <1>3, <1>4, <1>6, <2>3, Zenon
    <3>4. OwnSize(t)'
      BY <3>3 DEF OwnSize
    <3> QED
      BY <1>4, <1>6, <2>3, <3>2, <3>4, Zenon
  <2> QED
    BY <2>1, <2>2, <2>3
<1>8. Readable' /\ Reports'
  BY <1>1 DEF IInv, Readable, Reports
<1>9. Histories'
  BY <1>1, <1>4 DEF IInv, Histories
<1> QED
  BY <1>7, <1>8, <1>9, Zenon DEF IInv

LEMMA PhoneSendsStep ==
  ASSUME IInv, NEW text \in PhoneTexts, NEW mode \in Modes, PhoneSends(text, mode)
  PROVE  IInv'
<1> DEFINE id == Len(asked) + 1
           x == [cmd |-> mode, text |-> text, plain |-> TRUE]
<1>1. /\ asked' = Append(asked, x) /\ UNCHANGED <<todo, sending, air, acc, san, inbox>>
      /\ IF mode = "pdu" THEN Writes(Lines(Header(id), FromPhone(text)))
         ELSE Writes(Lines(TextHeader(id), text))
  BY Zenon DEF PhoneSends
<1>2. asked \in Seq(ToSet(asked))
  BY Zenon DEF IInv, Histories
<1>3. Nat \subseteq Int
  OBVIOUS
<1>4. id \in Nat
  BY <1>2
<1> HIDE DEF x, id
<1>5. asked' \in Seq(ToSet(asked'))
  BY <1>1, <1>2, AppendIs, Zenon
<1>6. stream' \in Seq(Seq(Int))
  <2>1. Header(id) \in Int /\ TextHeader(id) \in Int
    BY <1>4 DEF Header, TextHeader
  <2>2. FromPhone(text) \in Seq(Int) /\ text \in Seq(Int)
    BY <1>3, FromPhoneType
  <2>3. /\ Lines(Header(id), FromPhone(text)) \in Seq(Seq(Int))
        /\ Lines(TextHeader(id), text) \in Seq(Seq(Int))
    BY <2>1, <2>2, LinesType, Zenon
  <2>4. Readable
    BY Zenon DEF IInv
  <2> QED
    BY <1>1, <2>3, <2>4, WritesType, Zenon
<1>7. ASSUME NEW t \in Parcels' PROVE t.id \in Ids' /\ Parcel(t)' /\ OwnSize(t)'
  <2>1. t \in Parcels
    BY <1>1, <1>7 DEF Parcels
  <2>2. t.id \in Ids /\ Parcel(t) /\ OwnSize(t)
    BY <2>1, Zenon DEF IInv
  <2> QED
    BY <1>1, <1>2, <2>2, KeptParcel
<1>8. Readable'
  BY <1>1, <1>6 DEF IInv, Readable
<1>9. Histories' /\ Reports'
  BY <1>1, <1>5 DEF IInv, Histories, Reports
<1> QED
  BY <1>7, <1>8, <1>9, Zenon DEF IInv

LEMMA SendStep ==
  ASSUME IInv, NEW t \in todo, Send(t)
  PROVE  IInv'
<1>1. /\ sending' = {t} /\ todo' = todo \ {t} /\ Writes(Prompt)
      /\ UNCHANGED <<asked, air, acc, san, inbox>>
  BY DEF Send
<1>2. Parcels' \subseteq Parcels
  BY <1>1 DEF Parcels
<1>3. \A u \in Parcels' : u.id \in Ids' /\ Parcel(u)' /\ OwnSize(u)'
  BY <1>1, <1>2, KeptParcels
<1>4. stream' \in Seq(Seq(Int))
  <2>1. Prompt \in Seq(Seq(Int))
    <3>1. 0 \in Int /\ <<>> \in Seq(Int)
      OBVIOUS
    <3> QED
      BY <3>1, LinesType, Zenon
  <2>2. Readable
    BY Zenon DEF IInv
  <2> QED
    BY <1>1, <2>1, <2>2, WritesType
<1>5. Readable'
  BY <1>1, <1>4 DEF IInv, Readable
<1>6. Histories' /\ Reports'
  BY <1>1 DEF IInv, Histories, Reports
<1> QED
  BY <1>3, <1>5, <1>6, Zenon DEF IInv

LEMMA DeliverStep ==
  ASSUME IInv, NEW t \in air, Deliver(t)
  PROVE  IInv'
<1>1. /\ air' = air \ {t} /\ Writes(Lines(Header(t.id), Delivered(t.pdu)))
      /\ UNCHANGED <<asked, todo, sending, acc, san, inbox>>
  BY DEF Deliver
<1>2. Parcels' \subseteq Parcels
  BY <1>1 DEF Parcels
<1>3. \A u \in Parcels' : u.id \in Ids' /\ Parcel(u)' /\ OwnSize(u)'
  BY <1>1, <1>2, KeptParcels
<1>4. stream' \in Seq(Seq(Int))
  <2>1. t.id \in Ids /\ t.pdu \in Seq(Int) /\ Readable /\ asked \in Seq(ToSet(asked))
    <3>1. t \in Parcels
      BY DEF Parcels
    <3> QED
      BY <3>1, Zenon DEF IInv, Parcel, Goes, Histories
  <2>2. t.id \in Int
    <3> DEFINE V == ToSet(asked)
    <3> HIDE DEF V
    <3>1. asked \in Seq(V)
      BY <2>1 DEF V
    <3> QED
      BY <2>1, <3>1 DEF Ids
  <2>3. Header(t.id) \in Int
    BY <2>2 DEF Header
  <2>4. Nat \subseteq Int
    OBVIOUS
  <2>5. Delivered(t.pdu) \in Seq(Int)
    BY <2>1, <2>4, DeliveredType, Zenon
  <2>6. Lines(Header(t.id), Delivered(t.pdu)) \in Seq(Seq(Int))
    BY <2>3, <2>5, LinesType, Zenon
  <2> QED
    BY <1>1, <2>1, <2>6, WritesType, Zenon
<1>5. Readable'
  BY <1>1, <1>4 DEF IInv, Readable
<1>6. Histories' /\ Reports'
  BY <1>1 DEF IInv, Histories, Reports
<1> QED
  BY <1>3, <1>5, <1>6, Zenon DEF IInv

LEMMA ReadStep ==
  ASSUME IInv, NEW n \in DOMAIN stream, Read(n)
  PROVE  IInv'
<1>1. /\ stream' = SubSeq(stream, n + 1, Len(stream))
      /\ \/ san' = Collected(n) /\ acc' = <<>>
         \/ acc' = Collected(n) /\ UNCHANGED san
      /\ UNCHANGED <<asked, todo, sending, air, inbox>>
  BY Zenon DEF Read
<1>2. Parcels' \subseteq Parcels
  BY <1>1 DEF Parcels
<1>3. \A u \in Parcels' : u.id \in Ids' /\ Parcel(u)' /\ OwnSize(u)'
  BY <1>1, <1>2, KeptParcels
<1>4. Readable
  BY Zenon DEF IInv
<1>5. Collected(n) \in Seq(Int) /\ stream' \in Seq(Seq(Int))
  BY <1>1, <1>4, CollectedType, Zenon DEF Readable, Collected
<1>6. <<>> \in Seq(Int)
  OBVIOUS
<1>7. Readable'
  BY <1>1, <1>4, <1>5, <1>6, Zenon DEF Readable
<1>8. Histories' /\ Reports'
  BY <1>1 DEF IInv, Histories, Reports
<1> QED
  BY <1>3, <1>7, <1>8, Zenon DEF IInv

LEMMA TakeLineStep ==
  ASSUME IInv, TakeLine
  PROVE  IInv'
<1>1. /\ san' = San[san].rest
      /\ \/ air' = air \cup sending /\ sending' = {}
         \/ UNCHANGED <<air, sending>>
      /\ UNCHANGED <<asked, todo, stream, acc, inbox>>
  BY Zenon DEF TakeLine
<1>2. Parcels' \subseteq Parcels
  BY <1>1 DEF Parcels
<1>3. \A u \in Parcels' : u.id \in Ids' /\ Parcel(u)' /\ OwnSize(u)'
  BY <1>1, <1>2, KeptParcels
<1>4. Readable'
  BY <1>1, SanType DEF IInv, Readable
<1>5. Histories' /\ Reports'
  BY <1>1 DEF IInv, Histories, Reports
<1> QED
  BY <1>3, <1>4, <1>5, Zenon DEF IInv

\* An event carries the line it was made of.
LEMMA ReportIs ==
  ASSUME NEW id, NEW body
  PROVE  PduReport(id, body).pdu = body /\ TextEvent(id, body).pdu = <<>>
BY DEF PduReport, TextEvent

LEMMA TakeTextStep ==
  ASSUME IInv, TakeText
  PROVE  IInv'
<1> DEFINE s == San[san]
           b == San[s.rest]
           id == IdOf(s.line[1])
           body == IF b.line = <<>> THEN s.line ELSE b.line
<1>1. /\ san' = b.rest
      /\ \/ UNCHANGED inbox
         \/ inbox' = Append(inbox, TextEvent(id, body))
         \/ inbox' = Append(inbox, PduReport(id, body))
      /\ UNCHANGED <<asked, todo, sending, air, stream, acc>>
  BY Zenon DEF TakeText
<1>2. s.line \in Seq(Int) /\ s.rest \in Seq(Int)
  BY SanType DEF IInv, Readable
<1>3. b.line \in Seq(Int) /\ b.rest \in Seq(Int)
  BY <1>2, SanType
<1>4. body \in Seq(Int)
  BY <1>2, <1>3, Zenon
<1> HIDE DEF s, b, id, body
<1>5. Parcels' \subseteq Parcels
  BY <1>1 DEF Parcels
<1>6. \A u \in Parcels' : u.id \in Ids' /\ Parcel(u)' /\ OwnSize(u)'
  BY <1>1, <1>5, KeptParcels
<1>7. Readable'
  BY <1>1, <1>3 DEF IInv, Readable
<1>8. asked' \in Seq(ToSet(asked'))
  BY <1>1 DEF IInv, Histories
<1>9. inbox \in Seq(ToSet(inbox)) /\ Reports
  BY Zenon DEF IInv, Histories
<1>10. ASSUME NEW e, e.pdu \in Seq(Int), inbox' = Append(inbox, e)
       PROVE  inbox' \in Seq(ToSet(inbox')) /\ Reports'
  <2>1. /\ inbox' \in Seq(ToSet(inbox')) /\ inbox'[Len(inbox) + 1] = e
        /\ \A i \in DOMAIN inbox : inbox'[i] = inbox[i]
        /\ \A i \in DOMAIN inbox' : i \in DOMAIN inbox \/ i = Len(inbox) + 1
    BY <1>9, <1>10, AppendIs, Zenon
  <2>2. ASSUME NEW k \in DOMAIN inbox' PROVE inbox'[k].pdu \in Seq(Int)
    BY <1>9, <1>10, <2>1, <2>2, Zenon DEF Reports
  <2> QED
    BY <2>1, <2>2, Zenon DEF Reports
<1>11. inbox' \in Seq(ToSet(inbox')) /\ Reports'
  <2>1. CASE UNCHANGED inbox
    BY <1>9, <2>1 DEF Reports
  <2>2. CASE inbox' = Append(inbox, TextEvent(id, body))
    <3>1. TextEvent(id, body).pdu = <<>> /\ <<>> \in Seq(Int)
      BY ReportIs
    <3> QED
      BY <1>10, <2>2, <3>1, Zenon
  <2>3. CASE inbox' = Append(inbox, PduReport(id, body))
    <3>1. PduReport(id, body).pdu = body
      BY ReportIs
    <3> QED
      BY <1>4, <1>10, <2>3, <3>1, Zenon
  <2> QED
    BY <1>1, <2>1, <2>2, <2>3
<1> QED
  BY <1>6, <1>7, <1>8, <1>11, Zenon DEF IInv, Histories

LEMMA StandStep ==
  ASSUME IInv, UNCHANGED <<asked, todo, sending, air, stream, acc, inbox>>,
         san' = san \/ san' = <<>>
  PROVE  IInv'
<1>1. Parcels' \subseteq Parcels
  BY DEF Parcels
<1>2. \A u \in Parcels' : u.id \in Ids' /\ Parcel(u)' /\ OwnSize(u)'
  BY <1>1, KeptParcels
<1>3. Readable'
  <2>1. Readable /\ <<>> \in Seq(Int)
    BY DEF IInv
  <2> QED
    BY <2>1, Zenon DEF Readable
<1>4. Histories' /\ Reports'
  BY DEF IInv, Histories, Reports
<1> QED
  BY <1>2, <1>3, <1>4, Zenon DEF IInv

LEMMA Inductive == IInv /\ [Next]_vars => IInv'
<1> SUFFICES ASSUME IInv, [Next]_vars PROVE IInv'
  OBVIOUS
<1>1. ASSUME NEW cmd \in Commands, NEW text \in Messages, Ask(cmd, text) PROVE IInv'
  BY <1>1, AskStep
<1>2. ASSUME NEW k \in DOMAIN inbox, Forward(k) PROVE IInv'
  BY <1>2, ForwardStep
<1>3. ASSUME NEW text \in PhoneTexts, NEW mode \in Modes, PhoneSends(text, mode) PROVE IInv'
  BY <1>3, PhoneSendsStep
<1>4. ASSUME NEW t \in todo, Send(t) PROVE IInv'
  BY <1>4, SendStep
<1>5. ASSUME NEW t \in air, Deliver(t) PROVE IInv'
  BY <1>5, DeliverStep
<1>6. ASSUME NEW n \in DOMAIN stream, Read(n) PROVE IInv'
  BY <1>6, ReadStep
<1>7. CASE TakeLine
  BY <1>7, TakeLineStep
<1>8. CASE TakeText
  BY <1>8, TakeTextStep
<1>9. CASE TakeEnds
  BY <1>9, StandStep DEF TakeEnds
<1>10. CASE UNCHANGED vars
  BY <1>10, StandStep DEF vars
<1> QED
  BY <1>1, <1>2, <1>3, <1>4, <1>5, <1>6, <1>7, <1>8, <1>9, <1>10, Zenon
     DEF Next, Sends, Delivers, Reads, Takes

LEMMA Invariant == Spec => []IInv
BY Beginning, Inductive, PTL DEF Spec

\* Whatever texts are asked for, split, forwarded or cut apart by the reads, every
\* PDU on its way to the modem and the network goes to the number it was asked for,
\* and without a configured centre a failed one is filed under that number
\* (gsm_encode_pdu, allogsm_forward_pdu, pdu_get_send_number): for every number,
\* centre, limit and set of texts.
THEOREM EveryPduAddressed == Spec => []Addressed
<1>1. IInv => Addressed
  BY Zenon DEF IInv, Addressed, Parcels, Parcel, Goes
<1> QED
  BY <1>1, Invariant, PTL

\* However the bytes of a text fall, no part that handle_gsm_send_sms or
\* handle_gsm_send_sms_file hands over is longer than its alphabet allows: an escape
\* or a character of several bytes is not cut, for every text in UTF-8 of characters
\* of up to three bytes.
THEOREM EveryPartFits ==
  ASSUME \A text \in Messages : WellFormed(text)
  PROVE  Spec => []PartFits
<1>1. IInv => PartFits
  <2> SUFFICES ASSUME IInv PROVE PartFits
    OBVIOUS
  <2>1. WellFormedTexts
    BY Zenon DEF WellFormedTexts
  <2>2. ASSUME NEW t \in todo \cup sending \cup air, asked[t.id].cmd \in {"file", "sms"}
        PROVE  Sizes(t.pdu)
    <3>1. OwnSize(t)
      BY <2>2, Zenon DEF IInv, Parcels
    <3> QED
      BY <2>1, <2>2, <3>1, Zenon DEF OwnSize
  <2> QED
    BY <2>2, Zenon DEF PartFits, Sizes
<1> QED
  BY <1>1, Invariant, PTL
------------------------------------------------------------------------------
(* Nothing is lost.                                                        *)

\* What the parts hold, one after another, is the text up to i.
SoFar(s, i, text) == FlattenSeq(s.parts) = SubSeq(text, 1, i)

Regroups(a, b, c) == (a \o b) \o c = a \o (b \o c)

LEMMA Regrouping ==
  ASSUME NEW V, NEW a \in Seq(V), NEW b \in Seq(V), NEW c \in Seq(V)
  PROVE  Regroups(a, b, c)
BY ConcatAssociative DEF Regroups

LEMMA PutKeeps ==
  ASSUME NEW R, NEW text \in Seq(R), NEW n \in Nat, n = Len(text), NEW i \in 1..n,
         NEW need, NEW grows, NEW limit,
         NEW s \in [parts : Seq(Seq(R)) \ {<<>>}, size : Nat], SoFar(s, i - 1, text)
  PROVE  SoFar(Put(s, text[i], need, grows, limit), i, text)
<1> DEFINE W == Seq(R)
           b == text[i]
           p == s.parts
           l == Last(p)
           f == Front(p)
           y == <<b>>
           x == Append(l, b)
           t == Put(s, b, need, grows, limit)
           before == SubSeq(text, 1, i - 1)
<1>1. b \in R /\ y \in W
  OBVIOUS
<1>2. p \in Seq(W) /\ p # <<>>
  OBVIOUS
<1>3. FlattenSeq(p) = before
  BY DEF SoFar
<1>4. before \in W /\ before \o y = SubSeq(text, 1, i)
  <2>1. before \in Seq(R)
    OBVIOUS
  <2>2. Append(before, b) = SubSeq(text, 1, i)
    <3> DEFINE k == 0
    <3>1. k \in 0..(i - 1) /\ i \in 1..Len(text) /\ k + 1 = 1
      OBVIOUS
    <3> HIDE DEF k
    <3>2. Append(SubSeq(text, k + 1, i - 1), text[i]) = SubSeq(text, k + 1, i)
      BY <3>1, SubSeqMore
    <3> QED
      BY <3>1, <3>2
  <2> HIDE DEF before, b
  <2>3. before \o y = Append(before, b)
    BY <1>1, <2>1, AppendProperties
  <2> QED
    BY <2>1, <2>2, <2>3
<1>5. l \in W /\ f \in Seq(W) /\ x = l \o y /\ x \in W
  <2> HIDE DEF W
  <2>1. l \in W /\ f \in Seq(W)
    BY <1>2, FrontIs
  <2> HIDE DEF l, b, f
  <2>2. x \in W /\ x = l \o y
    BY <1>1, <2>1, AppendProperties DEF W
  <2> QED
    BY <2>1, <2>2
<1>6. p = Append(f, l)
  <2> HIDE DEF W, l, f, p
  <2>1. Append(f, l) \in Seq(W)
    BY <1>5
  <2>2. Len(f) = Len(p) - 1 /\ (\A j \in 1..(Len(p) - 1) : f[j] = p[j]) /\ l = p[Len(p)]
        /\ Len(p) \in Nat \ {0}
    BY <1>2, FrontIs DEF f, l
  <2> DEFINE q == Append(f, l)
             m == Len(p)
  <2>3. q \in Seq(W) /\ Len(q) = Len(f) + 1 /\ (\A j \in 1..Len(f) : q[j] = f[j])
        /\ q[Len(f) + 1] = l
    BY <1>5, AppendProperties
  <2> HIDE DEF q, m
  <2>4. m \in Nat \ {0} /\ Len(f) = m - 1 /\ (m - 1) + 1 = m
    BY <2>2 DEF m
  <2>5. Len(q) = m /\ \A j \in 1..m : q[j] = p[j]
    <3>1. ASSUME NEW j \in 1..m PROVE q[j] = p[j]
      <4>1. CASE j = m
        BY <2>2, <2>3, <2>4, <4>1 DEF m
      <4>2. CASE j # m
        <5>1. j \in 1..(m - 1)
          BY <2>4, <4>2
        <5> QED
          BY <2>2, <2>3, <2>4, <5>1 DEF m
      <4> QED
        BY <4>1, <4>2
    <3> QED
      BY <2>3, <2>4, <3>1
  <2> QED
    BY <1>2, <2>3, <2>5, SeqEqual DEF m, q
<1>7. FlattenSeq(p) = FlattenSeq(f) \o l /\ FlattenSeq(Append(f, x)) = FlattenSeq(f) \o x
      /\ FlattenSeq(Append(p, y)) = FlattenSeq(p) \o y /\ FlattenSeq(f) \in W
  <2> HIDE DEF l, f, x, y, p
  <2>1. f \in Seq(Seq(R)) /\ p \in Seq(Seq(R)) /\ l \in Seq(R) /\ x \in Seq(R) /\ y \in Seq(R)
    BY <1>1, <1>2, <1>5 DEF W
  <2> HIDE DEF W
  <2>2. FlattenSeq(p) = FlattenSeq(f) \o l
    BY <1>6, <2>1, FlattenAppend
  <2>3. FlattenSeq(Append(f, x)) = FlattenSeq(f) \o x
    BY <2>1, FlattenAppend
  <2>4. FlattenSeq(Append(p, y)) = FlattenSeq(p) \o y
    BY <2>1, FlattenAppend
  <2>5. FlattenSeq(f) \in W
    BY <2>1, FlattenType DEF W
  <2> QED
    BY <2>2, <2>3, <2>4, <2>5
<1>8. t.parts = Append(f, x) \/ t.parts = Append(p, y)
  BY DEF Put
<1> DEFINE g == FlattenSeq(f)
<1>9. g \o x = (g \o l) \o y
  <2>1. g \in Seq(R) /\ l \in Seq(R) /\ y \in Seq(R) /\ x = l \o y
    BY <1>1, <1>5, <1>7, Zenon DEF W, g
  <2> HIDE DEF g, l, y, x
  <2>2. Regroups(g, l, y)
    BY <2>1, Regrouping, Zenon
  <2> QED
    BY <2>1, <2>2 DEF Regroups
<1> HIDE DEF W, l, f, x, y, p, before
<1> QED
  BY <1>3, <1>4, <1>7, <1>8, <1>9, Zenon DEF SoFar, t, b, g

\* Splitting loses nothing and doubles nothing: the parts of a text, one behind
\* another, are the text, for every text, limit and weighing of its bytes (the
\* loops of handle_gsm_send_sms, handle_gsm_send_sms_file and sendsms_exec).
THEOREM SplitLosesNothing ==
  ASSUME NEW R, NEW need \in [R -> Nat], NEW grows \in [R -> Nat], NEW limit \in Nat,
         NEW text \in Seq(R)
  PROVE  FlattenSeq(Split(text, need, grows, limit)) = text
<1> DEFINE n == Len(text)
           V == [parts : Seq(Seq(R)) \ {<<>>}, size : Nat]
<1>1. n \in Nat /\ n = Len(text)
  OBVIOUS
<1>2. SubSeq(text, 1, 0) = <<>> /\ SubSeq(text, 1, n) = text
  OBVIOUS
<1> HIDE DEF n
<1>3. PICK u \in [0..n -> V] : /\ Splits(u, text, need, grows, limit, n)
                              /\ Split(text, need, grows, limit) = u[n].parts
  <2>1. Splittable(R, text, need, grows, limit, n)
    BY <1>1, Splitting
  <2> QED
    BY <2>1, Zenon DEF Splittable
<1>4. u[0] = NoParts /\ \A i \in 1..n : u[i] = Put(u[i - 1], text[i], need, grows, limit)
  BY <1>3 DEF Splits
<1>5. \A i \in 0..n : u[i] \in V
  OBVIOUS
<1> DEFINE S == {i \in 0..n : SoFar(u[i], i, text)}
<1>6. 0 \in S
  <2>1. FlattenSeq(NoParts.parts) = <<>>
    <3>1. <<>> \in Seq(R) /\ NoParts.parts = <<<<>>>>
      BY DEF NoParts
    <3> QED
      BY <3>1, FlattenOne, Zenon
  <2>2. 0 \in 0..n
    BY <1>1
  <2> QED
    BY <1>2, <1>4, <2>1, <2>2, Zenon DEF SoFar
<1>7. \A i \in 1..n : i - 1 \in S => i \in S
  <2> SUFFICES ASSUME NEW i \in 1..n, i - 1 \in S PROVE i \in S
    OBVIOUS
  <2> DEFINE s == u[i - 1]
  <2>1. s \in [parts : Seq(Seq(R)) \ {<<>>}, size : Nat] /\ SoFar(s, i - 1, text) /\ i \in 0..n
    BY <1>1, <1>5
  <2>2. u[i] = Put(s, text[i], need, grows, limit)
    BY <1>4
  <2> HIDE DEF s
  <2>3. SoFar(Put(s, text[i], need, grows, limit), i, text)
    BY <1>1, <2>1, PutKeeps
  <2> QED
    BY <2>1, <2>2, <2>3
<1>8. n \in S
  <2> HIDE DEF S
  <2>1. \A i \in 0..n : i \in S
    BY <1>1, <1>6, <1>7, InductTo
  <2> QED
    BY <1>1, <2>1
<1> QED
  BY <1>2, <1>3, <1>8, Zenon DEF SoFar
------------------------------------------------------------------------------
(* Packing septets.                                                        *)

\* Octet i of the packed septets, counted from 0; octets with zeros behind them,
\* and the septet that starts with a bit of them.
Zeros(o, i) == IF i < Len(o) THEN o[i + 1] ELSE 0
Mixed(s, q, r) == (Septet(s, q) \div 2^r + Septet(s, q + 1) * 2^(7 - r)) % 256
Bits(s, i) == Mixed(s, (8 * i) \div 7, (8 * i) % 7)
Cutout(o, i, r) == (Zeros(o, i) \div 2^r + Zeros(o, i + 1) * 2^(8 - r)) % 128
SeptetFrom(o, bit) == Cutout(o, bit \div 8, bit % 8)
PaddedTo(o, p) ==
    Len(p) <= Len(o) /\ \A i \in 1..Len(o) : o[i] = IF i <= Len(p) THEN p[i] ELSE 0

\* The two halves of a septet x, the higher one in the octet behind, between
\* its neighbours v and y: a is 2^m, b is 2^(7-m).
LEMMA Halves ==
  ASSUME NEW a, NEW b,
         <<a, b>> \in {<<2, 64>>, <<4, 32>>, <<8, 16>>, <<16, 8>>, <<32, 4>>, <<64, 2>>, <<128, 1>>},
         NEW x \in Nat, x <= 127, NEW y \in Nat, NEW v \in Nat, v < 2 * b
  PROVE  (((v + x * (2 * b)) % 256) \div (2 * b) + ((x \div a + y * b) % 256) * a) % 128 = x
<1> DEFINE h == x \div a
           l == x % a
           t == (h + y * b) \div 256
<1>1. CASE a = 2 /\ b = 64
  <2>1. x = 2 * h + l /\ h \in Nat /\ l \in Nat /\ l < 2 /\ h < 64 /\ v < 128
    BY <1>1
  <2> HIDE DEF h, l
  <2>2. (h + y * 64) % 256 = h + y * 64 - 256 * t /\ t \in Nat
    BY <1>1, <2>1
  <2>3. (v + x * 128) % 256 = v + l * 128 /\ (v + l * 128) \div 128 = l
    BY <2>1
  <2> HIDE DEF t
  <2>4. (l + (h + y * 64 - 256 * t) * 2) % 128 = l + h * 2
    BY <2>1, <2>2
  <2> QED
    BY <1>1, <2>1, <2>2, <2>3, <2>4 DEF h
<1>2. CASE a = 4 /\ b = 32
  <2>1. x = 4 * h + l /\ h \in Nat /\ l \in Nat /\ l < 4 /\ h < 32 /\ v < 64
    BY <1>2
  <2> HIDE DEF h, l
  <2>2. (h + y * 32) % 256 = h + y * 32 - 256 * t /\ t \in Nat
    BY <1>2, <2>1
  <2>3. (v + x * 64) % 256 = v + l * 64 /\ (v + l * 64) \div 64 = l
    BY <2>1
  <2> HIDE DEF t
  <2>4. (l + (h + y * 32 - 256 * t) * 4) % 128 = l + h * 4
    BY <2>1, <2>2
  <2> QED
    BY <1>2, <2>1, <2>2, <2>3, <2>4 DEF h
<1>3. CASE a = 8 /\ b = 16
  <2>1. x = 8 * h + l /\ h \in Nat /\ l \in Nat /\ l < 8 /\ h < 16 /\ v < 32
    BY <1>3
  <2> HIDE DEF h, l
  <2>2. (h + y * 16) % 256 = h + y * 16 - 256 * t /\ t \in Nat
    BY <1>3, <2>1
  <2>3. (v + x * 32) % 256 = v + l * 32 /\ (v + l * 32) \div 32 = l
    BY <2>1
  <2> HIDE DEF t
  <2>4. (l + (h + y * 16 - 256 * t) * 8) % 128 = l + h * 8
    BY <2>1, <2>2
  <2> QED
    BY <1>3, <2>1, <2>2, <2>3, <2>4 DEF h
<1>4. CASE a = 16 /\ b = 8
  <2>1. x = 16 * h + l /\ h \in Nat /\ l \in Nat /\ l < 16 /\ h < 8 /\ v < 16
    BY <1>4
  <2> HIDE DEF h, l
  <2>2. (h + y * 8) % 256 = h + y * 8 - 256 * t /\ t \in Nat
    BY <1>4, <2>1
  <2>3. (v + x * 16) % 256 = v + l * 16 /\ (v + l * 16) \div 16 = l
    BY <2>1
  <2> HIDE DEF t
  <2>4. (l + (h + y * 8 - 256 * t) * 16) % 128 = l + h * 16
    BY <2>1, <2>2
  <2> QED
    BY <1>4, <2>1, <2>2, <2>3, <2>4 DEF h
<1>5. CASE a = 32 /\ b = 4
  <2>1. x = 32 * h + l /\ h \in Nat /\ l \in Nat /\ l < 32 /\ h < 4 /\ v < 8
    BY <1>5
  <2> HIDE DEF h, l
  <2>2. (h + y * 4) % 256 = h + y * 4 - 256 * t /\ t \in Nat
    BY <1>5, <2>1
  <2>3. (v + x * 8) % 256 = v + l * 8 /\ (v + l * 8) \div 8 = l
    BY <2>1
  <2> HIDE DEF t
  <2>4. (l + (h + y * 4 - 256 * t) * 32) % 128 = l + h * 32
    BY <2>1, <2>2
  <2> QED
    BY <1>5, <2>1, <2>2, <2>3, <2>4 DEF h
<1>6. CASE a = 64 /\ b = 2
  <2>1. x = 64 * h + l /\ h \in Nat /\ l \in Nat /\ l < 64 /\ h < 2 /\ v < 4
    BY <1>6
  <2> HIDE DEF h, l
  <2>2. (h + y * 2) % 256 = h + y * 2 - 256 * t /\ t \in Nat
    BY <1>6, <2>1
  <2>3. (v + x * 4) % 256 = v + l * 4 /\ (v + l * 4) \div 4 = l
    BY <2>1
  <2> HIDE DEF t
  <2>4. (l + (h + y * 2 - 256 * t) * 64) % 128 = l + h * 64
    BY <2>1, <2>2
  <2> QED
    BY <1>6, <2>1, <2>2, <2>3, <2>4 DEF h
<1>7. CASE a = 128 /\ b = 1
  <2>1. x = 128 * h + l /\ h \in Nat /\ l \in Nat /\ l < 128 /\ h < 1 /\ v < 2
    BY <1>7
  <2> HIDE DEF h, l
  <2>2. (h + y * 1) % 256 = h + y * 1 - 256 * t /\ t \in Nat
    BY <1>7, <2>1
  <2>3. (v + x * 2) % 256 = v + l * 2 /\ (v + l * 2) \div 2 = l
    BY <2>1
  <2> HIDE DEF t
  <2>4. (l + (h + y * 1 - 256 * t) * 128) % 128 = l + h * 128
    BY <2>1, <2>2
  <2> QED
    BY <1>7, <2>1, <2>2, <2>3, <2>4 DEF h
<1> QED
  BY <1>1, <1>2, <1>3, <1>4, <1>5, <1>6, <1>7

Packs(o, s) == \A i \in Nat : Zeros(o, i) = Bits(s, i)

LEMMA PacksAt ==
  ASSUME NEW o, NEW s, Packs(o, s), NEW i \in Nat
  PROVE  Zeros(o, i) = Bits(s, i)
BY Zenon DEF Packs

LEMMA BitsIs ==
  ASSUME NEW s, NEW i, NEW q, NEW r, (8 * i) \div 7 = q, (8 * i) % 7 = r
  PROVE  Bits(s, i) = Mixed(s, q, r)
BY DEF Bits

LEMMA SeptetFromIs ==
  ASSUME NEW o, NEW bit, NEW i, NEW r, bit \div 8 = i, bit % 8 = r
  PROVE  SeptetFrom(o, bit) = Cutout(o, i, r)
BY DEF SeptetFrom

LEMMA BitsType ==
  ASSUME NEW s \in Seq(SevenBit), NEW i \in Nat
  PROVE  Bits(s, i) \in Octet
<1> DEFINE q == (8 * i) \div 7
           r == (8 * i) % 7
           x == Septet(s, q)
           y == Septet(s, q + 1)
           z == (x \div 2^r + y * 2^(7 - r)) % 256
<1>1. q \in Nat /\ q + 1 \in Nat /\ r \in 0..6
  OBVIOUS
<1>2. x \in SevenBit /\ y \in SevenBit
  <2> HIDE DEF q
  <2> QED BY <1>1, SeptetType
<1>3. Bits(s, i) = z
  BY DEF Bits, Mixed
<1> HIDE DEF q, r, x, y
<1>4. x \in Nat /\ x <= 127 /\ y \in Nat /\ y <= 127
  BY <1>2, SevenBitIs
<1>5. z \in Nat /\ z <= 255
  <2>1. CASE r = 0
    BY <1>4, <2>1
  <2>2. CASE r = 1
    BY <1>4, <2>2
  <2>3. CASE r = 2
    BY <1>4, <2>3
  <2>4. CASE r = 3
    BY <1>4, <2>4
  <2>5. CASE r = 4
    BY <1>4, <2>5
  <2>6. CASE r = 5
    BY <1>4, <2>6
  <2>7. CASE r = 6
    BY <1>4, <2>7
  <2> QED
    BY <1>1, <2>1, <2>2, <2>3, <2>4, <2>5, <2>6, <2>7
<1> QED
  BY <1>3, <1>5, OctetIs

\* Septet j is found again where its bits begin.
LEMMA SeptetBack ==
  ASSUME NEW s \in Seq(SevenBit), NEW o, Packs(o, s), NEW j \in Nat
  PROVE  SeptetFrom(o, 7 * j) = Septet(s, j)
<1> DEFINE k == j \div 8
           x == Septet(s, j)
           y == Septet(s, j + 1)
           z == Septet(s, j + 2)
           w == Septet(s, j - 1)
<1>1. k \in Nat /\ j \in {8 * k, 8 * k + 1, 8 * k + 2, 8 * k + 3, 8 * k + 4, 8 * k + 5, 8 * k + 6, 8 * k + 7}
  OBVIOUS
<1>2. /\ x \in Nat /\ x <= 127 /\ y \in Nat /\ y <= 127 /\ z \in Nat /\ z <= 127
      /\ j > 0 => w \in Nat /\ w <= 127
  <2>1. j + 1 \in Nat /\ j + 2 \in Nat /\ (j > 0 => j - 1 \in Nat)
    OBVIOUS
  <2>2. x \in SevenBit /\ y \in SevenBit /\ z \in SevenBit /\ (j > 0 => w \in SevenBit)
    BY <2>1, SeptetType
  <2> QED
    BY <2>2, SevenBitIs
<1> HIDE DEF k
<1>10. CASE j = 8 * k
  <2>0. PICK i \in Nat : i = 7 * k
    BY <1>1
  <2> DEFINE u == Zeros(o, i + 1)
  <2>1. /\ (7 * j) \div 8 = i /\ (7 * j) % 8 = 0 /\ (8 * i) \div 7 = j /\ (8 * i) % 7 = 0
        /\ i \in Nat /\ i + 1 \in Nat
    BY <1>1, <1>10, <2>0
  <2>2. 2^0 = 1 /\ 2^(7 - 0) = 128 /\ 2^(8 - 0) = 256
    OBVIOUS
  <2>3. Bits(s, i) = (x \div 1 + y * 128) % 256
    <3>1. Bits(s, i) = Mixed(s, j, 0)
      BY <2>1, BitsIs, Zenon
    <3> QED
      BY <2>2, <3>1 DEF Mixed
  <2>4. SeptetFrom(o, 7 * j) = (Zeros(o, i) \div 1 + u * 256) % 128
    <3>1. SeptetFrom(o, 7 * j) = Cutout(o, i, 0)
      BY <2>1, SeptetFromIs, Zenon
    <3> QED
      BY <2>2, <3>1 DEF Cutout
  <2>5. u \in Nat
    BY <2>1, PacksAt, BitsType, OctetIs
  <2>6. Zeros(o, i) = Bits(s, i)
    BY <2>1, PacksAt
  <2> HIDE DEF x, y, u
  <2>7. (((x \div 1 + y * 128) % 256) \div 1 + u * 256) % 128 = x
    <3> DEFINE t == (x + y * 128) \div 256
    <3>1. x \div 1 = x /\ t \in Nat /\ (x + y * 128) % 256 = x + y * 128 - 256 * t
      BY <1>2
    <3> HIDE DEF t
    <3>2. (x + y * 128 - 256 * t) \div 1 = x + y * 128 - 256 * t
      BY <1>2, <3>1
    <3>3. (x + y * 128 - 256 * t + u * 256) % 128 = x
      BY <1>2, <2>5, <3>1
    <3> QED
      BY <3>1, <3>2, <3>3
  <2> QED
    BY <2>3, <2>4, <2>6, <2>7 DEF x
<1>11. CASE j = 8 * k + 1
  <2>0. PICK i \in Nat : i = 7 * k + 0
    BY <1>1
  <2>1. /\ (7 * j) \div 8 = i /\ (7 * j) % 8 = 7 /\ i \in Nat /\ i + 1 \in Nat
        /\ (8 * i) \div 7 = j - 1 /\ (8 * i) % 7 = 0 /\ j > 0 /\ (j - 1) + 1 = j
        /\ (8 * (i + 1)) \div 7 = j /\ (8 * (i + 1)) % 7 = 1 /\ (j + 1) + 1 = j + 2
    BY <1>1, <1>11, <2>0
  <2>2. /\ 2^0 = 1 /\ 2^(7 - 0) = 128 /\ 2^1 = 2 /\ 2^(7 - 1) = 64
        /\ 2^7 = 128 /\ 2^(8 - 7) = 2
    OBVIOUS
  <2>3. Bits(s, i) = (w \div 1 + x * 128) % 256
    <3>1. Bits(s, i) = (Septet(s, j - 1) \div 1 + Septet(s, (j - 1) + 1) * 128) % 256
      <4>1. Bits(s, i) = Mixed(s, j - 1, 0)
        BY <2>1, BitsIs, Zenon
      <4> QED
        BY <2>2, <4>1 DEF Mixed
    <3> QED
      BY <2>1, <3>1
  <2>4. SeptetFrom(o, 7 * j) = (Zeros(o, i) \div 128 + Zeros(o, i + 1) * 2) % 128
    <3>1. SeptetFrom(o, 7 * j) = Cutout(o, i, 7)
      BY <2>1, SeptetFromIs, Zenon
    <3> QED
      BY <2>2, <3>1 DEF Cutout
  <2>5. Zeros(o, i) = Bits(s, i) /\ Zeros(o, i + 1) = Bits(s, i + 1)
    BY <2>1, PacksAt
  <2>6. Bits(s, i + 1) = (x \div 2 + y * 64) % 256
    <3>1. Bits(s, i + 1) = Mixed(s, j, 1)
      BY <2>1, BitsIs, Zenon
    <3> QED
      BY <2>2, <3>1 DEF Mixed
  <2> DEFINE v == w \div 1
             t == y
  <2> HIDE DEF x, y, z, w
  <2>7. v \in Nat /\ v < 2 * 64 /\ t \in Nat
    BY <1>2, <2>1
  <2> HIDE DEF v, t
  <2>8. (((v + x * (2 * 64)) % 256) \div (2 * 64) + ((x \div 2 + t * 64) % 256) * 2) % 128 = x
    <3> DEFINE a == 2
               b == 64
    <3>1. <<a, b>> \in {<<2, 64>>, <<4, 32>>, <<8, 16>>, <<16, 8>>, <<32, 4>>, <<64, 2>>, <<128, 1>>}
      OBVIOUS
    <3>2. v < 2 * b
      BY <2>7
    <3> HIDE DEF a, b
    <3>3. (((v + x * (2 * b)) % 256) \div (2 * b) + ((x \div a + t * b) % 256) * a) % 128 = x
      BY <1>2, <2>7, <3>1, <3>2, Halves
    <3> QED
      BY <3>3 DEF a, b
  <2>9. 2 * 64 = 128
    OBVIOUS
  <2> QED
    BY <2>3, <2>4, <2>5, <2>6, <2>8, <2>9 DEF x, v, t
<1>12. CASE j = 8 * k + 2
  <2>0. PICK i \in Nat : i = 7 * k + 1
    BY <1>1
  <2>1. /\ (7 * j) \div 8 = i /\ (7 * j) % 8 = 6 /\ i \in Nat /\ i + 1 \in Nat
        /\ (8 * i) \div 7 = j - 1 /\ (8 * i) % 7 = 1 /\ j > 0 /\ (j - 1) + 1 = j
        /\ (8 * (i + 1)) \div 7 = j /\ (8 * (i + 1)) % 7 = 2 /\ (j + 1) + 1 = j + 2
    BY <1>1, <1>12, <2>0
  <2>2. /\ 2^1 = 2 /\ 2^(7 - 1) = 64 /\ 2^2 = 4 /\ 2^(7 - 2) = 32
        /\ 2^6 = 64 /\ 2^(8 - 6) = 4
    OBVIOUS
  <2>3. Bits(s, i) = (w \div 2 + x * 64) % 256
    <3>1. Bits(s, i) = (Septet(s, j - 1) \div 2 + Septet(s, (j - 1) + 1) * 64) % 256
      <4>1. Bits(s, i) = Mixed(s, j - 1, 1)
        BY <2>1, BitsIs, Zenon
      <4> QED
        BY <2>2, <4>1 DEF Mixed
    <3> QED
      BY <2>1, <3>1
  <2>4. SeptetFrom(o, 7 * j) = (Zeros(o, i) \div 64 + Zeros(o, i + 1) * 4) % 128
    <3>1. SeptetFrom(o, 7 * j) = Cutout(o, i, 6)
      BY <2>1, SeptetFromIs, Zenon
    <3> QED
      BY <2>2, <3>1 DEF Cutout
  <2>5. Zeros(o, i) = Bits(s, i) /\ Zeros(o, i + 1) = Bits(s, i + 1)
    BY <2>1, PacksAt
  <2>6. Bits(s, i + 1) = (x \div 4 + y * 32) % 256
    <3>1. Bits(s, i + 1) = Mixed(s, j, 2)
      BY <2>1, BitsIs, Zenon
    <3> QED
      BY <2>2, <3>1 DEF Mixed
  <2> DEFINE v == w \div 2
             t == y
  <2> HIDE DEF x, y, z, w
  <2>7. v \in Nat /\ v < 2 * 32 /\ t \in Nat
    BY <1>2, <2>1
  <2> HIDE DEF v, t
  <2>8. (((v + x * (2 * 32)) % 256) \div (2 * 32) + ((x \div 4 + t * 32) % 256) * 4) % 128 = x
    <3> DEFINE a == 4
               b == 32
    <3>1. <<a, b>> \in {<<2, 64>>, <<4, 32>>, <<8, 16>>, <<16, 8>>, <<32, 4>>, <<64, 2>>, <<128, 1>>}
      OBVIOUS
    <3>2. v < 2 * b
      BY <2>7
    <3> HIDE DEF a, b
    <3>3. (((v + x * (2 * b)) % 256) \div (2 * b) + ((x \div a + t * b) % 256) * a) % 128 = x
      BY <1>2, <2>7, <3>1, <3>2, Halves
    <3> QED
      BY <3>3 DEF a, b
  <2>9. 2 * 32 = 64
    OBVIOUS
  <2> QED
    BY <2>3, <2>4, <2>5, <2>6, <2>8, <2>9 DEF x, v, t
<1>13. CASE j = 8 * k + 3
  <2>0. PICK i \in Nat : i = 7 * k + 2
    BY <1>1
  <2>1. /\ (7 * j) \div 8 = i /\ (7 * j) % 8 = 5 /\ i \in Nat /\ i + 1 \in Nat
        /\ (8 * i) \div 7 = j - 1 /\ (8 * i) % 7 = 2 /\ j > 0 /\ (j - 1) + 1 = j
        /\ (8 * (i + 1)) \div 7 = j /\ (8 * (i + 1)) % 7 = 3 /\ (j + 1) + 1 = j + 2
    BY <1>1, <1>13, <2>0
  <2>2. /\ 2^2 = 4 /\ 2^(7 - 2) = 32 /\ 2^3 = 8 /\ 2^(7 - 3) = 16
        /\ 2^5 = 32 /\ 2^(8 - 5) = 8
    OBVIOUS
  <2>3. Bits(s, i) = (w \div 4 + x * 32) % 256
    <3>1. Bits(s, i) = (Septet(s, j - 1) \div 4 + Septet(s, (j - 1) + 1) * 32) % 256
      <4>1. Bits(s, i) = Mixed(s, j - 1, 2)
        BY <2>1, BitsIs, Zenon
      <4> QED
        BY <2>2, <4>1 DEF Mixed
    <3> QED
      BY <2>1, <3>1
  <2>4. SeptetFrom(o, 7 * j) = (Zeros(o, i) \div 32 + Zeros(o, i + 1) * 8) % 128
    <3>1. SeptetFrom(o, 7 * j) = Cutout(o, i, 5)
      BY <2>1, SeptetFromIs, Zenon
    <3> QED
      BY <2>2, <3>1 DEF Cutout
  <2>5. Zeros(o, i) = Bits(s, i) /\ Zeros(o, i + 1) = Bits(s, i + 1)
    BY <2>1, PacksAt
  <2>6. Bits(s, i + 1) = (x \div 8 + y * 16) % 256
    <3>1. Bits(s, i + 1) = Mixed(s, j, 3)
      BY <2>1, BitsIs, Zenon
    <3> QED
      BY <2>2, <3>1 DEF Mixed
  <2> DEFINE v == w \div 4
             t == y
  <2> HIDE DEF x, y, z, w
  <2>7. v \in Nat /\ v < 2 * 16 /\ t \in Nat
    BY <1>2, <2>1
  <2> HIDE DEF v, t
  <2>8. (((v + x * (2 * 16)) % 256) \div (2 * 16) + ((x \div 8 + t * 16) % 256) * 8) % 128 = x
    <3> DEFINE a == 8
               b == 16
    <3>1. <<a, b>> \in {<<2, 64>>, <<4, 32>>, <<8, 16>>, <<16, 8>>, <<32, 4>>, <<64, 2>>, <<128, 1>>}
      OBVIOUS
    <3>2. v < 2 * b
      BY <2>7
    <3> HIDE DEF a, b
    <3>3. (((v + x * (2 * b)) % 256) \div (2 * b) + ((x \div a + t * b) % 256) * a) % 128 = x
      BY <1>2, <2>7, <3>1, <3>2, Halves
    <3> QED
      BY <3>3 DEF a, b
  <2>9. 2 * 16 = 32
    OBVIOUS
  <2> QED
    BY <2>3, <2>4, <2>5, <2>6, <2>8, <2>9 DEF x, v, t
<1>14. CASE j = 8 * k + 4
  <2>0. PICK i \in Nat : i = 7 * k + 3
    BY <1>1
  <2>1. /\ (7 * j) \div 8 = i /\ (7 * j) % 8 = 4 /\ i \in Nat /\ i + 1 \in Nat
        /\ (8 * i) \div 7 = j - 1 /\ (8 * i) % 7 = 3 /\ j > 0 /\ (j - 1) + 1 = j
        /\ (8 * (i + 1)) \div 7 = j /\ (8 * (i + 1)) % 7 = 4 /\ (j + 1) + 1 = j + 2
    BY <1>1, <1>14, <2>0
  <2>2. /\ 2^3 = 8 /\ 2^(7 - 3) = 16 /\ 2^4 = 16 /\ 2^(7 - 4) = 8
        /\ 2^4 = 16 /\ 2^(8 - 4) = 16
    OBVIOUS
  <2>3. Bits(s, i) = (w \div 8 + x * 16) % 256
    <3>1. Bits(s, i) = (Septet(s, j - 1) \div 8 + Septet(s, (j - 1) + 1) * 16) % 256
      <4>1. Bits(s, i) = Mixed(s, j - 1, 3)
        BY <2>1, BitsIs, Zenon
      <4> QED
        BY <2>2, <4>1 DEF Mixed
    <3> QED
      BY <2>1, <3>1
  <2>4. SeptetFrom(o, 7 * j) = (Zeros(o, i) \div 16 + Zeros(o, i + 1) * 16) % 128
    <3>1. SeptetFrom(o, 7 * j) = Cutout(o, i, 4)
      BY <2>1, SeptetFromIs, Zenon
    <3> QED
      BY <2>2, <3>1 DEF Cutout
  <2>5. Zeros(o, i) = Bits(s, i) /\ Zeros(o, i + 1) = Bits(s, i + 1)
    BY <2>1, PacksAt
  <2>6. Bits(s, i + 1) = (x \div 16 + y * 8) % 256
    <3>1. Bits(s, i + 1) = Mixed(s, j, 4)
      BY <2>1, BitsIs, Zenon
    <3> QED
      BY <2>2, <3>1 DEF Mixed
  <2> DEFINE v == w \div 8
             t == y
  <2> HIDE DEF x, y, z, w
  <2>7. v \in Nat /\ v < 2 * 8 /\ t \in Nat
    BY <1>2, <2>1
  <2> HIDE DEF v, t
  <2>8. (((v + x * (2 * 8)) % 256) \div (2 * 8) + ((x \div 16 + t * 8) % 256) * 16) % 128 = x
    <3> DEFINE a == 16
               b == 8
    <3>1. <<a, b>> \in {<<2, 64>>, <<4, 32>>, <<8, 16>>, <<16, 8>>, <<32, 4>>, <<64, 2>>, <<128, 1>>}
      OBVIOUS
    <3>2. v < 2 * b
      BY <2>7
    <3> HIDE DEF a, b
    <3>3. (((v + x * (2 * b)) % 256) \div (2 * b) + ((x \div a + t * b) % 256) * a) % 128 = x
      BY <1>2, <2>7, <3>1, <3>2, Halves
    <3> QED
      BY <3>3 DEF a, b
  <2>9. 2 * 8 = 16
    OBVIOUS
  <2> QED
    BY <2>3, <2>4, <2>5, <2>6, <2>8, <2>9 DEF x, v, t
<1>15. CASE j = 8 * k + 5
  <2>0. PICK i \in Nat : i = 7 * k + 4
    BY <1>1
  <2>1. /\ (7 * j) \div 8 = i /\ (7 * j) % 8 = 3 /\ i \in Nat /\ i + 1 \in Nat
        /\ (8 * i) \div 7 = j - 1 /\ (8 * i) % 7 = 4 /\ j > 0 /\ (j - 1) + 1 = j
        /\ (8 * (i + 1)) \div 7 = j /\ (8 * (i + 1)) % 7 = 5 /\ (j + 1) + 1 = j + 2
    BY <1>1, <1>15, <2>0
  <2>2. /\ 2^4 = 16 /\ 2^(7 - 4) = 8 /\ 2^5 = 32 /\ 2^(7 - 5) = 4
        /\ 2^3 = 8 /\ 2^(8 - 3) = 32
    OBVIOUS
  <2>3. Bits(s, i) = (w \div 16 + x * 8) % 256
    <3>1. Bits(s, i) = (Septet(s, j - 1) \div 16 + Septet(s, (j - 1) + 1) * 8) % 256
      <4>1. Bits(s, i) = Mixed(s, j - 1, 4)
        BY <2>1, BitsIs, Zenon
      <4> QED
        BY <2>2, <4>1 DEF Mixed
    <3> QED
      BY <2>1, <3>1
  <2>4. SeptetFrom(o, 7 * j) = (Zeros(o, i) \div 8 + Zeros(o, i + 1) * 32) % 128
    <3>1. SeptetFrom(o, 7 * j) = Cutout(o, i, 3)
      BY <2>1, SeptetFromIs, Zenon
    <3> QED
      BY <2>2, <3>1 DEF Cutout
  <2>5. Zeros(o, i) = Bits(s, i) /\ Zeros(o, i + 1) = Bits(s, i + 1)
    BY <2>1, PacksAt
  <2>6. Bits(s, i + 1) = (x \div 32 + y * 4) % 256
    <3>1. Bits(s, i + 1) = Mixed(s, j, 5)
      BY <2>1, BitsIs, Zenon
    <3> QED
      BY <2>2, <3>1 DEF Mixed
  <2> DEFINE v == w \div 16
             t == y
  <2> HIDE DEF x, y, z, w
  <2>7. v \in Nat /\ v < 2 * 4 /\ t \in Nat
    BY <1>2, <2>1
  <2> HIDE DEF v, t
  <2>8. (((v + x * (2 * 4)) % 256) \div (2 * 4) + ((x \div 32 + t * 4) % 256) * 32) % 128 = x
    <3> DEFINE a == 32
               b == 4
    <3>1. <<a, b>> \in {<<2, 64>>, <<4, 32>>, <<8, 16>>, <<16, 8>>, <<32, 4>>, <<64, 2>>, <<128, 1>>}
      OBVIOUS
    <3>2. v < 2 * b
      BY <2>7
    <3> HIDE DEF a, b
    <3>3. (((v + x * (2 * b)) % 256) \div (2 * b) + ((x \div a + t * b) % 256) * a) % 128 = x
      BY <1>2, <2>7, <3>1, <3>2, Halves
    <3> QED
      BY <3>3 DEF a, b
  <2>9. 2 * 4 = 8
    OBVIOUS
  <2> QED
    BY <2>3, <2>4, <2>5, <2>6, <2>8, <2>9 DEF x, v, t
<1>16. CASE j = 8 * k + 6
  <2>0. PICK i \in Nat : i = 7 * k + 5
    BY <1>1
  <2>1. /\ (7 * j) \div 8 = i /\ (7 * j) % 8 = 2 /\ i \in Nat /\ i + 1 \in Nat
        /\ (8 * i) \div 7 = j - 1 /\ (8 * i) % 7 = 5 /\ j > 0 /\ (j - 1) + 1 = j
        /\ (8 * (i + 1)) \div 7 = j /\ (8 * (i + 1)) % 7 = 6 /\ (j + 1) + 1 = j + 2
    BY <1>1, <1>16, <2>0
  <2>2. /\ 2^5 = 32 /\ 2^(7 - 5) = 4 /\ 2^6 = 64 /\ 2^(7 - 6) = 2
        /\ 2^2 = 4 /\ 2^(8 - 2) = 64
    OBVIOUS
  <2>3. Bits(s, i) = (w \div 32 + x * 4) % 256
    <3>1. Bits(s, i) = (Septet(s, j - 1) \div 32 + Septet(s, (j - 1) + 1) * 4) % 256
      <4>1. Bits(s, i) = Mixed(s, j - 1, 5)
        BY <2>1, BitsIs, Zenon
      <4> QED
        BY <2>2, <4>1 DEF Mixed
    <3> QED
      BY <2>1, <3>1
  <2>4. SeptetFrom(o, 7 * j) = (Zeros(o, i) \div 4 + Zeros(o, i + 1) * 64) % 128
    <3>1. SeptetFrom(o, 7 * j) = Cutout(o, i, 2)
      BY <2>1, SeptetFromIs, Zenon
    <3> QED
      BY <2>2, <3>1 DEF Cutout
  <2>5. Zeros(o, i) = Bits(s, i) /\ Zeros(o, i + 1) = Bits(s, i + 1)
    BY <2>1, PacksAt
  <2>6. Bits(s, i + 1) = (x \div 64 + y * 2) % 256
    <3>1. Bits(s, i + 1) = Mixed(s, j, 6)
      BY <2>1, BitsIs, Zenon
    <3> QED
      BY <2>2, <3>1 DEF Mixed
  <2> DEFINE v == w \div 32
             t == y
  <2> HIDE DEF x, y, z, w
  <2>7. v \in Nat /\ v < 2 * 2 /\ t \in Nat
    BY <1>2, <2>1
  <2> HIDE DEF v, t
  <2>8. (((v + x * (2 * 2)) % 256) \div (2 * 2) + ((x \div 64 + t * 2) % 256) * 64) % 128 = x
    <3> DEFINE a == 64
               b == 2
    <3>1. <<a, b>> \in {<<2, 64>>, <<4, 32>>, <<8, 16>>, <<16, 8>>, <<32, 4>>, <<64, 2>>, <<128, 1>>}
      OBVIOUS
    <3>2. v < 2 * b
      BY <2>7
    <3> HIDE DEF a, b
    <3>3. (((v + x * (2 * b)) % 256) \div (2 * b) + ((x \div a + t * b) % 256) * a) % 128 = x
      BY <1>2, <2>7, <3>1, <3>2, Halves
    <3> QED
      BY <3>3 DEF a, b
  <2>9. 2 * 2 = 4
    OBVIOUS
  <2> QED
    BY <2>3, <2>4, <2>5, <2>6, <2>8, <2>9 DEF x, v, t
<1>17. CASE j = 8 * k + 7
  <2>0. PICK i \in Nat : i = 7 * k + 6
    BY <1>1
  <2>1. /\ (7 * j) \div 8 = i /\ (7 * j) % 8 = 1 /\ i \in Nat /\ i + 1 \in Nat
        /\ (8 * i) \div 7 = j - 1 /\ (8 * i) % 7 = 6 /\ j > 0 /\ (j - 1) + 1 = j
        /\ (8 * (i + 1)) \div 7 = j + 1 /\ (8 * (i + 1)) % 7 = 0 /\ (j + 1) + 1 = j + 2
    BY <1>1, <1>17, <2>0
  <2>2. /\ 2^6 = 64 /\ 2^(7 - 6) = 2 /\ 2^0 = 1 /\ 2^(7 - 0) = 128
        /\ 2^1 = 2 /\ 2^(8 - 1) = 128
    OBVIOUS
  <2>3. Bits(s, i) = (w \div 64 + x * 2) % 256
    <3>1. Bits(s, i) = (Septet(s, j - 1) \div 64 + Septet(s, (j - 1) + 1) * 2) % 256
      <4>1. Bits(s, i) = Mixed(s, j - 1, 6)
        <5>1. (8 * i) \div 7 = j - 1 /\ (8 * i) % 7 = 6
          BY <2>1
        <5> QED
          BY <5>1, BitsIs, Zenon
      <4> QED
        BY <2>2, <4>1 DEF Mixed
    <3> QED
      BY <2>1, <3>1
  <2>4. SeptetFrom(o, 7 * j) = (Zeros(o, i) \div 2 + Zeros(o, i + 1) * 128) % 128
    <3>1. SeptetFrom(o, 7 * j) = Cutout(o, i, 1)
      BY <2>1, SeptetFromIs, Zenon
    <3> QED
      BY <2>2, <3>1 DEF Cutout
  <2>5. Zeros(o, i) = Bits(s, i) /\ Zeros(o, i + 1) = Bits(s, i + 1)
    BY <2>1, PacksAt
  <2> DEFINE v == w \div 64
             t == y + z * 128
  <2>6. Bits(s, i + 1) = (x \div 128 + t * 1) % 256
    <3>1. Bits(s, i + 1) = (Septet(s, j + 1) \div 1 + Septet(s, (j + 1) + 1) * 128) % 256
      <4>1. Bits(s, i + 1) = Mixed(s, j + 1, 0)
        <5>1. (8 * (i + 1)) \div 7 = j + 1 /\ (8 * (i + 1)) % 7 = 0
          BY <2>1
        <5> QED
          BY <5>1, BitsIs, Zenon
      <4> QED
        BY <2>2, <4>1 DEF Mixed
    <3>2. Bits(s, i + 1) = (y \div 1 + z * 128) % 256
      BY <2>1, <3>1
    <3> HIDE DEF x, y, z
    <3>3. x \div 128 = 0 /\ y \div 1 = y
      BY <1>2
    <3>4. 0 + t * 1 = y + z * 128
      BY <1>2
    <3> QED
      BY <3>2, <3>3, <3>4
  <2> HIDE DEF x, y, z, w
  <2>7. v \in Nat /\ v < 2 * 1 /\ t \in Nat
    BY <1>2, <2>1
  <2> HIDE DEF v, t
  <2>8. (((v + x * (2 * 1)) % 256) \div (2 * 1) + ((x \div 128 + t * 1) % 256) * 128) % 128 = x
    <3> DEFINE a == 128
               b == 1
    <3>1. <<a, b>> \in {<<2, 64>>, <<4, 32>>, <<8, 16>>, <<16, 8>>, <<32, 4>>, <<64, 2>>, <<128, 1>>}
      OBVIOUS
    <3>2. v < 2 * b
      BY <2>7
    <3> HIDE DEF a, b
    <3>3. (((v + x * (2 * b)) % 256) \div (2 * b) + ((x \div a + t * b) % 256) * a) % 128 = x
      BY <1>2, <2>7, <3>1, <3>2, Halves
    <3> QED
      BY <3>3 DEF a, b
  <2>9. 2 * 1 = 2
    OBVIOUS
  <2> QED
    BY <2>3, <2>4, <2>5, <2>6, <2>8, <2>9 DEF x, v, t
<1> QED
  BY <1>1, <1>10, <1>11, <1>12, <1>13, <1>14, <1>15, <1>16, <1>17

\* Packed octets, zeros behind them or not, hold the bits of their septets.
LEMMA PackPacks ==
  ASSUME NEW s \in Seq(SevenBit), NEW o \in Seq(Octet), PaddedTo(o, Pack[s])
  PROVE  Packs(o, s)
<1> DEFINE p == Pack[s]
           n == (7 * Len(s) + 7) \div 8
<1>1. n \in Nat /\ Len(p) = n /\ Len(o) \in Nat /\ Len(s) \in Nat
  BY PackType
<1>2. ASSUME NEW i \in 1..n
      PROVE  p[i] = Bits(s, i - 1)
  <2>1. p = [k \in 1..n |-> Bits(s, k - 1)]
    BY Zenon DEF Pack, SevenBit, Bits, Mixed
  <2> HIDE DEF p, n
  <2> QED
    BY <2>1
<1> HIDE DEF p
<1>3. Len(p) <= Len(o) /\ \A i \in 1..Len(o) : o[i] = IF i <= Len(p) THEN p[i] ELSE 0
  BY DEF PaddedTo, p
<1>4. ASSUME NEW i \in Nat PROVE Zeros(o, i) = Bits(s, i)
  <2>1. CASE i < n
    <3> DEFINE j == i + 1
    <3>1. j \in 1..n /\ j \in 1..Len(o) /\ j - 1 = i /\ i < Len(o) /\ j <= Len(p)
      BY <1>1, <1>3, <2>1
    <3> HIDE DEF j, n
    <3>2. o[j] = p[j]
      BY <1>3, <3>1
    <3>3. p[j] = Bits(s, i)
      BY <1>2, <3>1
    <3>4. Zeros(o, i) = o[j]
      BY <3>1 DEF Zeros, j
    <3> QED
      BY <3>2, <3>3, <3>4
  <2>2. CASE ~(i < n)
    <3> DEFINE q == (8 * i) \div 7
               r == (8 * i) % 7
    <3>1. q \in Nat /\ ~(q < Len(s)) /\ ~(q + 1 < Len(s)) /\ r \in 0..6
      BY <1>1, <2>2
    <3>2. Bits(s, i) = Mixed(s, q, r)
      BY Zenon DEF Bits
    <3> HIDE DEF q, r
    <3>3. Septet(s, q) = 0 /\ Septet(s, q + 1) = 0
      BY <3>1 DEF Septet
    <3>4. Mixed(s, q, r) = (0 \div 2^r + 0 * 2^(7 - r)) % 256
      BY <3>3 DEF Mixed
    <3>5. (0 \div 2^r + 0 * 2^(7 - r)) % 256 = 0
      <4>1. CASE r = 0
        BY <4>1
      <4>2. CASE r = 1
        BY <4>2
      <4>3. CASE r = 2
        BY <4>3
      <4>4. CASE r = 3
        BY <4>4
      <4>5. CASE r = 4
        BY <4>5
      <4>6. CASE r = 5
        BY <4>6
      <4>7. CASE r = 6
        BY <4>7
      <4> QED
        BY <3>1, <4>1, <4>2, <4>3, <4>4, <4>5, <4>6, <4>7
    <3>6. Zeros(o, i) = 0
      <4>1. CASE i < Len(o)
        <5>1. i + 1 \in 1..Len(o) /\ ~(i + 1 <= Len(p))
          BY <1>1, <2>2, <4>1
        <5> HIDE DEF n
        <5>2. o[i + 1] = 0
          BY <1>3, <5>1
        <5> QED
          BY <4>1, <5>2 DEF Zeros
      <4>2. CASE ~(i < Len(o))
        BY <4>2 DEF Zeros
      <4> QED
        BY <4>1, <4>2
    <3> QED
      BY <3>2, <3>4, <3>5, <3>6
  <2> QED
    BY <2>1, <2>2
<1> QED
  BY <1>4 DEF Packs

\* gsm_to8Bit cuts every septet out where its bits begin.
LEMMA UnpackedIs ==
  ASSUME NEW o, NEW n
  PROVE  /\ Unpacked(o, n, 0) = [i \in 1..n |-> SeptetFrom(o, 7 * (i - 1))]
         /\ Unpacked(o, n, 1) = [i \in 1..n |-> IF i = 1 THEN Zeros(o, 0) \div 2
                                                ELSE SeptetFrom(o, (7 * i) - 6)]
<1>1. Unpacked(o, n, 0) = [i \in 1..n |-> SeptetFrom(o, 7 * (i - 1))]
  BY Zenon DEF Unpacked, SeptetFrom, Cutout, Zeros
<1>2. Unpacked(o, n, 1) = [i \in 1..n |->
          IF 1 = 0 THEN SeptetFrom(o, 7 * (i - 1))
          ELSE IF i = 1 THEN Zeros(o, 0) \div 2 ELSE SeptetFrom(o, (7 * i) - 6)]
  BY Zenon DEF Unpacked, SeptetFrom, Cutout, Zeros
<1> QED
  BY <1>1, <1>2

\* Septets that are packed come out again, whatever is packed behind them.
LEMMA SeptetsBack ==
  ASSUME NEW s \in Seq(SevenBit), NEW o \in Seq(Octet), PaddedTo(o, Pack[s])
  PROVE  Unpacked(o, Len(s), 0) = s
<1> DEFINE n == Len(s)
<1>1. Packs(o, s)
  BY PackPacks
<1>2. ASSUME NEW i \in 1..n PROVE SeptetFrom(o, 7 * (i - 1)) = s[i]
  <2> DEFINE j == i - 1
  <2>1. j \in Nat /\ j < Len(s) /\ j + 1 = i
    OBVIOUS
  <2>2. Septet(s, j) = s[i]
    BY <2>1 DEF Septet
  <2> HIDE DEF j
  <2>3. SeptetFrom(o, 7 * j) = Septet(s, j)
    BY <1>1, <2>1, SeptetBack
  <2> QED
    BY <2>2, <2>3 DEF j
<1>3. Unpacked(o, n, 0) = [i \in 1..n |-> SeptetFrom(o, 7 * (i - 1))]
  BY UnpackedIs
<1> QED
  BY <1>2, <1>3

\* Behind a header they do too: the first one fills the octet it ends in.
LEMMA SeptetsBehind ==
  ASSUME NEW s \in Seq(SevenBit), s # <<>>, NEW o \in Seq(Octet),
         PaddedTo(o, <<Head(s) * 2>> \o Pack[Tail(s)])
  PROVE  Unpacked(o, Len(s), 1) = s
<1> DEFINE n == Len(s)
           t == Tail(s)
           p == Pack[t]
           x == Head(s) * 2
           q == <<x>> \o p
           r == Tail(o)
<1>1. t \in Seq(SevenBit) /\ n \in Nat \ {0} /\ Len(t) = n - 1 /\ Head(s) = s[1]
      /\ \A i \in 1..(n - 1) : t[i] = s[i + 1]
  BY EmptySeq
<1>2. s[1] \in Nat /\ s[1] <= 127
  BY <1>1, ElementOfSeq, SevenBitIs
<1>3. x \in Octet /\ p \in Seq(Octet) /\ Len(p) \in Nat
  <2>1. x \in Nat /\ x <= 255
    BY <1>1, <1>2
  <2> HIDE DEF x, t, n
  <2>2. x \in Octet
    BY <2>1, OctetIs
  <2>3. p \in Seq(Octet)
    BY <1>1, PackType
  <2> HIDE DEF p
  <2> QED
    BY <2>2, <2>3
<1> HIDE DEF n, t, p, x
<1>4. q \in Seq(Octet) /\ Len(q) = Len(p) + 1 /\ q[1] = x /\ \A i \in 1..Len(p) : q[i + 1] = p[i]
  BY <1>3
<1>5. Len(q) <= Len(o) /\ \A i \in 1..Len(o) : o[i] = IF i <= Len(q) THEN q[i] ELSE 0
  BY Zenon DEF PaddedTo, p, x, t
<1> HIDE DEF q
<1>6. Len(o) \in Nat /\ Len(o) >= 1 /\ o[1] = x
  BY <1>3, <1>4, <1>5
<1>7. r \in Seq(Octet) /\ Len(r) = Len(o) - 1 /\ \A i \in 1..(Len(o) - 1) : r[i] = o[i + 1]
  BY <1>6, EmptySeq
<1>8. PaddedTo(r, p)
  <2>1. ASSUME NEW i \in 1..Len(r) PROVE r[i] = IF i <= Len(p) THEN p[i] ELSE 0
    <3>1. i \in 1..(Len(o) - 1) /\ i + 1 \in 1..Len(o)
      BY <1>6, <1>7
    <3>2. r[i] = IF i + 1 <= Len(q) THEN q[i + 1] ELSE 0
      BY <1>5, <1>7, <3>1
    <3> QED
      BY <1>3, <1>4, <3>1, <3>2
  <2> QED
    BY <1>3, <1>4, <1>5, <1>6, <1>7, <2>1 DEF PaddedTo
<1>9. Packs(r, t)
  <2> HIDE DEF r
  <2> QED BY <1>1, <1>7, <1>8, PackPacks DEF p
<1>10. Zeros(o, 0) \div 2 = s[1]
  BY <1>1, <1>2, <1>6 DEF Zeros, x
<1>11. ASSUME NEW i \in 2..n PROVE SeptetFrom(o, (7 * i) - 6) = s[i]
  <2> DEFINE j == i - 2
             bit == 7 * j
             k == bit \div 8
  <2>1. /\ j \in Nat /\ k \in Nat /\ k + 1 \in Nat /\ ((7 * i) - 6) \div 8 = k + 1
        /\ ((7 * i) - 6) % 8 = bit % 8
    OBVIOUS
  <2>2. j < Len(t) /\ j + 1 \in 1..(n - 1) /\ (j + 1) + 1 = i
    BY <1>1
  <2>3. Septet(t, j) = s[i]
    BY <1>1, <2>2 DEF Septet
  <2>4. ASSUME NEW m \in Nat PROVE Zeros(o, m + 1) = Zeros(r, m)
    BY <1>6, <1>7 DEF Zeros
  <2> HIDE DEF r, j
  <2>5. SeptetFrom(r, 7 * j) = Septet(t, j)
    BY <1>1, <1>9, <2>1, SeptetBack
  <2> HIDE DEF bit, k
  <2>6. SeptetFrom(o, (7 * i) - 6) = Cutout(o, k + 1, bit % 8)
    BY <2>1 DEF SeptetFrom
  <2>7. SeptetFrom(r, bit) = Cutout(r, k, bit % 8)
    BY DEF SeptetFrom, k
  <2>8. Zeros(o, k + 1) = Zeros(r, k) /\ Zeros(o, (k + 1) + 1) = Zeros(r, k + 1)
    BY <2>1, <2>4
  <2>9. Cutout(o, k + 1, bit % 8) = Cutout(r, k, bit % 8)
    BY <2>8, Zenon DEF Cutout
  <2> QED
    BY <2>3, <2>5, <2>6, <2>7, <2>9 DEF bit
<1>12. Unpacked(o, n, 1) = [i \in 1..n |-> IF i = 1 THEN Zeros(o, 0) \div 2
                                          ELSE SeptetFrom(o, (7 * i) - 6)]
  BY UnpackedIs
<1>13. ASSUME NEW i \in 1..n
       PROVE  (IF i = 1 THEN Zeros(o, 0) \div 2 ELSE SeptetFrom(o, (7 * i) - 6)) = s[i]
  <2>1. CASE i = 1
    BY <1>10, <2>1
  <2>2. CASE i # 1
    <3>1. i \in 2..n
      BY <1>1, <2>2
    <3> QED
      BY <1>11, <2>2, <3>1
  <2> QED
    BY <2>1, <2>2
<1>14. s = [i \in 1..n |-> s[i]]
  BY DEF n
<1>15. Unpacked(o, n, 1) = [i \in 1..n |-> s[i]]
  BY <1>12, <1>13
<1> QED
  BY <1>14, <1>15 DEF n

------------------------------------------------------------------------------
(* Characters of the 7-bit alphabet come back.                             *)

\* A character stands for one septet, or for two.
Plain7(c, p) == \E v \in SevenBit : v # 27 /\ Ascii(v) = c /\ p = <<v>>
Escaped7(c, p) == \E e \in Escapes : e[1] = c /\ p = <<27, e[2]>>

LEMMA AsciiType ==
  ASSUME NEW s \in SevenBit
  PROVE  Ascii(s) \in Nat
<1>1. s \in Nat /\ s <= 127
  BY SevenBitIs
<1>2. CASE s < 32
  <2>1. s + 1 \in 1..32
    BY <1>1, <1>2
  <2>2. \A i \in 1..32 : Low[i] \in Nat
    BY DEF Low
  <2>3. Ascii(s) = Low[s + 1]
    BY <1>1, <1>2 DEF Ascii
  <2> QED
    BY <2>1, <2>2, <2>3
<1>3. CASE s = 36
  BY <1>3 DEF Ascii
<1>4. CASE s = 64
  BY <1>4 DEF Ascii
<1>5. CASE s \in 91..96
  <2>1. s - 90 \in 1..6
    BY <1>5
  <2>2. \A i \in 1..6 : High[i] \in Nat
    BY DEF High
  <2>3. Ascii(s) = High[s - 90]
    BY <1>5 DEF Ascii
  <2> QED
    BY <2>1, <2>2, <2>3
<1>6. CASE s \in 123..127
  <2>1. s - 122 \in 1..5
    BY <1>6
  <2>2. \A i \in 1..5 : <<228, 246, 241, 252, 224>>[i] \in Nat
    OBVIOUS
  <2>3. Ascii(s) = <<228, 246, 241, 252, 224>>[s - 122]
    BY <1>6 DEF Ascii
  <2> QED
    BY <2>1, <2>2, <2>3
<1>7. CASE ~(s < 32) /\ s # 36 /\ s # 64 /\ s \notin 91..96 /\ s \notin 123..127
  <2>1. Ascii(s) = s
    BY <1>1, <1>7 DEF Ascii
  <2> QED
    BY <1>1, <2>1
<1> QED
  BY <1>1, <1>2, <1>3, <1>4, <1>5, <1>6, <1>7

LEMMA CharacterPlaces ==
  ASSUME NEW c \in Alphabet
  PROVE  c \in SevenBit /\ (Plain7(c, Septets7(c)) \/ Escaped7(c, Septets7(c)))
<1>1. c \in SevenBit /\ c \in Nat /\ c <= 127
  BY SevenBitIs DEF Alphabet
<1>2. CASE \E e \in Escapes : e[1] = c
  <2> DEFINE e == CHOOSE e \in Escapes : e[1] = c
  <2>1. e \in Escapes /\ e[1] = c
    BY <1>2
  <2>2. Septets7(c) = <<27, e[2]>>
    BY <1>2 DEF Septets7
  <2> HIDE DEF e
  <2> QED
    BY <1>1, <2>1, <2>2 DEF Escaped7
<1>3. CASE ~\E e \in Escapes : e[1] = c
  <2> DEFINE places == {s \in SevenBit : Ascii(s) = c}
             x == IF places = {} THEN c ELSE CHOOSE s \in places : \A t \in places : s <= t
  <2>1. Septets7(c) = <<x>>
    BY <1>3 DEF Septets7, SevenBit
  <2>2. places \in SUBSET Nat /\ places \subseteq SevenBit
    BY SevenBitIs
  <2>3. places # {}
    BY <1>3 DEF Alphabet
  <2>4. x \in places
    <3> HIDE DEF places
    <3>1. \E s \in places : \A t \in places : s <= t
      BY <2>2, <2>3, Least
    <3> QED
      BY <2>3, <3>1
  <2> HIDE DEF x
  <2>5. x \in SevenBit /\ Ascii(x) = c
    BY <2>4
  <2>6. x # 27
    <3>1. Ascii(27) = 255
      BY DEF Ascii, Low
    <3> QED
      BY <1>1, <2>5, <3>1
  <2> QED
    BY <1>1, <2>1, <2>5, <2>6 DEF Plain7
<1> QED
  BY <1>2, <1>3

\* The printable characters but the back quote are in the alphabet, and so are
\* the two of a line end.
LEMMA Printable ==
  ASSUME NEW c \in ((32..126) \ {96}) \cup {10, 13}
  PROVE  c \in Alphabet
<1>1. c \in SevenBit
  BY SevenBitIs
<1>2. CASE c \in {10, 13, 36, 64, 95}
  <2>1. Ascii(10) = 10 /\ Ascii(13) = 13 /\ Ascii(2) = 36 /\ Ascii(0) = 64 /\ Ascii(17) = 95
    BY DEF Ascii, Low
  <2>2. 10 \in SevenBit /\ 13 \in SevenBit /\ 2 \in SevenBit /\ 0 \in SevenBit /\ 17 \in SevenBit
    BY SevenBitIs
  <2>3. \E v \in SevenBit : Ascii(v) = c
    BY <1>2, <2>1, <2>2
  <2> QED
    BY <1>1, <2>3 DEF Alphabet
<1>3. CASE c \in {91, 92, 93, 94, 123, 124, 125, 126}
  <2>1. \E e \in Escapes : e[1] = c
    BY <1>3 DEF Escapes
  <2> QED
    BY <1>1, <2>1 DEF Alphabet
<1>4. CASE c \notin {10, 13, 36, 64, 95} /\ c \notin {91, 92, 93, 94, 123, 124, 125, 126}
  <2>1. Ascii(c) = c
    BY <1>4 DEF Ascii
  <2> QED
    BY <1>1, <2>1 DEF Alphabet
<1> QED
  BY <1>2, <1>3, <1>4

CharOut(s, i) ==
    IF EscapedBy(s, i) # {} THEN <<(CHOOSE e \in EscapedBy(s, i) : TRUE)[1]>>
    ELSE <<Ascii(s[i])>>
CharStep(s, i) == IF EscapedBy(s, i) # {} THEN 2 ELSE 1

\* What is read at a septet that is no escape, and at one that is.
LEMMA ReadPlain ==
  ASSUME NEW s, NEW i, s[i] # 27
  PROVE  CharOut(s, i) = <<Ascii(s[i])>> /\ CharStep(s, i) = 1
<1>1. EscapedBy(s, i) = {}
  BY DEF EscapedBy
<1> QED
  BY <1>1 DEF CharOut, CharStep

LEMMA ReadEscaped ==
  ASSUME NEW s \in Seq(SevenBit), NEW i \in Nat, i < Len(s), s[i] = 27,
         NEW e \in Escapes, s[i + 1] = e[2]
  PROVE  CharOut(s, i) = <<e[1]>> /\ CharStep(s, i) = 2
<1>1. \A a, b \in Escapes : a[2] = b[2] => a = b
  <2> SUFFICES ASSUME NEW a \in Escapes, NEW b \in Escapes, a[2] = b[2] PROVE a = b
    OBVIOUS
  <2>1. CASE b = <<12, 10>>
    BY <2>1 DEF Escapes
  <2>2. CASE b = <<94, 20>>
    BY <2>2 DEF Escapes
  <2>3. CASE b = <<123, 40>>
    BY <2>3 DEF Escapes
  <2>4. CASE b = <<125, 41>>
    BY <2>4 DEF Escapes
  <2>5. CASE b = <<92, 47>>
    BY <2>5 DEF Escapes
  <2>6. CASE b = <<91, 60>>
    BY <2>6 DEF Escapes
  <2>7. CASE b = <<126, 61>>
    BY <2>7 DEF Escapes
  <2>8. CASE b = <<93, 62>>
    BY <2>8 DEF Escapes
  <2>9. CASE b = <<124, 64>>
    BY <2>9 DEF Escapes
  <2> QED
    BY <2>1, <2>2, <2>3, <2>4, <2>5, <2>6, <2>7, <2>8, <2>9 DEF Escapes
<1>2. EscapedBy(s, i) = {e}
  <2>1. ASSUME NEW a PROVE a \in EscapedBy(s, i) <=> a = e
    <3>1. a \in EscapedBy(s, i) <=> a \in Escapes /\ a[2] = e[2]
      BY Zenon DEF EscapedBy
    <3> QED
      BY <1>1, <3>1, Zenon
  <2> QED
    BY <2>1, Zenon
<1>3. (CHOOSE a \in EscapedBy(s, i) : TRUE) = e
  BY <1>2
<1> QED
  BY <1>2, <1>3 DEF CharOut, CharStep

LEMMA CharTypes ==
  ASSUME NEW s \in Seq(SevenBit)
  PROVE  /\ [i \in 1..Len(s) |-> CharOut(s, i)] \in Seq(Seq(Nat))
         /\ [i \in 1..Len(s) |-> CharStep(s, i)] \in [1..Len(s) -> 1..3]
         /\ Chars[s] = Scan([i \in 1..Len(s) |-> CharOut(s, i)], [i \in 1..Len(s) |-> CharStep(s, i)])
<1> DEFINE W == Seq(Nat)
<1>1. ASSUME NEW i \in 1..Len(s) PROVE CharOut(s, i) \in W
  <2>1. Ascii(s[i]) \in Nat
    BY AsciiType, ElementOfSeq
  <2>2. CASE EscapedBy(s, i) # {}
    <3> DEFINE e == CHOOSE e \in EscapedBy(s, i) : TRUE
    <3>1. e \in Escapes
      BY <2>2 DEF EscapedBy
    <3>2. CharOut(s, i) = <<e[1]>>
      BY <2>2 DEF CharOut
    <3> HIDE DEF e
    <3>3. e[1] \in Nat
      BY <3>1 DEF Escapes
    <3> QED
      BY <3>2, <3>3
  <2>3. CASE EscapedBy(s, i) = {}
    <3>1. CharOut(s, i) = <<Ascii(s[i])>>
      BY <2>3 DEF CharOut
    <3> QED
      BY <2>1, <3>1
  <2> QED
    BY <2>2, <2>3
<1>2. \A i \in 1..Len(s) : CharStep(s, i) \in 1..3
  BY DEF CharStep
<1>3. Chars[s] = Scan([i \in 1..Len(s) |-> CharOut(s, i)], [i \in 1..Len(s) |-> CharStep(s, i)])
  BY Zenon DEF Chars, CharOut, CharStep, SevenBit
<1> HIDE DEF W
<1>4. [i \in 1..Len(s) |-> CharOut(s, i)] \in Seq(W)
  BY <1>1
<1> QED
  BY <1>2, <1>3, <1>4 DEF W

LEMMA PrependPlaces ==
  ASSUME NEW V, NEW v \in V, NEW b \in Seq(V), NEW d, Joins(d, <<v>>, b)
  PROVE  d \in Seq(V) /\ Len(d) = Len(b) + 1 /\ d[1] = v /\ \A j \in 1..Len(b) : d[j + 1] = b[j]
BY DEF Joins

LEMMA PrependIs ==
  ASSUME NEW V, NEW v \in V, NEW b \in Seq(V), NEW c \in Seq(V), Len(c) = Len(b) + 1, c[1] = v,
         \A j \in 1..Len(b) : c[j + 1] = b[j]
  PROVE  Joins(c, <<v>>, b)
<1> DEFINE d == <<v>> \o b
<1>1. Joins(d, <<v>>, b)
  BY DEF Joins
<1>2. d \in Seq(V) /\ Len(d) = Len(b) + 1 /\ d[1] = v /\ \A j \in 1..Len(b) : d[j + 1] = b[j]
  OBVIOUS
<1> HIDE DEF d
<1>3. ASSUME NEW j \in 1..Len(c) PROVE c[j] = d[j]
  <2>1. CASE j = 1
    BY <1>2, <2>1
  <2>2. CASE j # 1
    <3> DEFINE k == j - 1
    <3>1. k \in 1..Len(b) /\ j = k + 1
      BY <2>2
    <3> HIDE DEF k
    <3> QED
      BY <1>2, <3>1
  <2> QED
    BY <2>1, <2>2
<1>4. c = d
  BY <1>2, <1>3, SeqEqual
<1> QED
  BY <1>1, <1>4

LEMMA SubSeqFirst ==
  ASSUME NEW V, NEW x \in Seq(V), NEW n, n = Len(x), NEW i \in 1..n
  PROVE  Joins(SubSeq(x, i, n), <<x[i]>>, SubSeq(x, i + 1, n))
<1> DEFINE b == SubSeq(x, i + 1, n)
           c == SubSeq(x, i, n)
           v == x[i]
           l == Len(b)
<1>1. v \in V /\ b \in Seq(V) /\ c \in Seq(V) /\ Len(c) = l + 1 /\ c[1] = v 
  OBVIOUS
<1>2. ASSUME NEW j \in 1..l PROVE c[j + 1] = b[j]
  OBVIOUS
<1> HIDE DEF b, c, v, l
<1>3. Len(c) = Len(b) + 1 /\ \A j \in 1..Len(b) : c[j + 1] = b[j]
  BY <1>1, <1>2 DEF l
<1>4. Joins(c, <<v>>, b)
  BY <1>1, <1>3, PrependIs, Zenon
<1> QED
  BY <1>4 DEF b, c, v

LEMMA JoinsLength ==
  ASSUME NEW V, NEW a, NEW b, NEW c, b \in Seq(V), c \in Seq(V), Joins(a, b, c)
  PROVE  Len(a) = Len(b) + Len(c)
BY DEF Joins

CharOuts(s) == [i \in 1..Len(s) |-> CharOut(s, i)]
CharSteps(s) == [i \in 1..Len(s) |-> CharStep(s, i)]
\* From where the septets of the i-th character stand, the rest of x is read.
CharsFrom(g, f, x, n, i) == g[Len(f[i - 1]) + 1] = SubSeq(x, i, n)

LEMMA CharsFromOn ==
  ASSUME NEW x \in Seq(Alphabet), NEW n \in Nat, n = Len(x),
         NEW q \in Seq(Seq(SevenBit)), Len(q) = n, \A i \in 1..n : q[i] = Septets7(x[i]),
         NEW f, Flattens(f, q, n), Pieces(q, n, SevenBit),
         NEW s, s = FlattenSeq(q), NEW m, m = Len(s),
         NEW g, Scans(g, CharOuts(s), CharSteps(s), m, m),
         NEW i \in 1..n, CharsFrom(g, f, x, n, i + 1)
  PROVE  CharsFrom(g, f, x, n, i)
<1> DEFINE b == f[i - 1]
           c == q[i]
           p == Len(b) + 1
           rest == SubSeq(x, i + 1, n)
<1>1. /\ s \in Seq(SevenBit) /\ c \in Seq(SevenBit) /\ b \in Seq(SevenBit) /\ f[i] \in Seq(SevenBit)
      /\ Joins(f[i], b, c) /\ Holds(s, b, c)
  BY FlattenPlaces
<1>2. x[i] \in Alphabet /\ c = Septets7(x[i])
  OBVIOUS
<1>3. g[Len(f[i]) + 1] = rest
  <2>1. (i + 1) - 1 = i
    OBVIOUS
  <2> QED
    BY <2>1 DEF CharsFrom
<1> HIDE DEF b, c, rest
<1>4. Len(f[i]) = Len(b) + Len(c) /\ m \in Nat /\ Len(b) \in Nat /\ Len(c) \in Nat
  <2>1. Len(f[i]) = Len(b) + Len(c)
    <3> DEFINE e == f[i]
    <3>1. b \in Seq(SevenBit) /\ c \in Seq(SevenBit) /\ Joins(e, b, c)
      BY <1>1
    <3> HIDE DEF e
    <3>2. Len(e) = Len(b) + Len(c)
      BY <3>1, JoinsLength
    <3> QED
      BY <3>2 DEF e
  <2> QED
    BY <1>1, <2>1
<1>5. Len(b) + Len(c) <= m /\ \A j \in 1..Len(c) : s[Len(b) + j] = c[j]
  BY <1>1 DEF Holds
<1>6. SubSeq(x, i, n) = <<x[i]>> \o rest
  <2>1. Joins(SubSeq(x, i, n), <<x[i]>>, SubSeq(x, i + 1, n))
    BY SubSeqFirst, Zenon
  <2> QED
    BY <2>1, Zenon DEF Joins, rest
<1>7. CASE Plain7(x[i], c)
  <2>1. PICK v \in SevenBit : v # 27 /\ Ascii(v) = x[i] /\ c = <<v>>
    BY <1>7 DEF Plain7
  <2>2. Len(c) = 1 /\ c[1] = v
    BY <2>1
  <2>3. p \in 1..m /\ s[p] = v /\ Len(f[i]) + 1 = p + 1
    BY <1>4, <1>5, <2>2
  <2> HIDE DEF p
  <2>4. CharOut(s, p) = <<x[i]>> /\ CharStep(s, p) = 1
    BY <2>1, <2>3, ReadPlain
  <2>5. CharOuts(s)[p] = <<x[i]>> /\ CharSteps(s)[p] = 1
    BY <2>3, <2>4 DEF CharOuts, CharSteps
  <2>6. Joins(g[p], CharOuts(s)[p], g[p + CharSteps(s)[p]])
    BY <1>4, <2>3 DEF Scans
  <2>7. g[p] = <<x[i]>> \o rest
    BY <1>3, <2>3, <2>5, <2>6, Zenon DEF Joins
  <2> QED
    BY <1>6, <2>7 DEF CharsFrom, p, b
<1>8. CASE Escaped7(x[i], c)
  <2>1. PICK e \in Escapes : e[1] = x[i] /\ c = <<27, e[2]>>
    BY <1>8 DEF Escaped7
  <2>2. Len(c) = 2 /\ c[1] = 27 /\ c[2] = e[2]
    BY <2>1
  <2>3. p \in 1..m /\ p \in Nat /\ p < m /\ s[p] = 27 /\ s[p + 1] = e[2] /\ Len(f[i]) + 1 = p + 2
    BY <1>4, <1>5, <2>2
  <2> HIDE DEF p
  <2>4. CharOut(s, p) = <<x[i]>> /\ CharStep(s, p) = 2
    BY <1>1, <2>1, <2>3, ReadEscaped
  <2>5. CharOuts(s)[p] = <<x[i]>> /\ CharSteps(s)[p] = 2
    BY <2>3, <2>4 DEF CharOuts, CharSteps
  <2>6. Joins(g[p], CharOuts(s)[p], g[p + CharSteps(s)[p]])
    BY <1>4, <2>3 DEF Scans
  <2>7. g[p] = <<x[i]>> \o rest
    BY <1>3, <2>3, <2>5, <2>6, Zenon DEF Joins
  <2> QED
    BY <1>6, <2>7 DEF CharsFrom, p, b
<1>9. Plain7(x[i], c) \/ Escaped7(x[i], c)
  BY <1>2, CharacterPlaces
<1> QED
  BY <1>7, <1>8, <1>9

LEMMA CharsScan ==
  ASSUME NEW s \in Seq(SevenBit)
  PROVE  \E g \in [1..(Len(s) + 3) -> Seq(Nat)] :
            Scans(g, CharOuts(s), CharSteps(s), Len(s), Len(s)) /\ Chars[s] = g[1]
<1> DEFINE W == Seq(Nat)
           out == CharOuts(s)
           step == CharSteps(s)
           n == Len(s)
<1>1. <<>> \in W /\ (\A u, v \in W : u \o v \in W)
  OBVIOUS
<1>2. out \in Seq(W) /\ step \in [1..n -> 1..3] /\ Chars[s] = Scan(out, step)
  BY CharTypes, Zenon DEF CharOuts, CharSteps
<1>3. n = Len(out) /\ n \in Nat
  <2>1. n \in Nat /\ out = [i \in 1..n |-> CharOut(s, i)]
    BY DEF CharOuts
  <2> HIDE DEF n, out
  <2> QED
    BY <2>1
<1> HIDE DEF W, out, step, n
<1>4. PICK g \in [1..(n + 3) -> W] : Scans(g, out, step, n, n) /\ Scan(out, step) = g[1]
  BY <1>1, <1>2, <1>3, Scanning
<1> QED
  BY <1>2, <1>4 DEF W, out, step, n

\* A text of the alphabet comes back from its septets.
LEMMA CharsBack ==
  ASSUME NEW x \in Seq(Alphabet)
  PROVE  Chars[ToSeptets[x]] = x
<1> DEFINE n == Len(x)
           q == [i \in DOMAIN x |-> Septets7(x[i])]
           s == ToSeptets[x]
           m == Len(s)
<1>1. x \in Seq(SevenBit) /\ n \in Nat /\ n = Len(x)
  BY DEF Alphabet
<1>2. s = FlattenSeq(q) /\ q \in Seq(Seq(SevenBit)) /\ s \in Seq(SevenBit)
  BY <1>1, ToSeptetsType
<1>3. Len(q) = n /\ \A i \in 1..n : q[i] = Septets7(x[i])
  BY <1>1
<1> HIDE DEF q, s, n
<1>4. m \in Nat
  BY <1>2
<1>5. PICK f \in [0..Len(q) -> Seq(SevenBit)] : Flattens(f, q, Len(q))
  BY <1>2, Flattening
<1>6. Flattens(f, q, n) /\ Pieces(q, n, SevenBit)
  BY <1>2, <1>3, <1>5 DEF Pieces
<1> HIDE DEF m
<1>9. PICK g \in [1..(m + 3) -> Seq(Nat)] :
        Scans(g, CharOuts(s), CharSteps(s), m, m) /\ Chars[s] = g[1]
  <2>1. \E g \in [1..(Len(s) + 3) -> Seq(Nat)] :
            Scans(g, CharOuts(s), CharSteps(s), Len(s), Len(s)) /\ Chars[s] = g[1]
    BY <1>2, CharsScan
  <2> QED
    BY <2>1, Zenon DEF m
<1> DEFINE S == {k \in Nat : k <= n => CharsFrom(g, f, x, n, (n - k) + 1)}
<1>10. 0 \in S
  <2>1. (n - 0) + 1 = n + 1 /\ (n + 1) - 1 = n
    BY <1>1
  <2>2. f[n] = s
    BY <1>2, <1>6, FlattensEnds
  <2>3. g[m + 1] = <<>>
    <3>1. m + 1 \in (m + 1)..(m + 3)
      BY <1>4
    <3> QED
      BY <1>9, <3>1 DEF Scans
  <2>4. SubSeq(x, n + 1, n) = <<>>
    BY <1>1
  <2> QED
    BY <2>1, <2>2, <2>3, <2>4 DEF CharsFrom, m
<1>11. ASSUME NEW k \in Nat, k \in S PROVE k + 1 \in S
  <2>1. SUFFICES ASSUME k + 1 <= n PROVE CharsFrom(g, f, x, n, (n - (k + 1)) + 1)
    OBVIOUS
  <2> DEFINE i == (n - (k + 1)) + 1
  <2>2. i \in 1..n /\ i + 1 = (n - k) + 1 /\ k <= n
    BY <1>1, <2>1
  <2>3. CharsFrom(g, f, x, n, i + 1)
    BY <1>11, <2>2
  <2> HIDE DEF i
  <2>4. CharsFrom(g, f, x, n, i)
    BY <1>1, <1>2, <1>3, <1>6, <1>9, <2>2, <2>3, CharsFromOn DEF m
  <2> QED
    BY <2>4 DEF i
<1>12. n \in S
  <2> HIDE DEF S
  <2>1. Nat \subseteq S
    BY <1>10, <1>11, Induct
  <2> QED
    BY <1>1, <2>1
<1>13. CharsFrom(g, f, x, n, 1)
  <2>1. (n - n) + 1 = 1
    BY <1>1
  <2> QED
    BY <1>1, <1>12, <2>1
<1>14. Len(f[1 - 1]) + 1 = 1
  BY <1>6, FlattensEnds
<1>15. SubSeq(x, 1, n) = x
  BY <1>1
<1>16. g[1] = x
  BY <1>13, <1>14, <1>15, Zenon DEF CharsFrom
<1> QED
  BY <1>9, <1>16 DEF s
------------------------------------------------------------------------------
(* Characters of UCS-2 come back.                                          *)

\* The bytes of a unit, and what is given out for the units of o.
UnitUtf8(v) ==
    CASE v < 128 -> <<v>>
      [] 128 <= v /\ v < 2048 -> <<192 + (v \div 64), 128 + (v % 64)>>
      [] OTHER -> <<224 + (v \div 4096), 128 + ((v \div 64) % 64), 128 + (v % 64)>>
UnitAt(o, i) == 256 * o[(2 * i) - 1] + o[2 * i]
Utf8Out(o) == [i \in 1..(Len(o) \div 2) |-> UnitUtf8(UnitAt(o, i))]

LEMMA Utf8Is ==
  ASSUME NEW o \in Seq(Octet)
  PROVE  Utf8[o] = FlattenSeq(Utf8Out(o))
BY Zenon DEF Utf8, Octet, Utf8Out, UnitAt, UnitUtf8

LEMMA UnitUtf8Type ==
  ASSUME NEW v \in Nat
  PROVE  UnitUtf8(v) \in Seq(Nat)
<1> DEFINE a == 192 + (v \div 64)
           b == 128 + (v % 64)
           c == 224 + (v \div 4096)
           d == 128 + ((v \div 64) % 64)
<1>1. a \in Nat /\ b \in Nat /\ c \in Nat /\ d \in Nat
  OBVIOUS
<1>2. UnitUtf8(v) = IF v < 128 THEN <<v>> ELSE IF v < 2048 THEN <<a, b>> ELSE <<c, d, b>>
  BY DEF UnitUtf8
<1> HIDE DEF a, b, c, d
<1> QED
  BY <1>1, <1>2

LEMMA Utf8Type ==
  ASSUME NEW o \in Seq(Octet)
  PROVE  Utf8Out(o) \in Seq(Seq(Nat)) /\ Len(Utf8Out(o)) = Len(o) \div 2
<1> DEFINE W == Seq(Nat)
           n == Len(o) \div 2
<1>1. n \in Nat /\ 2 * n <= Len(o)
  OBVIOUS
<1>2. ASSUME NEW i \in 1..n PROVE UnitUtf8(UnitAt(o, i)) \in W
  <2>1. (2 * i) - 1 \in 1..Len(o) /\ 2 * i \in 1..Len(o)
    BY <1>1
  <2>2. o[(2 * i) - 1] \in Nat /\ o[2 * i] \in Nat
    BY <2>1, OctetIs, ElementOfSeq
  <2>3. UnitAt(o, i) \in Nat
    BY <2>2 DEF UnitAt
  <2> QED
    BY <2>3, UnitUtf8Type
<1>3. Utf8Out(o) = [i \in 1..n |-> UnitUtf8(UnitAt(o, i))]
  BY DEF Utf8Out
<1> HIDE DEF W, n
<1>4. Utf8Out(o) \in Seq(W) /\ Len(Utf8Out(o)) = n
  BY <1>1, <1>2, <1>3
<1> QED
  BY <1>4 DEF W, n

\* A unit in front of others gives its bytes in front of theirs.
LEMMA Utf8Prepend ==
  ASSUME NEW a \in Octet, NEW b \in Octet, NEW v \in Seq(Octet), NEW o \in Seq(Octet),
         Joins(o, <<a, b>>, v)
  PROVE  Joins(Utf8[o], UnitUtf8(256 * a + b), Utf8[v])
<1> DEFINE W == Seq(Nat)
           n == Len(v) \div 2
           p == Utf8Out(o)
           q == Utf8Out(v)
           u == UnitUtf8(256 * a + b)
           r == <<u>> \o q
<1>1. Len(o) = Len(v) + 2 /\ o[1] = a /\ o[2] = b /\ \A j \in 1..Len(v) : o[j + 2] = v[j]
  BY DEF Joins
<1>2. n \in Nat /\ Len(o) \div 2 = n + 1 /\ 2 * n <= Len(v)
  BY <1>1
<1>3. p \in Seq(W) /\ Len(p) = n + 1 /\ q \in Seq(W) /\ Len(q) = n
  BY <1>2, Utf8Type
<1>4. u \in W
  <2>1. a \in Nat /\ b \in Nat
    BY OctetIs
  <2> QED
    BY <2>1, UnitUtf8Type
<1>5. ASSUME NEW i \in 1..(n + 1) PROVE p[i] = UnitUtf8(UnitAt(o, i))
  BY <1>2 DEF Utf8Out
<1>6. ASSUME NEW i \in 1..n PROVE q[i] = UnitUtf8(UnitAt(v, i))
  BY DEF Utf8Out
<1> HIDE DEF p, q, n, W
<1>7. p[1] = u
  <2>1. UnitAt(o, 1) = 256 * a + b
    BY <1>1 DEF UnitAt
  <2>2. 1 \in 1..(n + 1)
    BY <1>2
  <2> QED
    BY <1>5, <2>1, <2>2
<1>8. ASSUME NEW i \in 1..n PROVE p[i + 1] = q[i]
  <2>1. (2 * i) - 1 \in 1..Len(v) /\ 2 * i \in 1..Len(v)
    BY <1>2
  <2>2. (2 * (i + 1)) - 1 = ((2 * i) - 1) + 2 /\ 2 * (i + 1) = (2 * i) + 2
    BY <1>2
  <2>3. UnitAt(o, i + 1) = UnitAt(v, i)
    BY <1>1, <2>1, <2>2 DEF UnitAt
  <2>4. i + 1 \in 1..(n + 1)
    BY <1>2
  <2> QED
    BY <1>5, <1>6, <2>3, <2>4
<1> HIDE DEF u
<1>9. Joins(p, <<u>>, q)
  BY <1>3, <1>4, <1>7, <1>8, PrependIs
<1>10. FlattenSeq(p) = FlattenSeq(<<u>>) \o FlattenSeq(q)
  <2>1. <<u>> \in Seq(Seq(Nat)) /\ q \in Seq(Seq(Nat))
    BY <1>3, <1>4 DEF W
  <2>2. FlattenSeq(<<u>> \o q) = FlattenSeq(<<u>>) \o FlattenSeq(q)
    BY <2>1, FlattenConcat
  <2> QED
    BY <1>9, <2>2, Zenon DEF Joins
<1>11. FlattenSeq(<<u>>) = u
  BY <1>4, FlattenOne DEF W
<1>12. Utf8[o] = FlattenSeq(p) /\ Utf8[v] = FlattenSeq(q)
  BY Utf8Is DEF p, q
<1> QED
  BY <1>10, <1>11, <1>12, Zenon DEF Joins, u

LEMMA Utf8One ==
  ASSUME NEW a \in Nat, a < 128
  PROVE  UnitUtf8(a) = <<a>>
BY DEF UnitUtf8

LEMMA Utf8Two ==
  ASSUME NEW a \in Nat, a >= 194, a < 224, NEW b \in Nat, b >= 128, b < 192,
         NEW v, v = (a % 32) * 64 + (b % 64)
  PROVE  UnitUtf8(v) = <<a, b>>
<1>1. a % 32 = a - 192 /\ b % 64 = b - 128
  OBVIOUS
<1>2. v \in Nat /\ v >= 128 /\ v < 2048 /\ v \div 64 = a - 192 /\ v % 64 = b - 128
  BY <1>1
<1>3. UnitUtf8(v) = <<192 + (v \div 64), 128 + (v % 64)>>
  BY <1>2 DEF UnitUtf8
<1>4. 192 + (v \div 64) = a /\ 128 + (v % 64) = b
  BY <1>2
<1> QED
  BY <1>3, <1>4

OfThree(a, b, c) ==
    /\ a \in Nat /\ a >= 224 /\ a < 240 /\ b \in Nat /\ b >= 128 /\ b < 192
    /\ c \in Nat /\ c >= 128 /\ c < 192 /\ (a = 224 => b >= 160)

LEMMA Utf8Three ==
  ASSUME NEW a, NEW b, NEW c, OfThree(a, b, c), NEW v, v = (a % 16) * 4096 + (b % 64) * 64 + (c % 64)
  PROVE  UnitUtf8(v) = <<a, b, c>>
<1>0. /\ a \in Nat /\ a >= 224 /\ a < 240 /\ b \in Nat /\ b >= 128 /\ b < 192
      /\ c \in Nat /\ c >= 128 /\ c < 192 /\ (a = 224 => b >= 160)
  BY DEF OfThree
<1> DEFINE h == (a - 224) * 64 + (b - 128)
<1>1. a % 16 = a - 224 /\ b % 64 = b - 128 /\ c % 64 = c - 128
  BY <1>0
<1>2. h \in Nat /\ h >= 32 /\ v = h * 64 + (c - 128) /\ h \div 64 = a - 224 /\ h % 64 = b - 128
  BY <1>0, <1>1
<1> HIDE DEF h
<1>3. v \in Nat /\ v >= 2048 /\ v \div 64 = h /\ v % 64 = c - 128
  BY <1>0, <1>2
<1>4. v \div 4096 = a - 224
  BY <1>0, <1>2, <1>3
<1>5. UnitUtf8(v) = <<224 + (v \div 4096), 128 + ((v \div 64) % 64), 128 + (v % 64)>>
  BY <1>3 DEF UnitUtf8
<1>6. 224 + (v \div 4096) = a /\ 128 + ((v \div 64) % 64) = b /\ 128 + (v % 64) = c
  BY <1>0, <1>2, <1>3, <1>4
<1> QED
  BY <1>5, <1>6

LEMMA ShortestAt ==
  ASSUME NEW x \in Seq(Octet), Shortest(x), NEW i \in 1..Len(x)
  PROVE  /\ x[i] \in Octet /\ x[i] \in Nat /\ x[i] \notin {192, 193} /\ (x[i] = 224 => x[i + 1] >= 160)
<1>1. x[i] \in Octet /\ x[i] \in Nat
  BY OctetIs, ElementOfSeq
<1>2. i \in DOMAIN x
  OBVIOUS
<1>3. x[i] \notin {192, 193} /\ (x[i] = 224 => x[i + 1] >= 160)
  BY <1>2 DEF Shortest
<1> QED
  BY <1>1, <1>3

InTwo(a, b, t) == <<a>> \o (<<b>> \o t) = <<a, b>> \o t
InThree(a, b, c, t) == <<a>> \o (<<b>> \o (<<c>> \o t)) = <<a, b, c>> \o t

LEMMA JoinTwo ==
  ASSUME NEW V, NEW a \in V, NEW b \in V, NEW t \in Seq(V)
  PROVE  InTwo(a, b, t)
<1> DEFINE u == <<a>>
           v == <<b>>
           w == <<a, b>>
<1>1. u \in Seq(V) /\ v \in Seq(V) /\ w \in Seq(V) /\ Len(w) = Len(v) + 1 /\ w[1] = a
      /\ \A j \in 1..Len(v) : w[j + 1] = v[j]
  OBVIOUS
<1> HIDE DEF v, w
<1>2. Joins(w, u, v)
  BY <1>1, PrependIs, Zenon DEF u
<1> HIDE DEF u
<1>3. Regroups(u, v, t)
  BY <1>1, Regrouping, Zenon
<1>4. u \o (v \o t) = w \o t
  BY <1>2, <1>3, Zenon DEF Joins, Regroups
<1> QED
  BY <1>4 DEF u, v, w, InTwo

LEMMA JoinThree ==
  ASSUME NEW V, NEW a \in V, NEW b \in V, NEW c \in V, NEW t \in Seq(V)
  PROVE  InThree(a, b, c, t)
<1> DEFINE u == <<a>>
           v == <<b, c>>
           w == <<a, b, c>>
<1>1. u \in Seq(V) /\ v \in Seq(V) /\ w \in Seq(V) /\ Len(w) = Len(v) + 1 /\ w[1] = a
      /\ \A j \in 1..Len(v) : w[j + 1] = v[j]
  OBVIOUS
<1>2. InTwo(b, c, t)
  BY JoinTwo, Zenon
<1> HIDE DEF v, w
<1>3. Joins(w, u, v)
  BY <1>1, PrependIs, Zenon DEF u
<1> HIDE DEF u
<1>4. Regroups(u, v, t)
  BY <1>1, Regrouping, Zenon
<1>5. u \o (v \o t) = w \o t
  BY <1>3, <1>4, Zenon DEF Joins, Regroups
<1> QED
  BY <1>2, <1>5, Zenon DEF u, v, w, InTwo, InThree

\* What a character's unit gives is what the text goes on with.
LEMMA CharacterBack ==
  ASSUME NEW x \in Seq(Octet), Shortest(x), NEW n \in Nat, n = Len(x), NEW i \in 1..n,
         CharacterAt(x, i, UnitBytes(x, i), n)
  PROVE  Joins(SubSeq(x, i, n), UnitUtf8(UnitCode(x, i)), SubSeq(x, i + UnitBytes(x, i), n))
<1> DEFINE w == UnitBytes(x, i)
           u == UnitUtf8(UnitCode(x, i))
           a == x[i]
           b == x[i + 1]
           c == x[i + 2]
           A == SubSeq(x, i, n)
           B == SubSeq(x, i + 1, n)
           C == SubSeq(x, i + 2, n)
           D == SubSeq(x, i + 3, n)
<1>1. a \in Octet /\ a \in Nat /\ a \notin {192, 193} /\ (a = 224 => b >= 160)
  BY ShortestAt
<1>2. Joins(A, <<a>>, B) /\ B \in Seq(Octet)
  BY SubSeqFirst
<1>3. CharacterAt(x, i, w, n)
  OBVIOUS
<1> HIDE DEF w, A, B, C, D
<1>4. CASE w = 1
  <2>1. a < 128 /\ UnitCode(x, i) = a
    BY <1>3, <1>4 DEF CharacterAt, UnitCode, w
  <2>2. u = <<a>>
    BY <1>1, <2>1, Utf8One
  <2>3. SubSeq(x, i + w, n) = B
    BY <1>4 DEF B
  <2> HIDE DEF u
  <2> QED
    BY <1>2, <2>2, <2>3, Zenon DEF w, u, A
<1>5. ASSUME i + 1 <= n, Continues(x[i + 1])
      PROVE  b \in Octet /\ b \in Nat /\ b >= 128 /\ b < 192 /\ Low6(x, i + 1) = b % 64
             /\ Joins(B, <<b>>, C) /\ C \in Seq(Octet)
  <2> DEFINE j == i + 1
  <2>1. j \in 1..n /\ j + 1 = i + 2
    BY <1>5
  <2>2. x[j] \in Octet /\ x[j] \in Nat /\ x[j] >= 128 /\ x[j] < 192
    <3>1. x[j] \in Octet /\ x[j] \in Nat
      BY <2>1, OctetIs, ElementOfSeq
    <3> QED
      BY <1>5, <3>1 DEF Continues
  <2>3. Joins(SubSeq(x, j, n), <<x[j]>>, SubSeq(x, j + 1, n))
    BY <2>1, SubSeqFirst
  <2>4. C \in Seq(Octet)
    BY <1>5 DEF C
  <2>5. Low6(x, j) = x[j] % 64
    BY <2>1 DEF Low6
  <2> QED
    BY <2>1, <2>2, <2>3, <2>4, <2>5 DEF B, C
<1>6. CASE w = 2
  <2>1. i + 1 <= n /\ Continues(x[i + 1]) /\ a >= 192 /\ a < 224
        /\ UnitCode(x, i) = (a % 32) * 64 + Low6(x, i + 1)
    BY <1>3, <1>6 DEF CharacterAt, UnitCode, w
  <2>2. b \in Octet /\ b \in Nat /\ b >= 128 /\ b < 192 /\ Low6(x, i + 1) = b % 64 /\ Joins(B, <<b>>, C)
        /\ C \in Seq(Octet)
    BY <1>5, <2>1
  <2> HIDE DEF a, b
  <2>3. a >= 194
    BY <1>1, <2>1
  <2>4. UnitCode(x, i) = (a % 32) * 64 + (b % 64)
    BY <2>1, <2>2
  <2>5. u = <<a, b>>
    BY <1>1, <2>1, <2>2, <2>3, <2>4, Utf8Two
  <2>6. SubSeq(x, i + w, n) = C
    BY <1>6 DEF C
  <2>7. Joins(A, <<a, b>>, C)
    <3>1. InTwo(a, b, C)
      BY <1>1, <2>2, JoinTwo, Zenon
    <3> QED
      BY <1>2, <2>2, <3>1, Zenon DEF Joins, InTwo
  <2> HIDE DEF u
  <2> QED
    BY <2>5, <2>6, <2>7, Zenon DEF w, u, A
<1>7. ASSUME i + 2 <= n, Continues(x[i + 2])
      PROVE  c \in Octet /\ c \in Nat /\ c >= 128 /\ c < 192 /\ Low6(x, i + 2) = c % 64
             /\ Joins(C, <<c>>, D) /\ D \in Seq(Octet)
  <2> DEFINE j == i + 2
  <2>1. j \in 1..n /\ j + 1 = i + 3
    BY <1>7
  <2>2. x[j] \in Octet /\ x[j] \in Nat /\ x[j] >= 128 /\ x[j] < 192
    <3>1. x[j] \in Octet /\ x[j] \in Nat
      BY <2>1, OctetIs, ElementOfSeq
    <3> QED
      BY <1>7, <3>1 DEF Continues
  <2>3. Joins(SubSeq(x, j, n), <<x[j]>>, SubSeq(x, j + 1, n))
    BY <2>1, SubSeqFirst
  <2>4. D \in Seq(Octet)
    BY <1>7 DEF D
  <2>5. Low6(x, j) = x[j] % 64
    BY <2>1 DEF Low6
  <2> QED
    BY <2>1, <2>2, <2>3, <2>4, <2>5 DEF C, D
<1>8. CASE w = 3
  <2>1. i + 1 <= n /\ Continues(x[i + 1]) /\ i + 2 <= n /\ Continues(x[i + 2]) /\ a >= 224 /\ a < 240
        /\ UnitCode(x, i) = (a % 16) * 4096 + Low6(x, i + 1) * 64 + Low6(x, i + 2)
    BY <1>3, <1>8 DEF CharacterAt, UnitCode, w
  <2>2. b \in Octet /\ b \in Nat /\ b >= 128 /\ b < 192 /\ Low6(x, i + 1) = b % 64 /\ Joins(B, <<b>>, C)
        /\ C \in Seq(Octet)
    BY <1>5, <2>1
  <2>3. c \in Octet /\ c \in Nat /\ c >= 128 /\ c < 192 /\ Low6(x, i + 2) = c % 64 /\ Joins(C, <<c>>, D)
        /\ D \in Seq(Octet)
    BY <1>7, <2>1
  <2> HIDE DEF a, b, c
  <2>4. UnitCode(x, i) = (a % 16) * 4096 + (b % 64) * 64 + (c % 64)
    BY <2>1, <2>2, <2>3
  <2>5. u = <<a, b, c>>
    <3> DEFINE v == UnitCode(x, i)
    <3>1. v = (a % 16) * 4096 + (b % 64) * 64 + (c % 64)
      BY <2>4
    <3>2. OfThree(a, b, c)
      BY <1>1, <2>1, <2>2, <2>3 DEF OfThree
    <3> HIDE DEF v
    <3>4. UnitUtf8(v) = <<a, b, c>>
      BY <3>1, <3>2, Utf8Three
    <3> QED
      BY <3>4 DEF v
  <2>6. SubSeq(x, i + w, n) = D
    BY <1>8 DEF D
  <2>7. Joins(A, <<a, b, c>>, D)
    <3>1. InThree(a, b, c, D)
      BY <1>1, <2>2, <2>3, JoinThree, Zenon
    <3> QED
      BY <1>2, <2>2, <2>3, <3>1, Zenon DEF Joins, InThree
  <2> HIDE DEF u
  <2> QED
    BY <2>5, <2>6, <2>7, Zenon DEF w, u, A
<1>9. w \in 1..3
  BY <1>3 DEF CharacterAt
<1> QED
  BY <1>4, <1>6, <1>8, <1>9

\* The units given out for the bytes from the i-th on are those bytes again.
BytesFrom(g, x, n, i) == Boundary(x, i, n) => Utf8[g[i]] = SubSeq(x, i, n)

LEMMA Halving ==
  ASSUME NEW u \in Nat, u <= 65535
  PROVE  u \div 256 \in Octet /\ u % 256 \in Octet /\ 256 * (u \div 256) + (u % 256) = u
<1> DEFINE a == u \div 256
           b == u % 256
<1>1. a \in Nat /\ a <= 255 /\ b \in Nat /\ b <= 255 /\ 256 * a + b = u
  OBVIOUS
<1> HIDE DEF a, b
<1>2. a \in Octet /\ b \in Octet
  BY <1>1, OctetIs
<1> QED
  BY <1>1, <1>2 DEF a, b

LEMMA BytesFromOn ==
  ASSUME NEW x \in Seq(Octet), WellFormed(x), Shortest(x), NEW n \in Nat, n = Len(x),
         NEW g \in [1..(n + 3) -> Seq(Octet)],
         Scans(g, UnitsOut(x), UnitsStep(x), n, n), NEW i \in 1..n,
         \A j \in (i + 1)..(n + 1) : BytesFrom(g, x, n, j)
  PROVE  BytesFrom(g, x, n, i)
<1> SUFFICES ASSUME ~Continues(x[i]) PROVE Utf8[g[i]] = SubSeq(x, i, n)
  BY DEF BytesFrom, Boundary
<1> DEFINE w == UnitBytes(x, i)
           k == i + w
           c == UnitCode(x, i)
           a == c \div 256
           b == c % 256
           u == g[i]
           v == g[k]
<1>1. CharacterAt(x, i, UnitBytes(x, i), n)
  BY Characters
<1>2. w \in 1..3 /\ i + w <= n + 1 /\ (i + w <= n => ~Continues(x[i + w]))
  <2> HIDE DEF w
  <2> QED BY <1>1 DEF CharacterAt, w
<1>3. UnitsStep(x)[i] = w /\ UnitsOut(x)[i] = <<a, b>>
  <2>1. UnitsStep(x)[i] = w
    <3> HIDE DEF w
    <3> QED BY DEF UnitsStep, w
  <2>2. UnitsOut(x)[i] = <<a, b>>
    <3> HIDE DEF a, b
    <3> QED BY DEF UnitsOut, a, b, c
  <2> QED
    BY <2>1, <2>2
<1>4. a \in Octet /\ b \in Octet /\ 256 * a + b = c
  <2>1. c \in Nat /\ c <= 65535
    BY UnitType
  <2> HIDE DEF c
  <2> QED
    BY <2>1, Halving
<1> HIDE DEF a, b, c
<1>5. k \in 1..(n + 3) /\ k \in (i + 1)..(n + 1)
  BY <1>2
<1>6. u \in Seq(Octet) /\ v \in Seq(Octet)
  <2> DEFINE W == Seq(Octet)
  <2>1. i \in 1..(n + 3) /\ g \in [1..(n + 3) -> W]
    OBVIOUS
  <2> HIDE DEF W, k
  <2>2. g[i] \in W /\ g[k] \in W
    BY <1>5, <2>1
  <2> QED
    BY <2>2 DEF W
<1>7. Joins(u, <<a, b>>, v)
  <2>1. Joins(g[i], UnitsOut(x)[i], g[i + UnitsStep(x)[i]])
    <3> HIDE DEF w
    <3> QED BY DEF Scans
  <2> QED
    BY <1>3, <2>1
<1>8. Boundary(x, k, n)
  BY <1>2 DEF Boundary
<1>9. Utf8[v] = SubSeq(x, k, n)
  BY <1>5, <1>8 DEF BytesFrom
<1>10. Joins(SubSeq(x, i, n), UnitUtf8(c), SubSeq(x, k, n))
  BY <1>1, CharacterBack DEF c
<1> HIDE DEF u, v
<1>11. Joins(Utf8[u], UnitUtf8(256 * a + b), Utf8[v])
  BY <1>4, <1>6, <1>7, Utf8Prepend
<1>12. Utf8[u] = SubSeq(x, i, n)
  BY <1>4, <1>9, <1>10, <1>11 DEF Joins
<1> QED
  BY <1>12 DEF u

\* A well-formed text comes back from its units.
LEMMA UnitsBack ==
  ASSUME NEW x \in Seq(Octet), WellFormed(x), Shortest(x)
  PROVE  Utf8[ToUnits[x]] = x
<1> DEFINE n == Len(x)
<1>1. PICK g \in [1..(n + 3) -> Seq(Octet)] :
        Scans(g, UnitsOut(x), UnitsStep(x), n, n) /\ ToUnits[x] = g[1]
  BY UnitsScan
<1>2. n \in Nat /\ n = Len(x)
  OBVIOUS
<1> HIDE DEF n
<1> DEFINE S == {m \in Nat : m <= n => \A i \in 1..(n + 1) : i > n - m => BytesFrom(g, x, n, i)}
<1>3. 0 \in S
  <2>1. ASSUME NEW i \in 1..(n + 1), i > n PROVE BytesFrom(g, x, n, i)
    <3>1. i = n + 1 /\ i \in (n + 1)..(n + 3)
      BY <1>2, <2>1
    <3>2. g[i] = <<>>
      BY <1>1, <3>1 DEF Scans
    <3>3. SubSeq(x, i, n) = <<>>
      BY <1>2, <3>1
    <3>4. Utf8[<<>>] = <<>>
      <4>1. <<>> \in Seq(Octet) /\ Len(<<>>) \div 2 = 0
        OBVIOUS
      <4>2. Utf8Out(<<>>) = <<>>
        BY <4>1, Utf8Type, EmptySeq
      <4> QED
        BY <4>1, <4>2, Utf8Is, FlattenEmpty
    <3> QED
      BY <3>2, <3>3, <3>4 DEF BytesFrom
  <2> QED
    BY <1>2, <2>1
<1>4. ASSUME NEW m \in Nat, m \in S PROVE m + 1 \in S
  <2>1. ASSUME m + 1 <= n, NEW i \in 1..(n + 1), i > n - (m + 1)
        PROVE  BytesFrom(g, x, n, i)
    <3>1. CASE i > n - m
      BY <1>2, <1>4, <2>1, <3>1
    <3>2. CASE i = n - m
      <4>1. i \in 1..n /\ \A j \in (i + 1)..(n + 1) : j \in 1..(n + 1) /\ j > n - m
        BY <1>2, <2>1, <3>2
      <4>2. \A j \in (i + 1)..(n + 1) : BytesFrom(g, x, n, j)
        BY <1>2, <1>4, <2>1, <4>1
      <4> QED
        BY <1>1, <1>2, <4>1, <4>2, BytesFromOn
    <3> QED
      BY <1>2, <2>1, <3>1, <3>2
  <2> QED
    BY <2>1
<1>5. n \in S
  <2> HIDE DEF S
  <2>1. Nat \subseteq S
    BY <1>3, <1>4, Induct
  <2> QED BY <1>2, <2>1
<1>6. BytesFrom(g, x, n, 1)
  <2>1. 1 \in 1..(n + 1) /\ 1 > n - n
    BY <1>2
  <2> QED
    BY <1>2, <1>5, <2>1
<1>7. Boundary(x, 1, n)
  <2>1. CASE n = 0
    BY <2>1 DEF Boundary
  <2>2. CASE n # 0
    <3>1. 1 \in DOMAIN x /\ ~(1 > 1) /\ ~(1 > 2)
      BY <1>2, <2>2
    <3>2. ~Continues(x[1])
      BY <3>1, Zenon DEF WellFormed
    <3> QED
      BY <3>2 DEF Boundary
  <2> QED
    BY <2>1, <2>2
<1>8. SubSeq(x, 1, n) = x
  BY <1>2
<1> QED
  BY <1>1, <1>6, <1>7, <1>8 DEF BytesFrom
------------------------------------------------------------------------------
(* What a delivered PDU is decoded into.                                   *)

Digits == 0..15

LEMMA DigitIs ==
  ASSUME NEW x
  PROVE  x \in Digits <=> x \in Nat /\ x <= 15
BY DEF Digits

LEMMA HexDigitsType ==
  ASSUME NEW o \in Seq(Octet)
  PROVE  Hex(o) \in Seq(Digits) /\ Len(Hex(o)) = 2 * Len(o)
<1> DEFINE n == Len(o)
           V == Digits
<1>1. n \in Nat
  OBVIOUS
<1>2. ASSUME NEW i \in 1..(2 * n)
      PROVE  (IF i % 2 = 1 THEN o[(i + 1) \div 2] \div 16 ELSE o[(i + 1) \div 2] % 16) \in V
  <2> DEFINE x == o[(i + 1) \div 2]
  <2>1. (i + 1) \div 2 \in 1..n
    BY <1>1
  <2>2. x \in Nat /\ x <= 255
    BY <2>1, OctetIs, ElementOfSeq
  <2> HIDE DEF x
  <2>3. x \div 16 \in Nat /\ x \div 16 <= 15 /\ x % 16 \in Nat /\ x % 16 <= 15
    BY <2>2
  <2>4. x \div 16 \in Digits /\ x % 16 \in Digits
    BY <2>3, DigitIs
  <2> QED
    BY <2>4 DEF x
<1>3. Hex(o) = [i \in 1..(2 * n) |-> IF i % 2 = 1 THEN o[(i + 1) \div 2] \div 16
                                     ELSE o[(i + 1) \div 2] % 16]
  BY DEF Hex
<1> HIDE DEF n, V
<1>4. Hex(o) \in Seq(V) /\ Len(Hex(o)) = 2 * n
  BY <1>1, <1>2, <1>3
<1> QED
  BY <1>4 DEF n, V

ConcatOf(d, u, v) ==
    /\ Len(d) = Len(u) + Len(v) /\ \A i \in 1..Len(u) : d[i] = u[i]
    /\ \A i \in 1..Len(v) : d[Len(u) + i] = v[i]

LEMMA ConcatIs ==
  ASSUME NEW V, NEW u \in Seq(V), NEW v \in Seq(V)
  PROVE  u \o v \in Seq(V) /\ ConcatOf(u \o v, u, v)
BY DEF ConcatOf

\* The digits of two strings of octets, one behind the other.
LEMMA HexConcat ==
  ASSUME NEW a \in Seq(Octet), NEW b \in Seq(Octet)
  PROVE  Hex(a \o b) = Hex(a) \o Hex(b)
<1> DEFINE m == Len(a)
           n == Len(b)
           c == a \o b
           d == Hex(a) \o Hex(b)
<1>1. c \in Seq(Octet) /\ Len(c) = m + n /\ m \in Nat /\ n \in Nat
      /\ (\A i \in 1..m : c[i] = a[i]) /\ \A i \in 1..n : c[m + i] = b[i]
  OBVIOUS
<1> HIDE DEF c, m, n
<1>2. Hex(a) \in Seq(Digits) /\ Len(Hex(a)) = 2 * m /\ Hex(b) \in Seq(Digits) /\ Len(Hex(b)) = 2 * n
      /\ Hex(c) \in Seq(Digits) /\ Len(Hex(c)) = 2 * (m + n)
  BY <1>1, HexDigitsType DEF m, n
<1>3. d \in Seq(Digits) /\ Len(d) = 2 * m + 2 * n
      /\ (\A i \in 1..(2 * m) : d[i] = Hex(a)[i]) /\ \A i \in 1..(2 * n) : d[(2 * m) + i] = Hex(b)[i]
  <2> DEFINE u == Hex(a)
             v == Hex(b)
             k == Len(u)
             l == Len(v)
  <2>1. u \in Seq(Digits) /\ v \in Seq(Digits) /\ k = 2 * m /\ l = 2 * n
    BY <1>2
  <2> HIDE DEF u, v
  <2>a. u \o v \in Seq(Digits) /\ ConcatOf(u \o v, u, v)
    BY <2>1, ConcatIs, Zenon
  <2>2. u \o v \in Seq(Digits) /\ Len(u \o v) = k + l /\ (\A i \in 1..k : (u \o v)[i] = u[i])
        /\ \A i \in 1..l : (u \o v)[k + i] = v[i]
    BY <2>a, Zenon DEF ConcatOf, k, l
  <2>3. d = u \o v
    BY DEF u, v
  <2> HIDE DEF k, l, d
  <2>4. d \in Seq(Digits) /\ Len(d) = 2 * m + 2 * n /\ (\A i \in 1..(2 * m) : d[i] = u[i])
        /\ \A i \in 1..(2 * n) : d[(2 * m) + i] = v[i]
    BY <2>1, <2>2, <2>3
  <2> QED
    BY <2>4 DEF u, v
<1> HIDE DEF d
<1>4. a \in Seq(Nat) /\ b \in Seq(Nat) /\ c \in Seq(Nat)
  BY <1>1, OctetIs
<1>5. ASSUME NEW i \in 1..(m + n)
      PROVE  d[2 * i - 1] = Hex(c)[2 * i - 1] /\ d[2 * i] = Hex(c)[2 * i]
  <2>1. Hex(c)[2 * i - 1] = c[i] \div 16 /\ Hex(c)[2 * i] = c[i] % 16
    BY <1>1, <1>4, HexType
  <2>2. CASE i <= m
    <3>1. i \in 1..m /\ 2 * i - 1 \in 1..(2 * m) /\ 2 * i \in 1..(2 * m)
      BY <1>1, <2>2
    <3>2. Hex(a)[2 * i - 1] = a[i] \div 16 /\ Hex(a)[2 * i] = a[i] % 16
      BY <1>4, <3>1, HexType DEF m
    <3>3. c[i] = a[i]
      BY <1>1, <3>1
    <3> QED
      BY <1>3, <2>1, <3>1, <3>2, <3>3
  <2>3. CASE ~(i <= m)
    <3> DEFINE j == i - m
    <3>1. j \in 1..n /\ 2 * j - 1 \in 1..(2 * n) /\ 2 * j \in 1..(2 * n) /\ m + j = i
          /\ (2 * m) + (2 * j - 1) = 2 * i - 1 /\ (2 * m) + 2 * j = 2 * i
      BY <1>1, <2>3
    <3> HIDE DEF j
    <3>2. Hex(b)[2 * j - 1] = b[j] \div 16 /\ Hex(b)[2 * j] = b[j] % 16
      BY <1>4, <3>1, HexType DEF n
    <3>3. c[i] = b[j]
      BY <1>1, <3>1
    <3>4. d[2 * i - 1] = Hex(b)[2 * j - 1] /\ d[2 * i] = Hex(b)[2 * j]
      BY <1>3, <3>1
    <3> QED
      BY <2>1, <3>2, <3>3, <3>4
  <2> QED
    BY <2>2, <2>3
<1>6. ASSUME NEW k \in 1..Len(d) PROVE d[k] = Hex(c)[k]
  <2>1. CASE k % 2 = 1
    <3> DEFINE i == (k + 1) \div 2
               t == m + n
    <3>0. t \in Nat /\ Len(d) = 2 * t /\ k \in 1..(2 * t)
      BY <1>1, <1>3
    <3> HIDE DEF t
    <3>a. i \in 1..t /\ 2 * i - 1 = k
      BY <2>1, <3>0
    <3>1. i \in 1..(m + n) /\ 2 * i - 1 = k
      BY <3>a DEF t
    <3> HIDE DEF i
    <3> QED
      BY <1>5, <3>1
  <2>2. CASE k % 2 = 0
    <3> DEFINE i == k \div 2
    <3>1. i \in 1..(m + n) /\ 2 * i = k
      BY <1>1, <1>3, <2>2
    <3> HIDE DEF i
    <3> QED
      BY <1>5, <3>1
  <2>3. k \in Nat
    BY <1>1, <1>3
  <2> QED
    BY <2>1, <2>2, <2>3
<1>7. Len(d) = Len(Hex(c))
  BY <1>1, <1>2, <1>3
<1>8. d = Hex(c)
  BY <1>2, <1>3, <1>6, <1>7, SeqEqual
<1> QED
  BY <1>8 DEF c, d

\* What stands in b stands in what begins with b.
LEMMA AtGrow ==
  ASSUME NEW U, NEW b \in Seq(U), NEW c \in Seq(U), NEW x \in Seq(U), NEW j \in Nat \ {0}, At(b, j, x)
  PROVE  At(b \o c, j, x)
<1> DEFINE d == b \o c
<1>1. d \in Seq(U) /\ At(d, 1, b)
  BY AtJoin
<1> HIDE DEF d
<1>2. At(d, j, x)
  BY <1>1, AtFirst
<1> QED
  BY <1>2 DEF d

\* The fields of a delivered PDU, one behind the other, and their places.
SixFields(U, q, s0, s1, s2, s3, s4, s5, l0, l1, l2, l3, l4) ==
    /\ s0 \in Seq(U) /\ s1 \in Seq(U) /\ s2 \in Seq(U)
    /\ s3 \in Seq(U) /\ s4 \in Seq(U) /\ s5 \in Seq(U)
    /\ q = s0 \o s1 \o s2 \o s3 \o s4 \o s5
    /\ l0 = Len(s0) /\ l1 = Len(s1) /\ l2 = Len(s2) /\ l3 = Len(s3) /\ l4 = Len(s4)
SixPlaces(U, q, s0, s1, s2, s3, s4, s5, l0, l1, l2, l3, l4) ==
    /\ q \in Seq(U) /\ Len(q) = l0 + l1 + l2 + l3 + l4 + Len(s5)
    /\ At(q, 1, s0) /\ At(q, l0 + 1, s1) /\ At(q, l0 + l1 + 1, s2)
    /\ At(q, l0 + l1 + l2 + 1, s3) /\ At(q, l0 + l1 + l2 + l3 + 1, s4)
    /\ At(q, l0 + l1 + l2 + l3 + l4 + 1, s5)
LEMMA AtSix ==
  ASSUME NEW U, NEW q, NEW s0, NEW s1, NEW s2, NEW s3, NEW s4, NEW s5,
         NEW l0, NEW l1, NEW l2, NEW l3, NEW l4,
         SixFields(U, q, s0, s1, s2, s3, s4, s5, l0, l1, l2, l3, l4)
  PROVE  SixPlaces(U, q, s0, s1, s2, s3, s4, s5, l0, l1, l2, l3, l4)
<1> DEFINE b1 == s0 \o s1
           b2 == b1 \o s2
           b3 == b2 \o s3
           b4 == b3 \o s4
           m1 == l0 + l1
           m2 == m1 + l2
           m3 == m2 + l3
           m4 == m3 + l4
<1>0. /\ s0 \in Seq(U) /\ s1 \in Seq(U) /\ s2 \in Seq(U)
      /\ s3 \in Seq(U) /\ s4 \in Seq(U) /\ s5 \in Seq(U)
      /\ l0 = Len(s0) /\ l1 = Len(s1) /\ l2 = Len(s2) /\ l3 = Len(s3) /\ l4 = Len(s4)
  BY Zenon DEF SixFields
<1>1. l0 \in Nat /\ l1 \in Nat /\ l2 \in Nat /\ l3 \in Nat /\ l4 \in Nat /\ 1 \in Nat \ {0}
  BY <1>0
<1>2. q = b4 \o s5
  BY Zenon DEF SixFields
<1>3. b1 \in Seq(U) /\ Len(b1) = m1 /\ At(b1, 1, s0) /\ At(b1, l0 + 1, s1)
  BY <1>0, AtJoin
<1> HIDE DEF b1
<1>4. m1 \in Nat /\ l0 + 1 \in Nat \ {0} /\ m1 + 1 \in Nat \ {0}
  BY <1>1
<1> HIDE DEF m1
<1>5. b2 \in Seq(U) /\ Len(b2) = m2 /\ At(b2, m1 + 1, s2)
  BY <1>0, <1>3, AtJoin
<1>6. At(b2, 1, s0) /\ At(b2, l0 + 1, s1)
  BY <1>0, <1>1, <1>3, <1>4, AtGrow
<1> HIDE DEF b2
<1>7. m2 \in Nat /\ m2 + 1 \in Nat \ {0}
  BY <1>1, <1>4
<1> HIDE DEF m2
<1>8. b3 \in Seq(U) /\ Len(b3) = m3 /\ At(b3, m2 + 1, s3)
  BY <1>0, <1>5, AtJoin
<1>9. At(b3, 1, s0) /\ At(b3, l0 + 1, s1) /\ At(b3, m1 + 1, s2)
  BY <1>0, <1>1, <1>4, <1>5, <1>6, AtGrow
<1> HIDE DEF b3
<1>10. m3 \in Nat /\ m3 + 1 \in Nat \ {0}
  BY <1>1, <1>7
<1> HIDE DEF m3
<1>11. b4 \in Seq(U) /\ Len(b4) = m4 /\ At(b4, m3 + 1, s4)
  BY <1>0, <1>8, AtJoin
<1>12. At(b4, 1, s0) /\ At(b4, l0 + 1, s1) /\ At(b4, m1 + 1, s2) /\ At(b4, m2 + 1, s3)
  BY <1>0, <1>1, <1>4, <1>7, <1>8, <1>9, AtGrow
<1> HIDE DEF b4
<1>13. m4 \in Nat
  BY <1>1, <1>10
<1> HIDE DEF m4
<1>14. q \in Seq(U) /\ Len(q) = m4 + Len(s5) /\ At(q, m4 + 1, s5)
  BY <1>0, <1>2, <1>11, AtJoin
<1>15. At(q, 1, s0) /\ At(q, l0 + 1, s1) /\ At(q, m1 + 1, s2) /\ At(q, m2 + 1, s3) /\ At(q, m3 + 1, s4)
  BY <1>0, <1>1, <1>2, <1>4, <1>7, <1>10, <1>11, <1>12, AtGrow
<1> QED
  BY <1>14, <1>15, Zenon DEF SixPlaces, m1, m2, m3, m4

\* The fields, the number's length and digits for themselves, at their places.
Laid(q, num, fo, dcs, ud) ==
    /\ q \in Seq(Digits) /\ At(q, 1, Centre) /\ Len(Centre) = 6 /\ At(q, 7, Hex(<<fo>>))
    /\ At(q, 9, Hex(<<Len(Bare(num)), TypeOf(num)>>)) /\ At(q, 13, Invert(Bare(num)))
    /\ At(q, 13 + Even(Len(Bare(num))), Hex(<<0, dcs>>))
    /\ At(q, 17 + Even(Len(Bare(num))), Stamp)
    /\ At(q, 31 + Even(Len(Bare(num))), ud)
    /\ Len(q) = 30 + Even(Len(Bare(num))) + Len(ud)

LEMMA HexOneTwo ==
  ASSUME NEW x \in Octet, NEW y \in Octet
  PROVE  /\ Hex(<<x>>) \in Seq(Digits) /\ Len(Hex(<<x>>)) = 2
         /\ Hex(<<x, y>>) \in Seq(Digits) /\ Len(Hex(<<x, y>>)) = 4
<1> DEFINE a == <<x>>
           b == <<x, y>>
<1>1. a \in Seq(Octet) /\ Len(Hex(a)) = 2 /\ b \in Seq(Octet) /\ Len(Hex(b)) = 4
  BY HexOne, HexTwo, Zenon
<1> HIDE DEF a, b
<1>2. Hex(a) \in Seq(Digits) /\ Hex(b) \in Seq(Digits)
  BY <1>1, HexDigitsType, Zenon
<1> QED
  BY <1>1, <1>2 DEF a, b

LEMMA CentreStamp ==
  /\ Centre \in Seq(Digits) /\ Len(Centre) = 6 /\ At(Centre, 1, Hex(<<2>>))
  /\ Stamp \in Seq(Digits) /\ Len(Stamp) = 14
<1> DEFINE h == Hex(<<2, 145>>)
           g == Hex(<<2>>)
           t == <<2, 1>>
<1>1. 2 \in Octet /\ 145 \in Octet
  BY OctetIs
<1>2. h \in Seq(Digits) /\ Len(h) = 4
  BY <1>1, HexOneTwo, Zenon
<1>3. t \in Seq(Digits) /\ Len(t) = 2
  <2>1. 1 \in Digits /\ 2 \in Digits
    BY DigitIs
  <2> QED
    BY <2>1
<1>4. g \in Seq(Digits) /\ Len(g) = 2 /\ g[1] = h[1] /\ g[2] = h[2]
  <2>1. g \in Seq(Digits) /\ Len(g) = 2
    BY <1>1, HexOneTwo, Zenon
  <2>2. g[1] = h[1] /\ g[2] = h[2]
    BY <1>1, HexOne, HexTwo
  <2> QED
    BY <2>1, <2>2
<1>5. At(h, 1, g)
  <2> HIDE DEF h, g
  <2> QED
    BY <1>2, <1>4 DEF At
<1> HIDE DEF h, g, t
<1>6. h \o t \in Seq(Digits) /\ Len(h \o t) = Len(h) + Len(t)
  BY <1>2, <1>3, AtJoin
<1>7. At(h \o t, 1, g)
  <2>1. 1 \in Nat \ {0}
    OBVIOUS
  <2> QED
    BY <1>2, <1>3, <1>4, <1>5, <2>1, AtGrow
<1>8. Centre = h \o t
  BY Zenon DEF Centre, h, t
<1>9. Len(Centre) = 6
  BY <1>2, <1>3, <1>6, <1>8
<1>10. Stamp \in Seq(Digits) /\ Len(Stamp) = 14
  <2>1. 0 \in Digits /\ 1 \in Digits /\ 2 \in Digits /\ 3 \in Digits /\ 5 \in Digits
        /\ 7 \in Digits /\ 8 \in Digits /\ 9 \in Digits
    BY DigitIs
  <2> QED
    BY <2>1 DEF Stamp
<1> QED
  BY <1>6, <1>7, <1>8, <1>9, <1>10 DEF g

\* The stamp names eight hours.
StampDigits == <<1, 2, 0, 5, 2, 8, 1, 7, 0, 0, 5, 9, 3, 2>>

LEMMA StampZone == Zone(Dso2String(Stamp)) = 8
<1> DEFINE s == StampDigits
           v == Invert(s)
<1>1. s \in Seq(Number) /\ Len(s) = 14 /\ s[13] = 3 /\ s[14] = 2
  BY DEF StampDigits, Number
<1>2. v = [i \in 1..14 |-> IF i % 2 = 0 THEN s[i - 1] ELSE s[i + 1]]
  <2>1. Even(14) = 14
    BY DEF Even
  <2> HIDE DEF s
  <2>2. v = [i \in 1..14 |-> IF i % 2 = 0 THEN s[i - 1] ELSE IF i = 14 THEN 15 ELSE s[i + 1]]
    BY <1>1, <2>1 DEF Invert
  <2> QED
    BY <2>2
<1>3. ASSUME NEW i \in 1..14 PROVE v[i] = Stamp[i]
  <2> HIDE DEF v
  <2>1. v[i] = IF i % 2 = 0 THEN s[i - 1] ELSE s[i + 1]
    BY <1>2
  <2>2. CASE i \in {1, 3, 5, 7}
    BY <2>1, <2>2 DEF StampDigits, Stamp
  <2>3. CASE i \in {2, 4, 6, 8}
    BY <2>1, <2>3 DEF StampDigits, Stamp
  <2>4. CASE i \in {9, 11, 13}
    BY <2>1, <2>4 DEF StampDigits, Stamp
  <2>5. CASE i \in {10, 12, 14}
    BY <2>1, <2>5 DEF StampDigits, Stamp
  <2> QED
    BY <2>2, <2>3, <2>4, <2>5
<1>4. Stamp = [i \in 1..14 |-> Stamp[i]]
  BY DEF Stamp
<1>5. v = Stamp
  <2> HIDE DEF s
  <2>1. v = [i \in 1..14 |-> v[i]]
    BY <1>2
  <2> HIDE DEF v
  <2> QED
    BY <1>3, <1>4, <2>1
<1> HIDE DEF s
<1>6. Dso2String(Stamp) = s
  <2>1. 15 \notin Number
    BY DEF Number
  <2>2. Dso2String(v) = s
    BY <1>1, <2>1, InvertBack
  <2> QED
    BY <1>5, <2>2
<1>7. Zone(s) = 8
  BY <1>1 DEF Zone
<1> QED
  BY <1>6, <1>7

LEMMA SomeOctets ==
  /\ 0 \in Octet /\ 2 \in Octet /\ 68 \in Octet /\ 129 \in Octet /\ 145 \in Octet
  /\ 1 \in Octet /\ 5 \in Octet /\ 3 \in Octet /\ 8 \in Octet
<1> QED
  BY OctetIs

LEMMA LaidOut ==
  ASSUME NEW num, IsNumber(num), NEW fo \in Octet, NEW dcs \in Octet, NEW ud \in Seq(Digits),
         NEW q, q = Centre \o Hex(<<fo>>) \o Address(num) \o Hex(<<0, dcs>>) \o Stamp \o ud
  PROVE  Laid(q, num, fo, dcs, ud)
<1> DEFINE n == Len(Bare(num))
           e == Even(n)
           h1 == Hex(<<fo>>)
           a1 == Hex(<<n, TypeOf(num)>>)
           a2 == Invert(Bare(num))
           a == a1 \o a2
           h3 == Hex(<<0, dcs>>)
<1>1. Address(num) = a /\ Bare(num) \in Seq(Number) /\ n \in Octet /\ TypeOf(num) \in Octet /\ 0 \in Octet
  <2>1. Address(num) = a /\ Bare(num) \in Seq(Number) /\ Len(Bare(num)) <= 255
    BY NumberIs, Zenon
  <2>2. Len(Bare(num)) \in Nat
    BY <2>1
  <2>3. 145 \in Octet /\ 129 \in Octet /\ 0 \in Octet
    BY SomeOctets
  <2>4. TypeOf(num) = 145 \/ TypeOf(num) = 129
    BY DEF TypeOf
  <2>5. n \in Octet
    BY <2>1, <2>2, OctetIs
  <2> QED
    BY <2>1, <2>3, <2>4, <2>5
<1>2. e \in Nat
  <2>1. n \in Nat
    BY <1>1, OctetIs
  <2> HIDE DEF n
  <2> QED
    BY <2>1 DEF Even
<1>3. a2 \in Seq(Digits) /\ Len(a2) = e
  <2> DEFINE V == Number \cup {15}
  <2>1. 15 \notin Number /\ V \subseteq Digits
    BY DEF Number, Digits
  <2>2. a2 \in Seq(V) /\ Len(a2) = e
    BY <1>1, <2>1, InvertBack
  <2> HIDE DEF V, a2, e
  <2> QED
    BY <2>1, <2>2, SeqWithin
<1> HIDE DEF n, e, a2
<1>4. a1 \in Seq(Digits) /\ Len(a1) = 4 /\ h1 \in Seq(Digits) /\ Len(h1) = 2
      /\ h3 \in Seq(Digits) /\ Len(h3) = 4
  BY <1>1, HexOneTwo, Zenon
<1>5. q = Centre \o h1 \o a \o h3 \o Stamp \o ud
  BY <1>1, Zenon
<1> HIDE DEF a1, h1, h3
<1>6. a \in Seq(Digits) /\ Len(a) = Len(a1) + Len(a2) /\ At(a, 1, a1) /\ At(a, Len(a1) + 1, a2)
  BY <1>3, <1>4, AtJoin
<1> HIDE DEF a
<1>7. Len(a) = 4 + e /\ At(a, 5, a2)
  <2>1. Len(a1) + 1 = 5
    BY <1>4
  <2> QED
    BY <1>3, <1>4, <1>6, <2>1
<1> DEFINE l0 == Len(Centre)
           l1 == Len(h1)
           l2 == Len(a)
           l3 == Len(h3)
           l4 == Len(Stamp)
<1>8. l0 = 6 /\ l1 = 2 /\ l2 = 4 + e /\ l3 = 4 /\ l4 = 14
  BY <1>4, <1>7, CentreStamp
<1>9. Centre \in Seq(Digits) /\ Stamp \in Seq(Digits)
  BY CentreStamp
<1> HIDE DEF l0, l1, l2, l3, l4
<1>10. /\ q \in Seq(Digits) /\ Len(q) = l0 + l1 + l2 + l3 + l4 + Len(ud)
       /\ At(q, 1, Centre) /\ At(q, l0 + 1, h1) /\ At(q, l0 + l1 + 1, a)
       /\ At(q, l0 + l1 + l2 + 1, h3) /\ At(q, l0 + l1 + l2 + l3 + 1, Stamp)
       /\ At(q, l0 + l1 + l2 + l3 + l4 + 1, ud)
  <2>1. l0 = Len(Centre) /\ l1 = Len(h1) /\ l2 = Len(a) /\ l3 = Len(h3) /\ l4 = Len(Stamp)
    BY DEF l0, l1, l2, l3, l4
  <2> QED
    <3>1. SixFields(Digits, q, Centre, h1, a, h3, Stamp, ud, l0, l1, l2, l3, l4)
      BY <1>4, <1>5, <1>6, <1>9, <2>1, Zenon DEF SixFields
    <3>2. SixPlaces(Digits, q, Centre, h1, a, h3, Stamp, ud, l0, l1, l2, l3, l4)
      BY <3>1, AtSix, Zenon
    <3> QED
      BY <3>2, Zenon DEF SixPlaces
<1>11. /\ l0 + 1 = 7 /\ l0 + l1 + 1 = 9 /\ l0 + l1 + l2 + 1 = 13 + e
       /\ l0 + l1 + l2 + l3 + 1 = 17 + e /\ l0 + l1 + l2 + l3 + l4 + 1 = 31 + e
       /\ l0 + l1 + l2 + l3 + l4 = 30 + e
  BY <1>2, <1>8
<1>12. /\ q \in Seq(Digits) /\ Len(q) = 30 + e + Len(ud) /\ At(q, 1, Centre) /\ At(q, 7, h1)
       /\ At(q, 9, a) /\ At(q, 13 + e, h3) /\ At(q, 17 + e, Stamp) /\ At(q, 31 + e, ud)
  BY <1>10, <1>11
<1>13. At(q, 9, a1) /\ At(q, 13, a2)
  <2>1. 9 \in Nat \ {0} /\ 5 \in Nat \ {0} /\ 1 \in Nat \ {0} /\ 9 - 1 + 1 = 9 /\ 9 - 1 + 5 = 13
    OBVIOUS
  <2>2. q \in Seq(Digits) /\ At(q, 9, a) /\ a \in Seq(Digits) /\ At(a, 1, a1) /\ At(a, 5, a2)
    BY <1>6, <1>7, <1>12, Zenon
  <2> QED
    BY <1>3, <1>4, <2>1, <2>2, AtInner
<1> QED
  BY <1>12, <1>13, CentreStamp, Zenon DEF Laid, n, e, h1, a1, a2, h3

\* The decoder's reading of it, with names for what it computes on its way.
DecodedAs(p, f, a, t, at, d, n) ==
    [fo |-> Byte(p, f),
     sender |-> CASE t = 145 -> <<Plus>> \o Dso2String(d)
                  [] (t \div 64) % 4 = 3 /\ (t \div 16) % 2 = 1 ->
                       To8Bit(Octets(d, 1, n), n + n \div 7, 0)
                  [] OTHER -> Dso2String(d),
     dcs |-> Byte(p, at + 2), scts |-> Dso2String(SubSeq(p, at + 4, at + 17)),
     udl |-> Byte(p, at + 18), ud |-> SubSeq(p, at + 20, Len(p))]

ReadAs(p, f, a, t, at, d, n) ==
    /\ f = 3 + 2 * Byte(p, 1) /\ a = Byte(p, f + 2) /\ a > 0 /\ t = Byte(p, f + 4)
    /\ at = f + 6 + Even(a) /\ d = SubSeq(p, f + 6, f + 5 + Even(a)) /\ n = a \div 2

LEMMA DecodeIs ==
  ASSUME NEW p \in Seq(Digits), NEW f, NEW a, NEW t, NEW at, NEW d, NEW n,
         ReadAs(p, f, a, t, at, d, n)
  PROVE  DecodePdu[p] = DecodedAs(p, f, a, t, at, d, n)
<1>1. p \in Seq(0..15)
  BY DEF Digits
<1>2. DecodePdu[p] =
        LET fo == 3 + 2 * Byte(p, 1)
            oaLen == Byte(p, fo + 2)
            toa == IF oaLen > 0 THEN Byte(p, fo + 4) ELSE 0
            pid == IF oaLen > 0 THEN fo + 6 + Even(oaLen) ELSE fo + 4
            dso == SubSeq(p, fo + 6, fo + 5 + Even(oaLen))
            m == oaLen \div 2
        IN  [fo |-> Byte(p, fo),
             sender |-> CASE toa = 145 -> <<Plus>> \o Dso2String(dso)
                          [] (toa \div 64) % 4 = 3 /\ (toa \div 16) % 2 = 1 ->
                               To8Bit(Octets(dso, 1, m), m + m \div 7, 0)
                          [] OTHER -> Dso2String(dso),
             dcs |-> Byte(p, pid + 2), scts |-> Dso2String(SubSeq(p, pid + 4, pid + 17)),
             udl |-> Byte(p, pid + 18), ud |-> SubSeq(p, pid + 20, Len(p))]
  BY <1>1, Zenon DEF DecodePdu
<1> QED
  BY <1>2, Zenon DEF DecodedAs, ReadAs

\* A field cut out at its place.
CutAs(U, V, p, i, j, x) ==
    p \in Seq(U) /\ x \in Seq(V) /\ i \in Nat \ {0} /\ At(p, i, x) /\ j = (i - 1) + Len(x)

LEMMA CutAt ==
  ASSUME NEW U, NEW V, NEW p, NEW i, NEW j, NEW x, CutAs(U, V, p, i, j, x)
  PROVE  SubSeq(p, i, j) = x
<1>1. p \in Seq(U) /\ x \in Seq(V) /\ i \in Nat \ {0} /\ At(p, i, x) /\ j = (i - 1) + Len(x)
  BY DEF CutAs
<1>2. SubSeq(p, i, (i - 1) + Len(x)) = x
  BY <1>1, AtSubSeq
<1> QED
  BY <1>1, <1>2

\* Its fields are read back.
LengthAndRest(ud, l, body) == ud = Hex(<<l>>) \o Hex(body)
FieldsOf(num, fo, dcs, l, body) ==
    [fo |-> fo, sender |-> num, dcs |-> dcs, scts |-> Dso2String(Stamp), udl |-> l, ud |-> Hex(body)]

HasDigits(num) == IsNumber(num) /\ num # <<Plus>>

DeliveredAs(q, num, fo, dcs, l, body, ud) ==
    /\ HasDigits(num) /\ fo \in Octet /\ dcs \in Octet /\ l \in Octet /\ body \in Seq(Octet)
    /\ LengthAndRest(ud, l, body) /\ Laid(q, num, fo, dcs, ud)

LEMMA Decodes ==
  ASSUME NEW num, NEW fo, NEW dcs, NEW l, NEW body, NEW ud, NEW q,
         DeliveredAs(q, num, fo, dcs, l, body, ud)
  PROVE  /\ q \in Seq(Digits) /\ Byte(q, 1) = 2
         /\ DecodePdu[q] = FieldsOf(num, fo, dcs, l, body)
<1> DEFINE n == Len(Bare(num))
           e == Even(n)
           d == Invert(Bare(num))
           hl == Hex(<<l>>)
           hb == Hex(body)
<1>0. /\ IsNumber(num) /\ num # <<Plus>> /\ fo \in Octet /\ dcs \in Octet /\ l \in Octet
      /\ body \in Seq(Octet) /\ LengthAndRest(ud, l, body) /\ Laid(q, num, fo, dcs, ud)
  BY Zenon DEF HasDigits, DeliveredAs
<1>1. Bare(num) \in Seq(Number) /\ n \in Octet /\ n \in Nat /\ n > 0 /\ TypeOf(num) \in Octet
      /\ (TypeOf(num) = 145 \/ TypeOf(num) = 129)
      /\ num = IF TypeOf(num) = 145 THEN <<Plus>> \o Bare(num) ELSE Bare(num)
  <2>1. Bare(num) \in Seq(Number) /\ Len(Bare(num)) <= 255 /\ num # <<>> /\ num \in Seq(Number \cup {Plus})
        /\ num = IF TypeOf(num) = 145 THEN <<Plus>> \o Bare(num) ELSE Bare(num)
    BY <1>0, NumberIs, Zenon
  <2>2. TypeOf(num) = 145 \/ TypeOf(num) = 129
    BY DEF TypeOf
  <2>3. TypeOf(num) \in Octet
    BY <2>2, SomeOctets
  <2>4. n \in Nat
    BY <2>1
  <2>5. n \in Octet
    BY <2>1, <2>4, OctetIs
  <2>6. n > 0
    <3>1. Bare(num) # <<>>
      <4>1. CASE TypeOf(num) = 145
        <5>1. num = <<Plus>> \o Bare(num)
          BY <2>1, <4>1
        <5>2. <<Plus>> \o <<>> = <<Plus>>
          OBVIOUS
        <5> QED
          BY <1>0, <5>1, <5>2
      <4>2. CASE TypeOf(num) = 129
        BY <2>1, <4>2
      <4> QED
        BY <2>2, <4>1, <4>2
    <3> QED
      BY <2>1, <2>4, <3>1, EmptySeq
  <2> QED
    BY <2>1, <2>2, <2>3, <2>4, <2>5, <2>6
<1>2. e \in Nat
  <2>1. n \in Nat
    BY <1>1
  <2> HIDE DEF n
  <2> QED
    BY <2>1 DEF Even
<1>3. Dso2String(d) = Bare(num) /\ d \in Seq(Nat) /\ Len(d) = e
  <2>1. Number \subseteq Nat \ {15}
    BY DEF Number
  <2> DEFINE b == Bare(num)
  <2>2. b \in Seq(Number)
    BY <1>1
  <2> HIDE DEF b
  <2>3. Dso2String(Invert(b)) = b /\ Invert(b) \in Seq(Nat) /\ Len(Invert(b)) = Even(Len(b))
    BY <2>1, <2>2, InvertType
  <2> QED
    BY <2>3, Zenon DEF b, n, e, d
<1>4. hl \in Seq(Digits) /\ Len(hl) = 2 /\ hb \in Seq(Digits)
  <2>1. hl \in Seq(Digits) /\ Len(hl) = 2
    BY <1>0, HexOneTwo, Zenon
  <2>2. hb \in Seq(Digits)
    BY <1>0, HexDigitsType, Zenon
  <2> QED
    BY <2>1, <2>2
<1>5. /\ q \in Seq(Digits) /\ At(q, 1, Centre) /\ At(q, 7, Hex(<<fo>>))
      /\ At(q, 9, Hex(<<n, TypeOf(num)>>)) /\ At(q, 13, d) /\ At(q, 13 + e, Hex(<<0, dcs>>))
      /\ At(q, 17 + e, Stamp) /\ At(q, 31 + e, ud) /\ Len(q) = 30 + e + Len(ud)
  BY <1>0, Zenon DEF Laid
<1>a. ud = hl \o hb
  BY <1>0, Zenon DEF LengthAndRest
<1> HIDE DEF n, e, d, hl, hb
<1>6. ud \in Seq(Digits) /\ Len(ud) = 2 + Len(hb) /\ At(ud, 1, hl) /\ At(ud, 3, hb)
  <2>1. ud \in Seq(Digits) /\ Len(ud) = Len(hl) + Len(hb) /\ At(ud, 1, hl) /\ At(ud, Len(hl) + 1, hb)
    BY <1>4, <1>a, AtJoin
  <2>2. Len(hl) + 1 = 3
    BY <1>4
  <2> QED
    BY <1>4, <2>1, <2>2
<1> DEFINE i15 == 13 + e
           i19 == 17 + e
           i33 == 31 + e
           i35 == 33 + e
<1>7. /\ i15 \in Nat \ {0} /\ i19 \in Nat \ {0} /\ i33 \in Nat \ {0} /\ i35 \in Nat \ {0}
      /\ 1 \in Nat \ {0} /\ 3 \in Nat \ {0} /\ 7 \in Nat \ {0} /\ 9 \in Nat \ {0} /\ 13 \in Nat \ {0}
      /\ i33 - 1 + 1 = i33 /\ i33 - 1 + 3 = i35 /\ (9 + 2 = 11)
  BY <1>2
<1>8. At(q, i33, hl) /\ At(q, i35, hb)
  <2>1. q \in Seq(Digits) /\ At(q, i33, ud) /\ ud \in Seq(Digits) /\ At(ud, 1, hl) /\ At(ud, 3, hb)
    BY <1>5, <1>6, Zenon
  <2> HIDE DEF i33, i35
  <2> QED
    BY <1>4, <1>7, <2>1, AtInner
<1>9. Byte(q, 1) = 2
  <2> DEFINE g == Hex(<<2>>)
  <2>1. g \in Seq(Digits) /\ Centre \in Seq(Digits) /\ At(Centre, 1, g) /\ 2 \in Octet
    BY SomeOctets, CentreStamp, HexOneTwo, Zenon
  <2> HIDE DEF g
  <2>2. At(q, 1, g)
    BY <1>5, <1>7, <2>1, AtFirst, Zenon
  <2>3. At(q, 1, Hex(<<2>>))
    BY <2>2 DEF g
  <2> QED
    BY <1>5, <1>7, <2>1, <2>3, AtOne
<1>10. Byte(q, 7) = fo
  BY <1>0, <1>5, <1>7, AtOne
<1>11. Byte(q, 9) = n /\ Byte(q, 11) = TypeOf(num)
  <2> DEFINE t == TypeOf(num)
  <2>1. t \in Octet /\ n \in Octet /\ At(q, 9, Hex(<<n, t>>))
    BY <1>1, <1>5
  <2> HIDE DEF t
  <2>2. Byte(q, 9) = n /\ Byte(q, 9 + 2) = t
    BY <1>5, <1>7, <2>1, AtTwo, Zenon
  <2> QED
    BY <1>7, <2>2 DEF t
<1>12. Byte(q, i15 + 2) = dcs
  <2>1. 0 \in Octet /\ At(q, i15, Hex(<<0, dcs>>))
    BY <1>5, SomeOctets
  <2> HIDE DEF i15
  <2> QED
    BY <1>0, <1>5, <1>7, <2>1, AtTwo
<1>13. SubSeq(q, 13, 12 + e) = d
  <2> DEFINE i == 13
             j == 12 + e
  <2>1. j = (i - 1) + Len(d) /\ i \in Nat \ {0} /\ At(q, i, d)
    BY <1>2, <1>3, <1>5
  <2> HIDE DEF i, j
  <2>2. SubSeq(q, i, j) = d
    <3>1. CutAs(Digits, Nat, q, i, j, d)
      BY <1>3, <1>5, <2>1, Zenon DEF CutAs
    <3> QED
      BY <3>1, CutAt, Zenon
  <2> QED
    BY <2>2 DEF i, j
<1>14. SubSeq(q, i19, 30 + e) = Stamp
  <2>1. Stamp \in Seq(Digits) /\ Len(Stamp) = 14 /\ At(q, i19, Stamp)
    BY <1>5, CentreStamp
  <2> DEFINE j == 30 + e
  <2>2. j = (i19 - 1) + Len(Stamp)
    BY <1>2, <2>1
  <2> HIDE DEF i19, j
  <2>3. SubSeq(q, i19, j) = Stamp
    <3>1. CutAs(Digits, Digits, q, i19, j, Stamp)
      BY <1>5, <1>7, <2>1, <2>2, Zenon DEF CutAs
    <3> QED
      BY <3>1, CutAt, Zenon
  <2> QED
    BY <2>3 DEF i19, j
<1>15. Byte(q, i33) = l
  <2>1. At(q, i33, Hex(<<l>>))
    BY <1>8 DEF hl
  <2> HIDE DEF i33
  <2> QED
    BY <1>0, <1>5, <1>7, <2>1, AtOne
<1>16. SubSeq(q, i35, Len(q)) = hb
  <2>1. SubSeq(q, i35, (i35 - 1) + Len(hb)) = hb
    <3> HIDE DEF i35
    <3> QED
      BY <1>4, <1>5, <1>7, <1>8, AtSubSeq
  <2>2. (i35 - 1) + Len(hb) = Len(q)
    <3> DEFINE b == Len(hb)
               u == Len(ud)
               k == Len(q)
    <3>1. b \in Nat /\ u = 2 + b /\ k = 30 + e + u
      BY <1>4, <1>5, <1>6
    <3> HIDE DEF b, u, k
    <3>2. (i35 - 1) + b = k
      BY <1>2, <3>1
    <3> QED
      BY <3>2 DEF b, k
  <2> QED
    BY <2>1, <2>2
<1> HIDE DEF i15, i19, i33, i35
<1> DEFINE f == 7
           t == TypeOf(num)
           m == n \div 2
<1>17. DecodePdu[q] = DecodedAs(q, f, n, t, i15, d, m)
  <2>1. f = 3 + 2 * Byte(q, 1)
    BY <1>9
  <2>2. f + 2 = 9 /\ f + 4 = 11 /\ f + 6 = 13 /\ f + 5 + e = 12 + e /\ f + 6 + e = i15
    BY <1>2 DEF i15
  <2> HIDE DEF f, t, m
  <2>3. n = Byte(q, f + 2) /\ n > 0
    BY <1>1, <1>11, <2>2
  <2>4. t = Byte(q, f + 4)
    BY <1>11, <2>2 DEF t
  <2>5. i15 = f + 6 + Even(n)
    BY <2>2 DEF e
  <2>6. d = SubSeq(q, f + 6, f + 5 + Even(n))
    BY <1>13, <2>2 DEF e
  <2>7. m = n \div 2
    BY DEF m
  <2>8. ReadAs(q, f, n, t, i15, d, m)
    BY <2>1, <2>3, <2>4, <2>5, <2>6, <2>7, Zenon DEF ReadAs
  <2> QED
    BY <1>5, <2>8, DecodeIs, Zenon
<1>18. i15 + 4 = i19 /\ i15 + 17 = 30 + e /\ i15 + 18 = i33 /\ i15 + 20 = i35
  BY <1>2 DEF i15, i19, i33, i35
<1> DEFINE s == CASE t = 145 -> <<Plus>> \o Dso2String(d)
                  [] (t \div 64) % 4 = 3 /\ (t \div 16) % 2 = 1 ->
                       To8Bit(Octets(d, 1, m), m + m \div 7, 0)
                  [] OTHER -> Dso2String(d)
<1>19. s = num
  <2> HIDE DEF m
  <2>1. CASE t = 145
    <3>1. s = <<Plus>> \o Dso2String(d)
      <4> HIDE DEF t
      <4>1. ~((t \div 64) % 4 = 3)
        BY <2>1
      <4> QED
        BY <2>1, <4>1
    <3> QED
      BY <1>1, <1>3, <2>1, <3>1, Zenon
  <2>2. CASE t = 129
    <3>1. s = Dso2String(d)
      <4> HIDE DEF t
      <4>1. ~((t \div 64) % 4 = 3) /\ t # 145
        BY <2>2
      <4> QED
        BY <4>1
    <3>2. t # 145
      BY <2>2
    <3> QED
      BY <1>1, <1>3, <3>1, <3>2, Zenon
  <2> QED
    BY <1>1, <2>1, <2>2
<1>20. DecodePdu[q] = [fo |-> Byte(q, 7), sender |-> s, dcs |-> Byte(q, i15 + 2),
                       scts |-> Dso2String(SubSeq(q, i15 + 4, i15 + 17)),
                       udl |-> Byte(q, i15 + 18), ud |-> SubSeq(q, i15 + 20, Len(q))]
  BY <1>17, Zenon DEF DecodedAs
<1> HIDE DEF s, t, m
<1> QED
  BY <1>5, <1>9, <1>10, <1>12, <1>14, <1>15, <1>16, <1>18, <1>19, <1>20, Zenon DEF FieldsOf, hb

\* The octets behind the first ones, and zeros behind the last one.
OctetsIn(a, b, h, k, o) ==
    /\ a \in Seq(Octet) /\ b \in Seq(Octet) /\ h = Len(a) /\ k \in Nat /\ Len(b) <= k
    /\ o = Octets(Hex(a \o b), 1 + 2 * h, k)

LEMMA OctetsOf ==
  ASSUME NEW a, NEW b, NEW h, NEW k, NEW o, OctetsIn(a, b, h, k, o)
  PROVE  o \in Seq(Octet) /\ Len(o) = k /\ PaddedTo(o, b)
<1> DEFINE c == a \o b
           p == Hex(c)
           m == Len(b)
           lp == Len(p)
           from(i) == Byte(p, 1 + 2 * h + 2 * (i - 1))
<1>0. a \in Seq(Octet) /\ b \in Seq(Octet) /\ h = Len(a) /\ k \in Nat /\ m <= k
      /\ o = Octets(p, 1 + 2 * h, k)
  BY Zenon DEF OctetsIn
<1>1. c \in Seq(Octet) /\ Len(c) = h + m /\ m \in Nat /\ h \in Nat
      /\ \A i \in 1..m : c[h + i] = b[i]
  BY <1>0
<1>t. k \in Nat
  BY <1>0
<1> HIDE DEF c
<1>2. p \in Seq(Digits) /\ lp = 2 * (h + m)
  BY <1>1, HexDigitsType
<1>3. o = [i \in 1..k |-> from(i)]
  BY <1>0, Zenon DEF Octets
<1>4. ASSUME NEW i \in 1..k, i <= m PROVE from(i) = b[i] /\ b[i] \in Octet
  <2> DEFINE j == h + i
             f == 1
  <2>1. j \in 1..Len(c) /\ c[j] = b[i] /\ i \in 1..m
    <3>1. i \in 1..m
      <4> HIDE DEF m
      <4> QED
        BY <1>1, <1>4, <1>t
    <3>2. h + i \in 1..(h + m)
      BY <1>1, <3>1
    <3> QED
      BY <1>1, <3>1, <3>2
  <2>2. 1 + 2 * h + 2 * (i - 1) = f + 2 * (j - 1) /\ f \in Nat \ {0}
    BY <1>1
  <2>3. At(p, f, Hex(c))
    <3> HIDE DEF p
    <3>1. At(p, 1, p)
      BY <1>2 DEF At
    <3> QED
      BY <3>1 DEF p, f
  <2> HIDE DEF j, f, p
  <2>4. Byte(p, f + 2 * (j - 1)) = c[j]
    BY <1>1, <1>2, <2>1, <2>2, <2>3, AtByte
  <2>5. b[i] \in Octet
    BY <1>0, <2>1, ElementOfSeq
  <2> QED
    BY <2>1, <2>2, <2>4, <2>5
<1>5. ASSUME NEW i \in 1..k, ~(i <= m) PROVE from(i) = 0
  <2> DEFINE j == 1 + 2 * h + 2 * (i - 1)
  <2>1. m + 1 <= i /\ i \in Nat
    BY <1>0, <1>1, <1>5
  <2>2. j > lp /\ j + 1 > lp /\ j \in Nat
    BY <1>1, <1>2, <2>1
  <2> HIDE DEF j, p
  <2>3. j \notin DOMAIN p /\ j + 1 \notin DOMAIN p
    BY <1>2, <2>2
  <2>4. Digit(p, j) = 0 /\ Digit(p, j + 1) = 0
    BY <2>3 DEF Digit
  <2>5. Byte(p, j) = 0
    BY <2>4 DEF Byte
  <2> QED
    BY <2>5 DEF j
<1> HIDE DEF from
<1>6. ASSUME NEW i \in 1..k PROVE from(i) \in Octet
  BY <1>4, <1>5, SomeOctets
<1>7. o \in Seq(Octet) /\ Len(o) = k /\ \A i \in 1..k : o[i] = from(i)
  <2> DEFINE V == Octet
  <2>1. \A i \in 1..k : from(i) \in V
    BY <1>6
  <2> HIDE DEF V
  <2>2. o \in Seq(V) /\ Len(o) = k /\ \A i \in 1..k : o[i] = from(i)
    BY <1>3, <1>t, <2>1
  <2> QED
    BY <2>2 DEF V
<1>8. PaddedTo(o, b)
  BY <1>0, <1>4, <1>5, <1>7 DEF PaddedTo
<1> QED
  BY <1>7, <1>8

LEMMA PaddedSame ==
  ASSUME NEW o \in Seq(Octet), NEW b \in Seq(Octet), Len(o) = Len(b), PaddedTo(o, b)
  PROVE  o = b
<1>1. \A i \in 1..Len(o) : o[i] = b[i]
  BY DEF PaddedTo
<1> QED
  BY <1>1, SeqEqual

\* The decoder's event, with names for what it computes on its way.
EventAs(p, d, header, octets) ==
    [sender |-> IF Byte(p, 1) > 0 THEN d.sender ELSE <<>>,
     zone |-> Zone(d.scts),
     part |-> IF header > 0 THEN Byte(d.ud, 11) ELSE 0,
     total |-> IF header > 0 THEN Byte(d.ud, 9) ELSE 0,
     text |-> IF d.dcs = 8 THEN Utf8[octets]
              ELSE IF header = 6 THEN To8Bit(octets, d.udl - 7, 1)
              ELSE To8Bit(octets, d.udl - header, 0)]
EventOf(p, d, header, octets) ==
    /\ d = DecodePdu[p] /\ header = IF (d.fo \div 64) % 2 = 1 THEN Byte(d.ud, 1) + 1 ELSE 0
    /\ octets = Octets(d.ud, 1 + 2 * header, d.udl - header)

LEMMA EventIs ==
  ASSUME NEW p, NEW d, NEW header, NEW octets, EventOf(p, d, header, octets)
  PROVE  PduEvent(p) = EventAs(p, d, header, octets)
<1>1. PduEvent(p) =
        LET e == DecodePdu[p]
            hd == IF (e.fo \div 64) % 2 = 1 THEN Byte(e.ud, 1) + 1 ELSE 0
            os == Octets(e.ud, 1 + 2 * hd, e.udl - hd)
        IN  [sender |-> IF Byte(p, 1) > 0 THEN e.sender ELSE <<>>,
             zone |-> Zone(e.scts),
             part |-> IF hd > 0 THEN Byte(e.ud, 11) ELSE 0,
             total |-> IF hd > 0 THEN Byte(e.ud, 9) ELSE 0,
             text |-> IF e.dcs = 8 THEN Utf8[os]
                      ELSE IF hd = 6 THEN To8Bit(os, e.udl - 7, 1)
                      ELSE To8Bit(os, e.udl - hd, 0)]
  BY Zenon DEF PduEvent
<1> QED
  BY <1>1, Zenon DEF EventAs, EventOf

\* The texts that come back from what gsm_encode_pdu makes of them: printable ASCII
\* in the 7-bit alphabet, well-formed UTF-8 in UCS-2.
Recovers(ucs2, x) ==
    IF ucs2 THEN x \in Seq(Octet) /\ WellFormed(x) /\ Shortest(x) ELSE x \in Seq(Alphabet) /\ x # <<>>
\* The user data of a part: its length octet and what follows the header.
LengthOf(ucs2, x) == IF ucs2 THEN Len(ToUnits[x]) + 6 ELSE Len(ToSeptets[x]) + 7
BodyOf(ucs2, x) == IF ucs2 THEN ToUnits[x] ELSE Encode7bit(x)
Coding(ucs2) == IF ucs2 THEN 8 ELSE 0
HeaderOf(n, i) == <<5, 0, 3, 0, n, i>>

LEMMA SeptetsPacked ==
  ASSUME NEW x \in Seq(Alphabet), x # <<>>
  PROVE  /\ ToSeptets[x] \in Seq(SevenBit) /\ ToSeptets[x] # <<>> /\ Encode7bit(x) \in Seq(Octet)
         /\ Encode7bit(x) = <<Head(ToSeptets[x]) * 2>> \o Pack[Tail(ToSeptets[x])]
         /\ Len(Encode7bit(x)) <= Len(ToSeptets[x]) + 1
<1> DEFINE s == ToSeptets[x]
           t == Tail(s)
           p == Pack[t]
           f == <<Head(s) * 2>>
<1>1. x \in Seq(SevenBit)
  BY DEF Alphabet
<1>2. s \in Seq(SevenBit) /\ s # <<>>
  BY <1>1, ToSeptetsType, SeptetsSome
<1>3. Encode7bit(x) = f \o p
  BY Zenon DEF Encode7bit, s, f, p, t
<1> HIDE DEF s
<1>4. t \in Seq(SevenBit) /\ Len(t) = Len(s) - 1 /\ Head(s) \in SevenBit /\ Len(s) \in Nat \ {0}
  BY <1>2, EmptySeq
<1> HIDE DEF t
<1>5. p \in Seq(Octet) /\ Len(p) = (7 * Len(t) + 7) \div 8
  BY <1>4, PackType
<1> HIDE DEF p
<1>6. f \in Seq(Octet) /\ Len(f) = 1
  <2> DEFINE y == Head(s)
  <2>1. y \in Nat /\ y <= 127
    BY <1>4, SevenBitIs
  <2> HIDE DEF y
  <2>2. y * 2 \in Nat /\ y * 2 <= 255
    BY <2>1
  <2>3. y * 2 \in Octet
    BY <2>2, OctetIs
  <2> QED
    BY <2>3 DEF y
<1> HIDE DEF f
<1>7. f \o p \in Seq(Octet) /\ Len(f \o p) = Len(f) + Len(p)
  BY <1>5, <1>6, AtJoin
<1>8. Len(f \o p) <= Len(s) + 1
  <2> DEFINE a == Len(f \o p)
             b == Len(p)
             c == Len(s)
             d == Len(t)
  <2>1. a = 1 + b /\ b = (7 * d + 7) \div 8 /\ d = c - 1 /\ c \in Nat \ {0}
    BY <1>4, <1>5, <1>6, <1>7
  <2> HIDE DEF a, b, c, d
  <2>2. a <= c + 1
    BY <2>1
  <2> QED
    BY <2>2 DEF a, c
<1> QED
  BY <1>2, <1>3, <1>7, <1>8 DEF s, t, p, f

LEMMA BodyIs ==
  ASSUME NEW ucs2 \in BOOLEAN, NEW x, Recovers(ucs2, x)
  PROVE  /\ BodyOf(ucs2, x) \in Seq(Octet) /\ LengthOf(ucs2, x) \in Nat
         /\ Len(BodyOf(ucs2, x)) <= LengthOf(ucs2, x) - 6
         /\ ucs2 => Len(BodyOf(ucs2, x)) = LengthOf(ucs2, x) - 6
<1>1. CASE ucs2
  <2> DEFINE u == ToUnits[x]
             n == Len(u)
  <2>1. u \in Seq(Octet)
    BY <1>1, ToUnitsType DEF Recovers
  <2> HIDE DEF u
  <2>2. n \in Nat
    BY <2>1
  <2>3. BodyOf(ucs2, x) = u /\ LengthOf(ucs2, x) = n + 6
    BY <1>1 DEF BodyOf, LengthOf, u
  <2> HIDE DEF n
  <2>4. n + 6 \in Nat /\ n <= n + 6 - 6 /\ n = n + 6 - 6
    BY <2>2
  <2> QED
    BY <2>1, <2>3, <2>4 DEF n
<1>2. CASE ~ucs2
  <2> DEFINE s == ToSeptets[x]
             e == Encode7bit(x)
             n == Len(s)
             m == Len(e)
  <2>1. s \in Seq(SevenBit) /\ e \in Seq(Octet) /\ m <= n + 1
    BY <1>2, SeptetsPacked DEF Recovers
  <2> HIDE DEF s, e
  <2>2. n \in Nat /\ m \in Nat
    BY <2>1
  <2>3. BodyOf(ucs2, x) = e /\ LengthOf(ucs2, x) = n + 7
    BY <1>2 DEF BodyOf, LengthOf, s, e
  <2> HIDE DEF n
  <2>4. n + 7 \in Nat /\ m <= n + 7 - 6
    BY <2>1, <2>2
  <2>5. Len(BodyOf(ucs2, x)) = m
    BY <2>3
  <2> DEFINE l == LengthOf(ucs2, x)
             b == BodyOf(ucs2, x)
  <2>6. l = n + 7 /\ b = e /\ Len(b) = m
    BY <2>3, <2>5
  <2> HIDE DEF m, e, l, b
  <2>7. b \in Seq(Octet) /\ l \in Nat /\ Len(b) <= l - 6
    BY <2>1, <2>2, <2>4, <2>6
  <2> QED
    BY <1>2, <2>7, Zenon DEF l, b
<1> QED
  BY <1>1, <1>2

LEMMA HeaderIs ==
  ASSUME NEW n \in Octet, NEW i \in Octet
  PROVE  /\ HeaderOf(n, i) \in Seq(Octet) /\ Len(HeaderOf(n, i)) = 6 /\ HeaderOf(n, i)[1] = 5
         /\ HeaderOf(n, i)[5] = n /\ HeaderOf(n, i)[6] = i
<1>1. 5 \in Octet /\ 0 \in Octet /\ 3 \in Octet
  BY SomeOctets
<1> QED
  BY <1>1 DEF HeaderOf

\* The header's octets, read in what begins with it.
LEMMA HeaderBytes ==
  ASSUME NEW n \in Octet, NEW i \in Octet, NEW b \in Seq(Octet), NEW u, u = Hex(HeaderOf(n, i) \o b)
  PROVE  Byte(u, 1) = 5 /\ Byte(u, 9) = n /\ Byte(u, 11) = i
<1> DEFINE h == HeaderOf(n, i)
           c == h \o b
<1>1. h \in Seq(Octet) /\ Len(h) = 6 /\ h[1] = 5 /\ h[5] = n /\ h[6] = i
  BY HeaderIs
<1> HIDE DEF h
<1>2. c \in Seq(Octet) /\ Len(c) >= 6 /\ \A j \in 1..6 : c[j] = h[j]
  <2>1. c \in Seq(Octet) /\ ConcatOf(c, h, b)
    BY <1>1, ConcatIs, Zenon
  <2> HIDE DEF c
  <2>2. Len(c) = Len(h) + Len(b) /\ \A j \in 1..Len(h) : c[j] = h[j]
    BY <2>1, Zenon DEF ConcatOf
  <2>3. Len(b) \in Nat /\ Len(h) = 6
    BY <1>1
  <2> QED
    BY <2>1, <2>2, <2>3
<1> HIDE DEF c
<1>3. u \in Seq(Digits)
  BY <1>2, HexDigitsType DEF c, h
<1>4. At(u, 1, Hex(c))
  <2>1. At(u, 1, u)
    BY <1>3 DEF At
  <2> QED
    BY <2>1 DEF c, h
<1>5. ASSUME NEW k \in {1, 5, 6}, NEW j, j = 1 + 2 * (k - 1) PROVE Byte(u, j) = c[k]
  <2> DEFINE f == 1
  <2>1. k \in 1..Len(c) /\ f \in Nat \ {0} /\ j = f + 2 * (k - 1) /\ At(u, f, Hex(c))
    BY <1>2, <1>4, <1>5
  <2> HIDE DEF f
  <2> QED
    BY <1>2, <1>3, <2>1, AtOctet
<1>6. Byte(u, 1) = c[1] /\ Byte(u, 9) = c[5] /\ Byte(u, 11) = c[6]
  BY <1>5
<1> QED
  BY <1>1, <1>2, <1>6

\* The event of a PDU names this sender, this part and this text.
Tells(q, num, i, n, x) ==
    PduEvent(q) = [sender |-> num, zone |-> 8, part |-> i, total |-> n, text |-> x]

\* A part's text is read behind the header.
LEMMA PartText ==
  ASSUME NEW ucs2 \in BOOLEAN, NEW x, Recovers(ucs2, x), NEW l, l = LengthOf(ucs2, x),
         NEW o \in Seq(Octet), Len(o) = l - 6, PaddedTo(o, BodyOf(ucs2, x))
  PROVE  IF ucs2 THEN Utf8[o] = x ELSE To8Bit(o, l - 7, 1) = x
<1>1. CASE ucs2
  <2> DEFINE u == ToUnits[x]
  <2>1. x \in Seq(Octet) /\ WellFormed(x) /\ Shortest(x)
    BY <1>1 DEF Recovers
  <2>2. u \in Seq(Octet) /\ BodyOf(ucs2, x) = u
    BY <1>1, <2>1, ToUnitsType DEF BodyOf
  <2>3. Len(o) = Len(u)
    <3> DEFINE b == BodyOf(ucs2, x)
    <3>1. Len(b) = l - 6
      BY <1>1, BodyIs
    <3>2. b = u
      BY <2>2
    <3> HIDE DEF b, u
    <3> QED
      BY <3>1, <3>2
  <2> HIDE DEF u
  <2>4. o = u
    BY <2>2, <2>3, PaddedSame
  <2>5. Utf8[u] = x
    BY <2>1, UnitsBack DEF u
  <2> QED
    BY <1>1, <2>4, <2>5
<1>2. CASE ~ucs2
  <2> DEFINE s == ToSeptets[x]
             e == Encode7bit(x)
             n == Len(s)
  <2>1. x \in Seq(Alphabet) /\ x # <<>>
    BY <1>2 DEF Recovers
  <2>2. s \in Seq(SevenBit) /\ s # <<>> /\ e = <<Head(s) * 2>> \o Pack[Tail(s)]
        /\ BodyOf(ucs2, x) = e
    BY <1>2, <2>1, SeptetsPacked DEF BodyOf
  <2>3. l - 7 = n
    <3>1. l = n + 7
      BY <1>2 DEF LengthOf
    <3>2. n \in Nat
      BY <2>2
    <3> HIDE DEF n
    <3> QED
      BY <3>1, <3>2
  <2>4. Chars[s] = x
    BY <2>1, CharsBack
  <2> HIDE DEF s, e
  <2>5. PaddedTo(o, <<Head(s) * 2>> \o Pack[Tail(s)])
    BY <2>2, Zenon
  <2>6. Unpacked(o, Len(s), 1) = s
    BY <2>2, <2>5, SeptetsBehind
  <2>7. To8Bit(o, n, 1) = x
    BY <2>4, <2>6, Zenon DEF To8Bit
  <2> QED
    BY <1>2, <2>3, <2>7
<1> QED
  BY <1>1, <1>2

\* A part in a decoded PDU: the decoder's event is the part.
LEMMA PartEvent ==
  ASSUME NEW num, NEW ucs2 \in BOOLEAN, NEW x, Recovers(ucs2, x), NEW n \in Octet, NEW i \in Octet,
         NEW l, l = LengthOf(ucs2, x), NEW body, body = HeaderOf(n, i) \o BodyOf(ucs2, x),
         NEW q, Byte(q, 1) = 2, DecodePdu[q] = FieldsOf(num, 68, Coding(ucs2), l, body)
  PROVE  Tells(q, num, i, n, x)
<1> DEFINE b == BodyOf(ucs2, x)
           h == HeaderOf(n, i)
           ud == Hex(body)
           d == DecodePdu[q]
           k == l - 6
           o == Octets(ud, 1 + 2 * 6, k)
           dcs == Coding(ucs2)
<1>1. b \in Seq(Octet) /\ l \in Nat /\ Len(b) <= k
  BY BodyIs
<1>2. h \in Seq(Octet) /\ Len(h) = 6
  BY HeaderIs
<1>3. Byte(ud, 1) = 5 /\ Byte(ud, 9) = n /\ Byte(ud, 11) = i
  <2> HIDE DEF b, ud
  <2>1. ud = Hex(HeaderOf(n, i) \o b)
    BY DEF ud, b
  <2> QED
    BY <1>1, <2>1, HeaderBytes
<1>4. k \in Nat
  <2> DEFINE m == Len(b)
  <2>1. m \in Nat
    BY <1>1
  <2> HIDE DEF m
  <2> QED
    BY <1>1, <2>1 DEF m
<1>5. d.fo = 68 /\ d.sender = num /\ d.dcs = dcs /\ d.scts = Dso2String(Stamp) /\ d.udl = l /\ d.ud = ud
  <2> DEFINE st == Dso2String(Stamp)
             f == 68
  <2>1. d = [fo |-> f, sender |-> num, dcs |-> dcs, scts |-> st, udl |-> l, ud |-> ud]
    BY Zenon DEF FieldsOf
  <2> HIDE DEF d, dcs, ud, st, f
  <2>2. d.fo = f /\ d.sender = num /\ d.dcs = dcs /\ d.scts = st /\ d.udl = l /\ d.ud = ud
    BY <2>1
  <2> QED
    BY <2>2, Zenon DEF f, st
<1> HIDE DEF b, h, ud, d, k, dcs
<1>6. o \in Seq(Octet) /\ Len(o) = k /\ PaddedTo(o, b)
  <2> DEFINE s == 6
  <2>1. s = Len(h) /\ ud = Hex(h \o b) /\ o = Octets(ud, 1 + 2 * s, k)
    BY <1>2 DEF ud, h, b
  <2> HIDE DEF s, o
  <2>2. o \in Seq(Octet) /\ Len(o) = k /\ PaddedTo(o, b)
    <3>1. OctetsIn(h, b, s, k, o)
      BY <1>1, <1>2, <1>4, <2>1, Zenon DEF OctetsIn, ud
    <3> QED
      BY <3>1, OctetsOf, Zenon
  <2> QED
    BY <2>2
<1> HIDE DEF o
<1>7. IF ucs2 THEN Utf8[o] = x ELSE To8Bit(o, l - 7, 1) = x
  <2>1. Len(o) = l - 6 /\ PaddedTo(o, BodyOf(ucs2, x))
    BY <1>6 DEF k, b
  <2> QED
    BY <1>6, <2>1, PartText
<1>8. EventOf(q, d, 6, o)
  <2>1. d = DecodePdu[q]
    BY DEF d
  <2>2. 6 = IF (d.fo \div 64) % 2 = 1 THEN Byte(d.ud, 1) + 1 ELSE 0
    <3>1. (68 \div 64) % 2 = 1 /\ 5 + 1 = 6
      OBVIOUS
    <3> QED
      BY <1>3, <1>5, <3>1, Zenon
  <2>3. o = Octets(d.ud, 1 + 2 * 6, d.udl - 6)
    BY <1>5, Zenon DEF o, k
  <2> QED
    BY <2>1, <2>2, <2>3, Zenon DEF EventOf
<1>9. PduEvent(q) = EventAs(q, d, 6, o)
  BY <1>8, EventIs
<1>10. (IF Byte(q, 1) > 0 THEN d.sender ELSE <<>>) = num
  BY <1>5
<1>11. Zone(d.scts) = 8
  BY <1>5, StampZone
<1>12. (IF 6 > 0 THEN Byte(d.ud, 11) ELSE 0) = i /\ (IF 6 > 0 THEN Byte(d.ud, 9) ELSE 0) = n
  BY <1>3, <1>5
<1>13. (IF d.dcs = 8 THEN Utf8[o] ELSE IF 6 = 6 THEN To8Bit(o, d.udl - 7, 1)
        ELSE To8Bit(o, d.udl - 6, 0)) = x
  <2>1. (dcs = 8) <=> ucs2
    BY DEF dcs, Coding
  <2> QED
    BY <1>5, <1>7, <2>1, Zenon
<1> QED
  BY <1>9, <1>10, <1>11, <1>12, <1>13, Zenon DEF EventAs, Tells

\* The user data of a part, its length and the rest.
LEMMA UserDataLaid ==
  ASSUME NEW ucs2 \in BOOLEAN, NEW x, Recovers(ucs2, x), NEW n \in Octet, NEW i \in Octet,
         NEW l \in Octet, l = LengthOf(ucs2, x)
  PROVE  /\ LengthAndRest(UserData(ucs2, x, i, n), l, HeaderOf(n, i) \o BodyOf(ucs2, x))
         /\ HeaderOf(n, i) \o BodyOf(ucs2, x) \in Seq(Octet)
         /\ UserData(ucs2, x, i, n) \in Seq(Digits)
<1> DEFINE h == HeaderOf(n, i)
           b == BodyOf(ucs2, x)
           t == <<l>>
           c == h \o b
<1>1. UserData(ucs2, x, i, n) = Hex(t \o h \o b)
  <2>1. CASE ucs2
    BY <2>1, Zenon DEF UserData, LengthOf, BodyOf, HeaderOf, h, b, t
  <2>2. CASE ~ucs2
    BY <2>2, Zenon DEF UserData, LengthOf, BodyOf, HeaderOf, h, b, t
  <2> QED
    BY <2>1, <2>2
<1>2. h \in Seq(Octet) /\ b \in Seq(Octet) /\ t \in Seq(Octet)
  <2>1. h \in Seq(Octet)
    BY HeaderIs
  <2>2. b \in Seq(Octet)
    BY BodyIs
  <2> QED
    BY <2>1, <2>2
<1> HIDE DEF h, b, t
<1>3. c \in Seq(Octet) /\ t \o h \o b = t \o c
  <2>1. c \in Seq(Octet)
    BY <1>2, AtJoin
  <2>2. (t \o h) \o b = t \o (h \o b)
    BY <1>2, ConcatAssociative
  <2> QED
    BY <2>1, <2>2
<1> HIDE DEF c
<1>4. Hex(t \o c) = Hex(t) \o Hex(c)
  BY <1>2, <1>3, HexConcat
<1>5. Hex(t) \in Seq(Digits) /\ Hex(c) \in Seq(Digits)
  BY <1>2, <1>3, HexDigitsType
<1>6. Hex(t) \o Hex(c) \in Seq(Digits)
  BY <1>5, AtJoin
<1> QED
  BY <1>1, <1>3, <1>4, <1>6, Zenon DEF LengthAndRest, c, h, b, t

LEMMA TwoAndOne ==
  ASSUME NEW S, NEW x \in S, NEW y \in S, NEW z \in S
  PROVE  <<x, y>> \o <<z>> = <<x, y, z>>
<1> DEFINE a == <<x, y>>
           b == <<z>>
           c == <<x, y, z>>
           d == a \o b
<1>1. a \in Seq(S) /\ Len(a) = 2 /\ a[1] = x /\ a[2] = y /\ b \in Seq(S) /\ Len(b) = 1 /\ b[1] = z
  OBVIOUS
<1>2. c \in Seq(S) /\ Len(c) = 3 /\ c[1] = x /\ c[2] = y /\ c[3] = z
  OBVIOUS
<1> HIDE DEF a, b, c
<1>3. d \in Seq(S) /\ ConcatOf(d, a, b)
  BY <1>1, ConcatIs, Zenon
<1>4. Len(d) = Len(a) + Len(b) /\ (\A j \in 1..Len(a) : d[j] = a[j])
      /\ \A j \in 1..Len(b) : d[Len(a) + j] = b[j]
  BY <1>3, Zenon DEF ConcatOf
<1>5. Len(d) = 3 /\ d[1] = x /\ d[2] = y /\ d[2 + 1] = z
  BY <1>1, <1>4
<1> HIDE DEF d
<1>6. \A j \in 1..Len(d) : d[j] = c[j]
  BY <1>2, <1>5
<1>7. d = c
  BY <1>2, <1>3, <1>5, <1>6, SeqEqual
<1> QED
  BY <1>7 DEF a, b, c, d

\* The three octets behind the destination.
LEMMA HexTwoOne ==
  ASSUME NEW dcs \in Octet
  PROVE  /\ Hex(<<0, dcs, 0>>) \in Seq(Digits) /\ Len(Hex(<<0, dcs, 0>>)) = 6
         /\ At(Hex(<<0, dcs, 0>>), 1, Hex(<<0, dcs>>))
<1> DEFINE a == <<0, dcs>>
           b == <<0>>
           u == Hex(a)
           v == Hex(b)
<1>1. a \in Seq(Octet) /\ b \in Seq(Octet) /\ a \o b = <<0, dcs, 0>>
  <2>2. 0 \in Octet
    BY SomeOctets
  <2>1. a \o b = <<0, dcs, 0>>
    BY <2>2, TwoAndOne
  <2> QED
    BY <2>1, <2>2
<1>2. u \in Seq(Digits) /\ Len(u) = 4 /\ v \in Seq(Digits) /\ Len(v) = 2
  BY SomeOctets, HexOneTwo, Zenon
<1> HIDE DEF a, b
<1>3. Hex(<<0, dcs, 0>>) = u \o v
  BY <1>1, HexConcat
<1> HIDE DEF u, v
<1>4. u \o v \in Seq(Digits) /\ Len(u \o v) = Len(u) + Len(v) /\ At(u \o v, 1, u)
  BY <1>2, AtJoin
<1>5. Len(u \o v) = 6
  BY <1>2, <1>4
<1> QED
  BY <1>3, <1>4, <1>5 DEF u, a

\* The network delivers the part's user data under the gateway's own number.
LEMMA PartDelivered ==
  ASSUME NEW ucs2 \in BOOLEAN, NEW x, Recovers(ucs2, x), NEW n \in Octet, NEW i \in Octet,
         NEW l \in Octet, l = LengthOf(ucs2, x), NEW p, p = EncodePdu(Smsc, Own, ucs2, x, i, n)
  PROVE  Laid(Delivered(p), Own, 68, Coding(ucs2), UserData(ucs2, x, i, n))
<1> DEFINE dcs == Coding(ucs2)
           c == SmscField(Smsc)
           h == Hex(<<113, 0>>)
           a == Address(Own)
           h2 == Hex(<<0, dcs>>)
           h3 == Hex(<<0, dcs, 0>>)
           ud == UserData(ucs2, x, i, n)
           r == h3 \o ud
           V == Nat
<1>1. p = c \o h \o a \o h3 \o ud
  BY AddressType, ConfiguredCentre, Zenon DEF EncodePdu, Coding
<1>2. dcs \in Octet /\ 113 \in Octet /\ 0 \in Octet
  <2>1. dcs = 8 \/ dcs = 0
    BY DEF Coding
  <2>2. 113 \in Octet
    BY OctetIs
  <2> QED
    BY <2>1, <2>2, SomeOctets
<1> HIDE DEF dcs, ud
<1>3. Digits \subseteq V
  BY DigitIs
<1>4. /\ ud \in Seq(Digits)
      /\ h3 \in Seq(Digits) /\ Len(h3) = 6 /\ At(h3, 1, h2) /\ h2 \in Seq(Digits) /\ Len(h2) = 4
  <2>1. ud \in Seq(Digits)
    BY UserDataLaid, Zenon DEF ud
  <2>2. h3 \in Seq(Digits) /\ Len(h3) = 6 /\ At(h3, 1, h2)
    BY <1>2, HexTwoOne, Zenon
  <2>3. h2 \in Seq(Digits) /\ Len(h2) = 4
    BY <1>2, HexOneTwo, Zenon
  <2> QED
    BY <2>1, <2>2, <2>3, Zenon
<1>5. c \in Seq(V) /\ h \in Seq(V) /\ a \in Seq(V)
  BY <1>2, CentreIs, HexTwo, AddressType
<1> HIDE DEF c, h, a, h2, h3
<1>6. ud \in Seq(V) /\ h3 \in Seq(V) /\ h2 \in Seq(V)
  BY <1>3, <1>4, SeqWithin, Zenon
<1>7. Nat \subseteq V
  OBVIOUS
<1> HIDE DEF V
<1>8. p = c \o h \o a \o r
  <2> DEFINE z == c \o h \o a
  <2>1. z \in Seq(V)
    BY <1>5
  <2> HIDE DEF z
  <2>2. (z \o h3) \o ud = z \o (h3 \o ud)
    BY <1>6, <2>1, ConcatAssociative
  <2> QED
    BY <1>1, <2>2, Zenon DEF z
<1>9. r \in Seq(V) /\ Len(r) = Len(h3) + Len(ud) /\ At(r, 1, h3) /\ At(r, Len(h3) + 1, ud)
  BY <1>6, AtJoin
<1> HIDE DEF r
<1>10. At(r, 1, h2)
  <2>1. 1 \in Nat \ {0}
    OBVIOUS
  <2> QED
    BY <1>4, <1>6, <1>9, <2>1, AtFirst
<1> DEFINE bd == BehindDestination(p)
<1>11. /\ p \in Seq(V) /\ bd \in Nat \ {0} /\ At(p, bd, r) /\ Byte(p, DestinationAt(p) - 4) = 113
       /\ Len(p) = bd - 1 + Len(r)
  <2> DEFINE f == 113
  <2>1. p = SmscField(Smsc) \o Hex(<<f, 0>>) \o Address(Own) \o r
    BY <1>8, Zenon DEF c, h, a
  <2>2. f \in Octet /\ r \in Seq(V)
    BY <1>2, <1>9
  <2> HIDE DEF f
  <2>3. /\ p \in Seq(V) /\ bd \in Nat \ {0} /\ At(p, bd, r) /\ Byte(p, DestinationAt(p) - 4) = f
        /\ EndsBehind(p, r)
    BY <1>7, <2>1, <2>2, Fields, Zenon DEF bd
  <2> QED
    BY <2>3 DEF f, EndsBehind
<1> HIDE DEF bd
<1>12. At(p, bd, h2) /\ At(p, bd + 6, ud)
  <2> DEFINE k == Len(h3) + 1
  <2>1. 1 \in Nat \ {0} /\ k \in Nat \ {0} /\ (bd - 1) + 1 = bd /\ (bd - 1) + k = bd + 6
    BY <1>4, <1>11
  <2>2. At(r, k, ud)
    BY <1>9
  <2> HIDE DEF k
  <2>3. At(p, (bd - 1) + 1, h2)
    BY <1>6, <1>9, <1>10, <1>11, <2>1, AtInner
  <2>4. At(p, (bd - 1) + k, ud)
    BY <1>6, <1>9, <1>11, <2>1, <2>2, AtInner
  <2> QED
    BY <2>1, <2>3, <2>4
<1> DEFINE lp == Len(p)
           lu == Len(ud)
<1>13. lp = bd + 5 + lu /\ lu \in Nat
  <2> DEFINE lr == Len(r)
  <2>1. lr = 6 + lu /\ lp = bd - 1 + lr
    BY <1>4, <1>9, <1>11
  <2>2. lu \in Nat
    BY <1>4
  <2> HIDE DEF lp, lu, lr
  <2> QED
    BY <1>11, <2>1, <2>2
<1>14. Copied(p, bd, 4) = h2
  <2> DEFINE j == bd + 3
  <2>1. j = (bd - 1) + Len(h2)
    BY <1>4, <1>11
  <2>2. CutAs(V, V, p, bd, j, h2)
    <3> HIDE DEF j
    <3> QED
      BY <1>6, <1>11, <1>12, <2>1, Zenon DEF CutAs
  <2>3. SubSeq(p, bd, j) = h2
    BY <2>2, CutAt, Zenon
  <2> HIDE DEF lp, lu
  <2>4. (IF bd + 4 > lp THEN lp ELSE bd + 4 - 1) = j
    BY <1>11, <1>13
  <2> HIDE DEF j
  <2>5. Copied(p, bd, 4) = SubSeq(p, bd, j)
    BY <2>4, Zenon DEF Copied, lp
  <2> QED
    BY <2>3, <2>5
<1>15. SubSeq(p, bd + 6, Len(p)) = ud
  <2> DEFINE f == bd + 6
  <2>1. f \in Nat \ {0} /\ At(p, f, ud)
    BY <1>11, <1>12
  <2>2. lp = (f - 1) + lu
    <3> HIDE DEF lp, lu
    <3> QED
      BY <1>11, <1>13
  <2> HIDE DEF f
  <2>3. CutAs(V, V, p, f, Len(p), ud)
    BY <1>6, <1>11, <2>1, <2>2, Zenon DEF CutAs, lp, lu
  <2>4. SubSeq(p, f, Len(p)) = ud
    BY <2>3, CutAt, Zenon
  <2> QED
    BY <2>4 DEF f
<1> DEFINE fo == 68
           q == Delivered(p)
<1>16. q = Centre \o Hex(<<fo>>) \o Address(Own) \o Hex(<<0, dcs>>) \o Stamp \o ud
  <2>1. 4 + 64 * ((Byte(p, DestinationAt(p) - 4) \div 64) % 2) = fo
    BY <1>11
  <2> HIDE DEF fo
  <2>2. Delivered(p) = Centre \o Hex(<<4 + 64 * ((Byte(p, DestinationAt(p) - 4) \div 64) % 2)>>)
                       \o Address(Own) \o Copied(p, bd, 4) \o Stamp \o SubSeq(p, bd + 6, Len(p))
    BY Zenon DEF Delivered, bd
  <2> QED
    BY <1>14, <1>15, <2>1, <2>2, Zenon DEF h2
<1>17. fo \in Octet /\ IsNumber(Own)
  BY SomeOctets, NumbersAssumption
<1> HIDE DEF q, fo
<1>18. Laid(q, Own, fo, dcs, ud)
  BY <1>2, <1>4, <1>16, <1>17, LaidOut
<1> QED
  BY <1>18, Zenon DEF q, fo, dcs, ud

\* What gsm_encode_pdu makes of a part, submitted and delivered, is decoded by
\* gsm_pdu2sm_event into that part, with its number, its total and its sender, in
\* both alphabets.
THEOREM PartComesBack ==
  ASSUME Own # <<Plus>>, NEW ucs2 \in BOOLEAN, NEW x, Recovers(ucs2, x), Fits(ucs2, x),
         NEW i \in Octet, NEW n \in Octet
  PROVE  PduEvent(Delivered(EncodePdu(Smsc, Own, ucs2, x, i, n))) =
             [sender |-> Own, zone |-> 8, part |-> i, total |-> n, text |-> x]
<1> DEFINE l == LengthOf(ucs2, x)
           p == EncodePdu(Smsc, Own, ucs2, x, i, n)
           q == Delivered(p)
           body == HeaderOf(n, i) \o BodyOf(ucs2, x)
           dcs == Coding(ucs2)
           ud == UserData(ucs2, x, i, n)
           fo == 68
<1>1. l \in Octet
  <2>1. l \in Nat
    BY BodyIs
  <2>2. l <= 255
    <3>1. CASE ucs2
      <4> DEFINE m == Len(ToUnits[x])
      <4>1. l = m + 6 /\ m <= LengthUcs2
        BY <3>1 DEF LengthOf, Fits
      <4>2. m \in Nat
        BY <3>1, ToUnitsType DEF Recovers
      <4> HIDE DEF m
      <4> QED
        BY <4>1, <4>2, LimitsAre
    <3>2. CASE ~ucs2
      <4> DEFINE m == Len(ToSeptets[x])
      <4>1. l = m + 7 /\ m <= Length7
        BY <3>2 DEF LengthOf, Fits
      <4>2. m \in Nat
        BY <3>2, SeptetsPacked DEF Recovers
      <4> HIDE DEF m
      <4> QED
        BY <4>1, <4>2, LimitsAre
    <3> QED
      BY <3>1, <3>2
  <2> QED
    BY <2>1, <2>2, OctetIs
<1>2. Laid(q, Own, fo, dcs, ud)
  <2> HIDE DEF l, p
  <2>1. l = LengthOf(ucs2, x) /\ p = EncodePdu(Smsc, Own, ucs2, x, i, n)
    BY DEF l, p
  <2> QED
    BY <1>1, <2>1, PartDelivered, Zenon
<1>3. body \in Seq(Octet) /\ LengthAndRest(ud, l, body)
  BY <1>1, UserDataLaid, Zenon
<1>4. fo \in Octet /\ dcs \in Octet /\ HasDigits(Own)
  <2>1. dcs = 8 \/ dcs = 0
    BY DEF Coding
  <2> QED
    BY <2>1, SomeOctets, NumbersAssumption DEF HasDigits
<1>5. Byte(q, 1) = 2 /\ DecodePdu[q] = FieldsOf(Own, fo, dcs, l, body)
  <2> HIDE DEF q, fo, dcs, l, body, ud
  <2> QED
    <3>1. DeliveredAs(q, Own, fo, dcs, l, body, ud)
      BY <1>1, <1>2, <1>3, <1>4, Zenon DEF DeliveredAs
    <3> QED
      BY <3>1, Decodes
<1> QED
  <2>1. l = LengthOf(ucs2, x) /\ body = HeaderOf(n, i) \o BodyOf(ucs2, x)
    OBVIOUS
  <2>2. DecodePdu[q] = FieldsOf(Own, 68, Coding(ucs2), l, body)
    BY <1>5, Zenon
  <2> HIDE DEF q, l, body
  <2>3. Tells(q, Own, i, n, x)
    BY <1>5, <2>1, <2>2, PartEvent, Zenon
  <2> QED
    BY <2>3 DEF Tells, q, p

\* A text in one PDU without a header: its length and its octets.
WholeBody(ucs2, x) == IF ucs2 THEN ToUnits[x] ELSE Pack[ToSeptets[x]]
WholeLength(ucs2, x) == IF ucs2 THEN Len(ToUnits[x]) ELSE Len(ToSeptets[x])

LEMMA WholeIs ==
  ASSUME NEW ucs2 \in BOOLEAN, NEW x, Recovers(ucs2, x), WholeLength(ucs2, x) <= 255
  PROVE  /\ WholeBody(ucs2, x) \in Seq(Octet) /\ WholeLength(ucs2, x) \in Octet
         /\ Len(WholeBody(ucs2, x)) <= WholeLength(ucs2, x)
         /\ ucs2 => Len(WholeBody(ucs2, x)) = WholeLength(ucs2, x)
<1> DEFINE w == WholeBody(ucs2, x)
           l == WholeLength(ucs2, x)
<1>1. CASE ucs2
  <2> DEFINE u == ToUnits[x]
             n == Len(u)
  <2>1. u \in Seq(Octet)
    BY <1>1, ToUnitsType DEF Recovers
  <2>2. w = u /\ l = n
    BY <1>1 DEF WholeBody, WholeLength
  <2> HIDE DEF u, w
  <2>3. n \in Nat
    BY <2>1
  <2>4. Len(w) = n
    BY <2>2
  <2> HIDE DEF n
  <2>5. l <= 255
    OBVIOUS
  <2> HIDE DEF l
  <2>6. l \in Octet
    BY <2>2, <2>3, <2>5, OctetIs
  <2>7. Len(w) <= l /\ Len(w) = l
    BY <2>2, <2>3, <2>4
  <2> QED
    BY <2>1, <2>2, <2>6, <2>7, Zenon DEF w, l
<1>2. CASE ~ucs2
  <2> DEFINE s == ToSeptets[x]
             p == Pack[s]
             n == Len(s)
  <2>1. s \in Seq(SevenBit)
    BY <1>2, SeptetsPacked DEF Recovers
  <2>2. w = p /\ l = n
    BY <1>2 DEF WholeBody, WholeLength
  <2> HIDE DEF s, w
  <2>3. p \in Seq(Octet) /\ Len(p) = (7 * n + 7) \div 8 /\ n \in Nat
    BY <2>1, PackType
  <2> HIDE DEF n, p
  <2>4. Len(w) = (7 * n + 7) \div 8
    BY <2>2, <2>3
  <2>5. l <= 255
    OBVIOUS
  <2> HIDE DEF l
  <2>6. l \in Octet
    BY <2>2, <2>3, <2>5, OctetIs
  <2>7. Len(w) <= l
    BY <2>2, <2>3, <2>4
  <2> QED
    BY <1>2, <2>2, <2>3, <2>6, <2>7, Zenon DEF w, l
<1> QED
  BY <1>1, <1>2

LEMMA WholeText ==
  ASSUME NEW ucs2 \in BOOLEAN, NEW x, Recovers(ucs2, x), NEW l, l = WholeLength(ucs2, x), l <= 255,
         NEW o \in Seq(Octet), Len(o) = l, PaddedTo(o, WholeBody(ucs2, x))
  PROVE  IF ucs2 THEN Utf8[o] = x ELSE To8Bit(o, l, 0) = x
<1>1. CASE ucs2
  <2> DEFINE u == ToUnits[x]
  <2>1. x \in Seq(Octet) /\ WellFormed(x) /\ Shortest(x)
    BY <1>1 DEF Recovers
  <2>2. u \in Seq(Octet) /\ WholeBody(ucs2, x) = u /\ l = Len(u)
    BY <1>1, <2>1, ToUnitsType DEF WholeBody, WholeLength
  <2> HIDE DEF u
  <2>3. Len(o) = Len(u) /\ PaddedTo(o, u)
    BY <2>2
  <2>4. o = u
    BY <2>2, <2>3, PaddedSame
  <2>5. Utf8[u] = x
    BY <2>1, UnitsBack DEF u
  <2> QED
    BY <1>1, <2>4, <2>5
<1>2. CASE ~ucs2
  <2> DEFINE s == ToSeptets[x]
  <2>1. x \in Seq(Alphabet) /\ x # <<>>
    BY <1>2 DEF Recovers
  <2>2. s \in Seq(SevenBit) /\ WholeBody(ucs2, x) = Pack[s] /\ l = Len(s)
    BY <1>2, <2>1, SeptetsPacked DEF WholeBody, WholeLength
  <2>3. Chars[s] = x
    BY <2>1, CharsBack
  <2> HIDE DEF s
  <2>4. PaddedTo(o, Pack[s])
    BY <2>2, Zenon
  <2>5. Unpacked(o, Len(s), 0) = s
    BY <2>2, <2>4, SeptetsBack
  <2>6. To8Bit(o, l, 0) = x
    BY <2>2, <2>3, <2>5, Zenon DEF To8Bit
  <2> QED
    BY <1>2, <2>6
<1> QED
  BY <1>1, <1>2

\* A whole text in a decoded PDU: the decoder's event is the text.
LEMMA WholeEvent ==
  ASSUME NEW num, NEW ucs2 \in BOOLEAN, NEW x, Recovers(ucs2, x),
         NEW l, l = WholeLength(ucs2, x), l <= 255, NEW body, body = WholeBody(ucs2, x),
         NEW q, Byte(q, 1) = 2, DecodePdu[q] = FieldsOf(num, 4, Coding(ucs2), l, body)
  PROVE  Tells(q, num, 0, 0, x)
<1> DEFINE ud == Hex(body)
           d == DecodePdu[q]
           o == Octets(ud, 1 + 2 * 0, l - 0)
           dcs == Coding(ucs2)
<1>1. body \in Seq(Octet) /\ l \in Octet /\ Len(body) <= l
  BY WholeIs
<1>2. l \in Nat /\ l - 0 = l
  BY <1>1, OctetIs
<1>3. d.fo = 4 /\ d.sender = num /\ d.dcs = dcs /\ d.scts = Dso2String(Stamp) /\ d.udl = l /\ d.ud = ud
  <2> DEFINE st == Dso2String(Stamp)
             f == 4
  <2>1. d = [fo |-> f, sender |-> num, dcs |-> dcs, scts |-> st, udl |-> l, ud |-> ud]
    BY Zenon DEF FieldsOf
  <2> HIDE DEF d, dcs, ud, st, f
  <2>2. d.fo = f /\ d.sender = num /\ d.dcs = dcs /\ d.scts = st /\ d.udl = l /\ d.ud = ud
    BY <2>1
  <2> QED
    BY <2>2, Zenon DEF f, st
<1> HIDE DEF ud, d, dcs
<1>4. o \in Seq(Octet) /\ Len(o) = l /\ PaddedTo(o, body)
  <2> DEFINE a == <<>>
             s == 0
             k == l - 0
  <2>1. s = Len(a) /\ a \in Seq(Octet) /\ a \o body = body
    BY <1>1
  <2>2. ud = Hex(a \o body) /\ o = Octets(ud, 1 + 2 * s, k) /\ k = l
    BY <1>2, <2>1 DEF ud
  <2> HIDE DEF s, o, a, k
  <2>3. OctetsIn(a, body, s, k, o)
    BY <1>1, <1>2, <2>1, <2>2, Zenon DEF OctetsIn
  <2>4. o \in Seq(Octet) /\ Len(o) = k /\ PaddedTo(o, body)
    BY <2>3, OctetsOf, Zenon
  <2> QED
    BY <2>2, <2>4
<1> HIDE DEF o
<1>5. IF ucs2 THEN Utf8[o] = x ELSE To8Bit(o, l, 0) = x
  BY <1>4, WholeText
<1>6. EventOf(q, d, 0, o)
  <2>1. d = DecodePdu[q]
    BY DEF d
  <2>2. 0 = IF (d.fo \div 64) % 2 = 1 THEN Byte(d.ud, 1) + 1 ELSE 0
    <3>1. (4 \div 64) % 2 # 1
      OBVIOUS
    <3> QED
      BY <1>3, <3>1, Zenon
  <2>3. o = Octets(d.ud, 1 + 2 * 0, d.udl - 0)
    BY <1>3, Zenon DEF o
  <2> QED
    BY <2>1, <2>2, <2>3, Zenon DEF EventOf
<1>7. PduEvent(q) = EventAs(q, d, 0, o)
  BY <1>6, EventIs
<1>8. (IF Byte(q, 1) > 0 THEN d.sender ELSE <<>>) = num
  BY <1>3
<1>9. Zone(d.scts) = 8
  BY <1>3, StampZone
<1>10. (IF 0 > 0 THEN Byte(d.ud, 11) ELSE 0) = 0 /\ (IF 0 > 0 THEN Byte(d.ud, 9) ELSE 0) = 0
  OBVIOUS
<1>11. (IF d.dcs = 8 THEN Utf8[o] ELSE IF 0 = 6 THEN To8Bit(o, d.udl - 7, 1)
        ELSE To8Bit(o, d.udl - 0, 0)) = x
  <2>1. (dcs = 8) <=> ucs2
    BY DEF dcs, Coding
  <2>2. ~(0 = 6) /\ d.udl - 0 = l
    BY <1>2, <1>3
  <2> QED
    BY <1>3, <1>5, <2>1, <2>2, Zenon
<1> QED
  BY <1>7, <1>8, <1>9, <1>10, <1>11, Zenon DEF EventAs, Tells

ThreeBehind(z, h, s, u) == z \o (h \o s \o u) = z \o h \o s \o u
Associates(a, b, c) == (a \o b) \o c = a \o (b \o c)

LEMMA ConcatTwo ==
  ASSUME NEW V, NEW a \in Seq(V), NEW b \in Seq(V), NEW c \in Seq(V)
  PROVE  Associates(a, b, c) /\ a \o b \in Seq(V)
BY ConcatAssociative DEF Associates

LEMMA ConcatThree ==
  ASSUME NEW V, NEW z \in Seq(V), NEW h \in Seq(V), NEW s \in Seq(V), NEW u \in Seq(V)
  PROVE  ThreeBehind(z, h, s, u)
<1>1. h \o s \in Seq(V) /\ Associates(z, h, s)
  BY ConcatTwo, Zenon
<1>2. Associates(z, h \o s, u)
  BY <1>1, ConcatTwo, Zenon
<1> QED
  BY <1>1, <1>2, Zenon DEF Associates, ThreeBehind

\* A text the phone sends, laid out.
LEMMA PhoneLaid ==
  ASSUME NEW text, NEW ucs2 \in BOOLEAN, ucs2 = ~IsAscii(text), Recovers(ucs2, text),
         NEW l, l = WholeLength(ucs2, text), l <= 255, NEW body, body = WholeBody(ucs2, text),
         NEW ud, ud = Hex(<<l>> \o body)
  PROVE  LengthAndRest(ud, l, body) /\ Laid(FromPhone(text), Phone, 4, Coding(ucs2), ud)
<1> DEFINE dcs == Coding(ucs2)
           h == Hex(<<4>>)
           a == Address(Phone)
           h2 == Hex(<<0, dcs>>)
           t == <<l>>
           r == h2 \o Stamp \o ud
           q == FromPhone(text)
           V == Nat
<1>1. body \in Seq(Octet) /\ l \in Octet
  BY WholeIs
<1>2. LengthAndRest(ud, l, body) /\ ud \in Seq(Digits)
  <2>1. t \in Seq(Octet)
    BY <1>1
  <2>2. ud = Hex(t \o body)
    OBVIOUS
  <2> HIDE DEF t
  <2>3. Hex(t \o body) = Hex(t) \o Hex(body)
    BY <1>1, <2>1, HexConcat
  <2>4. Hex(t) \in Seq(Digits) /\ Hex(body) \in Seq(Digits)
    BY <1>1, <2>1, HexDigitsType
  <2>5. Hex(t) \o Hex(body) \in Seq(Digits)
    BY <2>4, AtJoin
  <2> QED
    BY <2>2, <2>3, <2>5, Zenon DEF LengthAndRest, t
<1>3. q = Centre \o h \o a \o r
  <2>1. CASE ucs2
    <3>1. body = ToUnits[text] /\ l = Len(ToUnits[text]) /\ dcs = 8 /\ ~IsAscii(text)
      BY <2>1 DEF WholeBody, WholeLength, Coding
    <3> QED
      BY <3>1, Zenon DEF FromPhone
  <2>2. CASE ~ucs2
    <3>1. body = Pack[ToSeptets[text]] /\ l = Len(ToSeptets[text]) /\ dcs = 0 /\ IsAscii(text)
      BY <2>2 DEF WholeBody, WholeLength, Coding
    <3> QED
      BY <3>1, Zenon DEF FromPhone
  <2> QED
    BY <2>1, <2>2
<1>4. dcs \in Octet /\ 4 \in Octet /\ 0 \in Octet /\ IsNumber(Phone)
  <2>1. dcs = 8 \/ dcs = 0
    BY DEF Coding
  <2>2. 4 \in Octet
    BY OctetIs
  <2> QED
    BY <2>1, <2>2, SomeOctets, NumbersAssumption
<1> HIDE DEF dcs
<1>5. h \in Seq(V) /\ a \in Seq(V) /\ h2 \in Seq(V)
  <2>1. a \in Seq(Nat)
    BY <1>4, AddressIs
  <2>2. h \in Seq(Nat)
    BY <1>4, HexOne
  <2>3. h2 \in Seq(Nat)
    BY <1>4, HexTwo
  <2> QED
    BY <2>1, <2>2, <2>3
<1> HIDE DEF h, a, h2
<1>6. Centre \in Seq(V) /\ Stamp \in Seq(V) /\ ud \in Seq(V)
  <2>1. Digits \subseteq V
    BY DigitIs
  <2> QED
    BY <1>2, <2>1, CentreStamp, SeqWithin, Zenon
<1> HIDE DEF V
<1>7. q = Centre \o h \o a \o h2 \o Stamp \o ud
  <2> DEFINE z == Centre \o h \o a
  <2>1. Centre \o h \in Seq(V)
    BY <1>5, <1>6, AtJoin
  <2>2. z \in Seq(V)
    BY <1>5, <1>6, <2>1, AtJoin
  <2>3. q = z \o (h2 \o Stamp \o ud)
    BY <1>3, Zenon
  <2> HIDE DEF z, q
  <2>4. ThreeBehind(z, h2, Stamp, ud)
    BY <1>5, <1>6, <2>2, ConcatThree, Zenon
  <2> QED
    BY <2>3, <2>4, Zenon DEF ThreeBehind, z
<1> DEFINE fo == 4
<1>8. q = Centre \o Hex(<<fo>>) \o Address(Phone) \o Hex(<<0, dcs>>) \o Stamp \o ud
  BY <1>7, Zenon DEF h, a, h2
<1>9. fo \in Octet
  BY <1>4
<1> HIDE DEF q, fo, r
<1>10. Laid(q, Phone, fo, dcs, ud)
  BY <1>2, <1>4, <1>8, <1>9, LaidOut
<1> QED
  BY <1>2, <1>10, Zenon DEF q, fo, dcs

\* A text another phone sends in one PDU, in either alphabet, is decoded by
\* gsm_pdu2sm_event into that text and its sender, without a part.
THEOREM PhoneTextComesBack ==
  ASSUME Phone # <<Plus>>, NEW text,
         Recovers(~IsAscii(text), text), WholeLength(~IsAscii(text), text) <= 255
  PROVE  PduEvent(FromPhone(text)) =
             [sender |-> Phone, zone |-> 8, part |-> 0, total |-> 0, text |-> text]
<1> DEFINE ucs2 == ~IsAscii(text)
           l == WholeLength(ucs2, text)
           body == WholeBody(ucs2, text)
           ud == Hex(<<l>> \o body)
           q == FromPhone(text)
           dcs == Coding(ucs2)
           fo == 4
<1>1. ucs2 \in BOOLEAN
  BY DEF IsAscii
<1>2. ucs2 = ~IsAscii(text) /\ Recovers(ucs2, text) /\ l = WholeLength(ucs2, text) /\ l <= 255
      /\ body = WholeBody(ucs2, text) /\ ud = Hex(<<l>> \o body)
  OBVIOUS
<1> HIDE DEF ucs2, l, body, ud, q
<1>3. LengthAndRest(ud, l, body) /\ Laid(q, Phone, fo, dcs, ud)
  BY <1>1, <1>2, PhoneLaid DEF q
<1>4. body \in Seq(Octet) /\ l \in Octet
  BY <1>1, <1>2, WholeIs
<1>5. fo \in Octet /\ dcs \in Octet /\ HasDigits(Phone)
  <2>1. dcs = 8 \/ dcs = 0
    BY DEF Coding
  <2>2. 4 \in Octet
    BY OctetIs
  <2> QED
    BY <2>1, <2>2, SomeOctets, NumbersAssumption DEF HasDigits
<1>6. Byte(q, 1) = 2 /\ DecodePdu[q] = FieldsOf(Phone, fo, dcs, l, body)
  <2> HIDE DEF fo, dcs
  <2>1. DeliveredAs(q, Phone, fo, dcs, l, body, ud)
    BY <1>3, <1>4, <1>5, Zenon DEF DeliveredAs
  <2> QED
    BY <2>1, Decodes
<1>7. Tells(q, Phone, 0, 0, text)
  BY <1>1, <1>2, <1>6, WholeEvent
<1> QED
  BY <1>7 DEF Tells, q
------------------------------------------------------------------------------
(* What the codings give back.                                             *)
\* gsm_to8Bit undoes gsmEncode7bit and the packing without a header: every text of
\* the 7-bit alphabet comes back from its octets, zeros behind them or not, whatever
\* its length.  flag 1 reads what stands behind a header of six octets, 0 the rest.
THEOREM SeptetTextComesBack ==
  ASSUME NEW x \in Seq(Alphabet), NEW o \in Seq(Octet)
  PROVE  /\ PaddedTo(o, Pack[ToSeptets[x]]) => To8Bit(o, Len(ToSeptets[x]), 0) = x
         /\ x # <<>> /\ PaddedTo(o, Encode7bit(x)) => To8Bit(o, Len(ToSeptets[x]), 1) = x
<1> DEFINE s == ToSeptets[x]
<1>1. Chars[s] = x
  BY CharsBack
<1>2. s \in Seq(SevenBit)
  <2>1. x \in Seq(SevenBit)
    BY DEF Alphabet
  <2> QED
    BY <2>1, ToSeptetsType
<1>3. ASSUME PaddedTo(o, Pack[s]) PROVE To8Bit(o, Len(s), 0) = x
  <2> HIDE DEF s
  <2>1. Unpacked(o, Len(s), 0) = s
    BY <1>2, <1>3, SeptetsBack
  <2> QED
    BY <1>1, <2>1, Zenon DEF To8Bit
<1>4. ASSUME x # <<>>, PaddedTo(o, Encode7bit(x)) PROVE To8Bit(o, Len(s), 1) = x
  <2>1. s # <<>> /\ Encode7bit(x) = <<Head(s) * 2>> \o Pack[Tail(s)]
    BY <1>4, SeptetsPacked
  <2> HIDE DEF s
  <2>2. PaddedTo(o, <<Head(s) * 2>> \o Pack[Tail(s)])
    BY <1>4, <2>1, Zenon
  <2>3. Unpacked(o, Len(s), 1) = s
    BY <1>2, <2>1, <2>2, SeptetsBehind
  <2> QED
    BY <1>1, <2>3, Zenon DEF To8Bit
<1> QED
  BY <1>3, <1>4

\* sms_get_str undoes myUTF8_to_UNICODE: every well-formed text of characters up to
\* three bytes, each in its shortest form and none a surrogate, comes back from
\* its units.
THEOREM UnitTextComesBack ==
  ASSUME NEW x \in Seq(Octet), WellFormed(x), Shortest(x)
  PROVE  ToUnits[x] \in Seq(Octet) /\ Utf8[ToUnits[x]] = x
BY UnitsBack, ToUnitsType
------------------------------------------------------------------------------
(* What is on its way comes back.                                          *)
\* A part in its text, cut where characters end if it is coded as UTF-8.
PartOf(x, text, coding) ==
    /\ x \in Seq(Octet) /\ x # <<>> /\ StandsIn(x, text)
    /\ coding = "UTF-8" => WellFormed(x)

LEMMA PartsOf ==
  ASSUME NEW cmd \in {"file", "sms"}, NEW text \in Messages, WellFormed(text),
         NEW p, p = Parts(cmd, text), NEW i \in 1..Len(p.parts)
  PROVE  PartOf(p.parts[i], text, p.coding)
<1>1. text \in Seq(Octet) /\ text # <<>>
  BY MessageIs
<1>2. PICK limit \in {Length7, LengthUcs2} :
        p = [coding |-> "UTF-8", parts |-> Split(text, Units, Units, limit)]
        \/ p = [coding |-> "ASCII", parts |-> Split(text, Escaped, Escaped, Length7)]
  <2>1. cmd = "file" \/ cmd = "sms"
    OBVIOUS
  <2>2. cmd = "file" => p = FileParts(text)
    BY Zenon DEF Parts
  <2>3. cmd = "sms" => p = SmsParts(text)
    BY DEF Parts
  <2>4. cmd = "file" =>
          \/ p = [coding |-> "UTF-8", parts |-> Split(text, Units, Units, LengthUcs2)]
          \/ p = [coding |-> "ASCII", parts |-> Split(text, Escaped, Escaped, Length7)]
    BY <2>2, Zenon DEF FileParts
  <2>5. cmd = "sms" =>
          \E limit \in {Length7, LengthUcs2} :
             p = [coding |-> "UTF-8", parts |-> Split(text, Units, Units, limit)]
    BY <2>3, Zenon DEF SmsParts
  <2> QED
    BY <2>1, <2>4, <2>5, Zenon
<1>3. CASE p = [coding |-> "UTF-8", parts |-> Split(text, Units, Units, limit)]
  <2> DEFINE s == Split(text, Units, Units, limit)
  <2>1. limit \in Nat /\ Bounds(Units, Units, limit, Octet) /\ Units \in [Octet -> Nat]
    <3>1. limit = Length7 \/ limit = LengthUcs2
      BY <1>2
    <3> QED
      BY <3>1, LimitsAre, BoundsAre, Zenon
  <2>2. Pieced(s, text, Units, Units, limit)
    BY <1>1, <2>1, SplitPieces
  <2>3. p.parts = s
    BY <1>3
  <2> HIDE DEF s
  <2>4. Piece(s[i], text, Units, limit) /\ WellFormed(s[i])
    BY <2>2, <2>3, Zenon DEF Pieced
  <2> QED
    BY <2>3, <2>4, Zenon DEF Piece, PartOf
<1>4. CASE p = [coding |-> "ASCII", parts |-> Split(text, Escaped, Escaped, Length7)]
  <2> DEFINE s == Split(text, Escaped, Escaped, Length7)
  <2>1. Pieced(s, text, Escaped, Escaped, Length7)
    BY <1>1, LimitsAre, BoundsAre, SplitPieces
  <2>2. p.parts = s /\ p.coding # "UTF-8"
    BY <1>4
  <2> HIDE DEF s
  <2>3. Piece(s[i], text, Escaped, Length7)
    BY <2>1, <2>2, Zenon DEF Pieced
  <2> QED
    BY <2>2, <2>3, Zenon DEF Piece, PartOf
<1> QED
  BY <1>2, <1>3, <1>4

\* What stands in a text of shortest forms is in shortest forms.
LEMMA ShortestPart ==
  ASSUME NEW text \in Seq(Octet), Shortest(text), NEW x \in Seq(Octet), WellFormed(x),
         StandsIn(x, text)
  PROVE  Shortest(x)
<1>1. PICK k \in 0..Len(text) : \A j \in 1..Len(x) : k + j \in 1..Len(text) /\ x[j] = text[k + j]
  BY DEF StandsIn
<1>2. SUFFICES ASSUME NEW i \in DOMAIN x
      PROVE  /\ x[i] \notin {192, 193} /\ (x[i] = 224 => x[i + 1] >= 160)
             /\ (x[i] = 237 => x[i + 1] < 160)
  BY DEF Shortest
<1> DEFINE n == Len(x)
<1>3. i \in 1..n /\ n \in Nat /\ k \in Nat
  OBVIOUS
<1>4. k + i \in DOMAIN text /\ x[i] = text[k + i]
  BY <1>1, <1>3
<1>5. /\ text[k + i] \notin {192, 193} /\ (text[k + i] = 224 => text[k + i + 1] >= 160)
      /\ (text[k + i] = 237 => text[k + i + 1] < 160)
  BY <1>4 DEF Shortest
<1>6. ASSUME x[i] = 224 \/ x[i] = 237 PROVE x[i + 1] = text[k + i + 1]
  <2>1. x[i] >= 192
    BY <1>6
  <2>2. i < n
    BY <2>1 DEF WellFormed
  <2>3. i + 1 \in 1..n /\ k + (i + 1) = k + i + 1
    BY <1>3, <2>2
  <2> QED
    BY <1>1, <2>3
<1> QED
  BY <1>4, <1>5, <1>6

\* The 7-bit bytes of what stands in a text are in the alphabet if the text's are.
LEMMA AlphabetPart ==
  ASSUME NEW text \in Seq(Octet), \A i \in DOMAIN text : text[i] < 128 => text[i] \in Alphabet,
         NEW x \in Seq(SevenBit), StandsIn(x, text)
  PROVE  x \in Seq(Alphabet)
<1>1. PICK k \in 0..Len(text) : \A j \in 1..Len(x) : k + j \in 1..Len(text) /\ x[j] = text[k + j]
  BY DEF StandsIn
<1>2. ASSUME NEW j \in 1..Len(x) PROVE x[j] \in Alphabet
  <2>1. x[j] \in SevenBit
    OBVIOUS
  <2>2. x[j] < 128
    BY <2>1, SevenBitIs
  <2>3. k + j \in DOMAIN text /\ x[j] = text[k + j]
    BY <1>1
  <2> QED
    BY <2>2, <2>3
<1>3. x = [j \in 1..Len(x) |-> x[j]] /\ Len(x) \in Nat
  OBVIOUS
<1> QED
  BY <1>2, <1>3

\* What a command makes of a text that comes back can be encoded, fits and comes back.
LEMMA RecoveredPart ==
  ASSUME NEW cmd \in {"file", "sms"}, NEW text \in Messages, Recoverable(text),
         NEW p, p = Parts(cmd, text), NEW i \in 1..Len(p.parts), NEW x, x = p.parts[i]
  PROVE  Recovers(Coded(p.coding, x), x) /\ Fits(Coded(p.coding, x), x)
<1> DEFINE ucs2 == Coded(p.coding, x)
<1>1. text \in Seq(Octet)
  BY MessageIs
<1>2. WellFormed(text) /\ Shortest(text)
      /\ \A j \in DOMAIN text : text[j] < 128 => text[j] \in Alphabet
  BY DEF Recoverable
<1>3. PartOf(x, text, p.coding)
  BY <1>2, PartsOf
<1>4. Codable(ucs2, x) /\ Fits(ucs2, x)
  <2>1. cmd \in {"file", "sms", "app"}
    OBVIOUS
  <2>2. PartsAre(Parts(cmd, text), cmd \in {"file", "sms"} /\ WellFormed(text))
    BY <2>1, CommandParts
  <2> QED
    BY <1>2, <2>2, Zenon DEF PartsAre
<1>5. CASE ucs2
  <2>1. x \in Seq(Octet) /\ WellFormed(x) /\ StandsIn(x, text)
    BY <1>3, <1>5 DEF PartOf, Coded
  <2>2. Shortest(x)
    BY <1>1, <1>2, <2>1, ShortestPart
  <2> QED
    BY <1>4, <1>5, <2>1, <2>2 DEF Recovers
<1>6. CASE ~ucs2
  <2>1. x \in Seq(SevenBit) /\ x # <<>>
    BY <1>4, <1>6 DEF Codable
  <2>2. StandsIn(x, text)
    BY <1>3 DEF PartOf
  <2>3. x \in Seq(Alphabet)
    BY <1>1, <1>2, <2>1, <2>2, AlphabetPart
  <2> QED
    BY <1>4, <1>6, <2>1, <2>3 DEF Recovers
<1> QED
  BY <1>5, <1>6

\* The event of what is delivered of a PDU is a part of the text that was asked for.
IsPart(e, p, i) ==
    i \in DOMAIN p /\ e = [sender |-> Own, zone |-> 8, part |-> i, total |-> Len(p), text |-> p[i]]
AsAsked(t, a) ==
    a.cmd \in {"file", "sms"} =>
        IsPart(PduEvent(Delivered(t.pdu)), Parts(a.cmd, a.text).parts, t.part)

LEMMA AskedComesBack ==
  ASSUME Own # <<Plus>>, NEW cmd \in {"file", "sms"}, NEW text \in Messages, Recoverable(text),
         NEW p, p = Parts(cmd, text), Len(p.parts) <= 255, NEW i \in 1..Len(p.parts),
         NEW pdu, pdu = EncodeText(Smsc, Own, p.coding, p.parts[i], i, Len(p.parts))
  PROVE  IsPart(PduEvent(Delivered(pdu)), p.parts, i)
<1> DEFINE x == p.parts[i]
           ucs2 == Coded(p.coding, x)
           n == Len(p.parts)
<1>1. Recovers(ucs2, x) /\ Fits(ucs2, x)
  BY RecoveredPart
<1>2. n \in Octet /\ i \in Octet /\ i \in DOMAIN p.parts
  <2>1. n \in Nat /\ i \in DOMAIN p.parts
    <3>1. cmd \in {"file", "sms", "app"}
      OBVIOUS
    <3>2. p.parts \in Seq(Seq(Octet))
      BY <3>1, CommandParts, Zenon DEF PartsAre
    <3> DEFINE W == Seq(Octet)
    <3>3. p.parts \in Seq(W)
      BY <3>2
    <3> HIDE DEF W
    <3> QED
      BY <3>3
  <2> HIDE DEF n
  <2>2. i \in 1..n /\ n <= 255
    BY DEF n
  <2>3. i \in Nat /\ i <= 255
    BY <2>1, <2>2
  <2> QED
    BY <2>1, <2>2, <2>3, OctetIs
<1>3. ucs2 \in BOOLEAN
  BY Zenon DEF Coded
<1>4. pdu = EncodePdu(Smsc, Own, ucs2, x, i, n)
  BY Zenon DEF EncodeText, Coded
<1> HIDE DEF x, ucs2, n
<1>5. PduEvent(Delivered(EncodePdu(Smsc, Own, ucs2, x, i, n))) =
        [sender |-> Own, zone |-> 8, part |-> i, total |-> n, text |-> x]
  BY <1>1, <1>2, <1>3, PartComesBack
<1>6. PduEvent(Delivered(pdu)) = [sender |-> Own, zone |-> 8, part |-> i, total |-> n, text |-> x]
  BY <1>4, <1>5, Zenon
<1> QED
  BY <1>2, <1>6, Zenon DEF IsPart, x, n

\* On its way to the span's own number, decoded with its text's parts.
AllAsAsked == \A t \in Parcels : AsAsked(t, asked[t.id])
RecoverableTexts ==
    /\ Own # <<Plus>>
    /\ \A text \in Messages :
          Recoverable(text) /\ \A cmd \in {"file", "sms"} : Len(Parts(cmd, text).parts) <= 255

LEMMA KeptAsAsked ==
  ASSUME IInv, AllAsAsked, UNCHANGED asked \/ \E x : asked' = Append(asked, x),
         NEW t \in Parcels
  PROVE  AsAsked(t, asked'[t.id])
<1>1. t.id \in DOMAIN asked /\ asked \in Seq(ToSet(asked)) /\ AsAsked(t, asked[t.id])
  BY Zenon DEF IInv, Histories, AllAsAsked, Ids
<1>2. asked'[t.id] = asked[t.id]
  <2>1. CASE UNCHANGED asked
    BY <2>1, Zenon
  <2>2. CASE \E x : asked' = Append(asked, x)
    <3>1. PICK x : asked' = Append(asked, x)
      BY <2>2
    <3>2. Append(asked, x)[t.id] = asked[t.id]
      BY <1>1, AppendIs, Zenon
    <3> QED
      BY <3>1, <3>2, Zenon
  <2> QED
    BY <2>1, <2>2, Zenon
<1> QED
  BY <1>1, <1>2, Zenon

LEMMA AsAskedAsk ==
  ASSUME RecoverableTexts, IInv, AllAsAsked, NEW cmd \in Commands, NEW text \in Messages,
         Ask(cmd, text)
  PROVE  AllAsAsked'
<1> DEFINE p == Parts(cmd, text)
           id == Len(asked) + 1
           n == Len(p.parts)
           Pdu(i) == EncodeText(Smsc, Own, p.coding, p.parts[i], i, n)
           x == [cmd |-> cmd, text |-> text, plain |-> TRUE]
<1>1. /\ asked' = Append(asked, x) /\ UNCHANGED <<sending, air>>
      /\ todo' = todo \cup {Queued(id, i, Pdu(i)) : i \in 1..n}
  BY Zenon DEF Ask
<1>2. asked \in Seq(ToSet(asked))
  BY Zenon DEF IInv, Histories
<1> HIDE DEF p
<1>3. x.cmd = cmd /\ x.text = text
  OBVIOUS
<1> HIDE DEF x
<1>4. asked'[id] = x
  BY <1>1, <1>2, AppendIs, Zenon
<1> SUFFICES ASSUME NEW t \in Parcels' PROVE AsAsked(t, asked'[t.id])
  BY DEF AllAsAsked
<1>5. t \in Parcels \/ t \in {Queued(id, i, Pdu(i)) : i \in 1..n}
  BY <1>1 DEF Parcels
<1>6. CASE t \in Parcels
  <2>1. \E y : asked' = Append(asked, y)
    BY <1>1
  <2> QED
    BY <1>6, <2>1, KeptAsAsked
<1>7. CASE t \in {Queued(id, i, Pdu(i)) : i \in 1..n}
  <2>1. PICK i \in 1..n : t = Queued(id, i, Pdu(i))
    BY <1>7
  <2> DEFINE q == Pdu(i)
  <2>2. ASSUME cmd \in {"file", "sms"} PROVE IsPart(PduEvent(Delivered(q)), p.parts, i)
    <3>1. q = EncodeText(Smsc, Own, p.coding, p.parts[i], i, Len(p.parts)) /\ p = Parts(cmd, text)
          /\ i \in 1..Len(p.parts)
      BY DEF p
    <3>2. Own # <<Plus>> /\ Recoverable(text) /\ Len(p.parts) <= 255
      BY <2>2, Zenon DEF RecoverableTexts, p
    <3> HIDE DEF q, n
    <3> QED
      BY <2>2, <3>1, <3>2, AskedComesBack, Zenon
  <2>3. t = Queued(id, i, q)
    BY <2>1
  <2> HIDE DEF q, Pdu, id, n
  <2>4. t.id = id /\ t.pdu = q /\ t.part = i
    BY <2>3, QueuedIs
  <2>5. asked'[t.id] = x
    BY <1>4, <2>4, Zenon
  <2> QED
    BY <1>3, <2>2, <2>4, <2>5, Zenon DEF AsAsked, p
<1> QED
  BY <1>5, <1>6, <1>7

LEMMA AsAskedForward ==
  ASSUME IInv, AllAsAsked, NEW k \in DOMAIN inbox, Forward(k)
  PROVE  AllAsAsked'
<1> DEFINE id == Len(asked) + 1
           q == ForwardPdu(inbox[k].pdu, Own, Smsc)
           new == Queued(id, 1, q)
           x == [cmd |-> "forward", text |-> inbox[k].text, plain |-> inbox[k].total = 0]
<1>1. /\ asked' = Append(asked, x) /\ todo' = todo \cup {new} /\ UNCHANGED <<sending, air>>
  BY Zenon DEF Forward
<1>2. asked \in Seq(ToSet(asked))
  BY Zenon DEF IInv, Histories
<1>3. x.cmd = "forward"
  OBVIOUS
<1> HIDE DEF x
<1>4. asked'[id] = x
  BY <1>1, <1>2, AppendIs, Zenon
<1> SUFFICES ASSUME NEW t \in Parcels' PROVE AsAsked(t, asked'[t.id])
  BY DEF AllAsAsked
<1>5. t \in Parcels \/ t = new
  BY <1>1 DEF Parcels
<1>6. CASE t \in Parcels
  <2>1. \E y : asked' = Append(asked, y)
    BY <1>1
  <2> QED
    BY <1>6, <2>1, KeptAsAsked
<1>7. CASE t = new
  <2>1. t.id = id
    BY <1>7, QueuedIs
  <2>2. asked'[t.id].cmd = "forward"
    BY <1>3, <1>4, <2>1, Zenon
  <2> QED
    BY <2>2 DEF AsAsked
<1> QED
  BY <1>5, <1>6, <1>7

LEMMA AsAskedStep ==
  ASSUME RecoverableTexts, IInv, AllAsAsked, [Next]_vars
  PROVE  AllAsAsked'
<1>1. ASSUME Parcels' \subseteq Parcels, UNCHANGED asked \/ \E x : asked' = Append(asked, x)
      PROVE  AllAsAsked'
  <2> SUFFICES ASSUME NEW t \in Parcels' PROVE AsAsked(t, asked'[t.id])
    BY DEF AllAsAsked
  <2>1. t \in Parcels
    BY <1>1
  <2> QED
    BY <1>1, <2>1, KeptAsAsked, Zenon
<1>2. ASSUME NEW cmd \in Commands, NEW text \in Messages, Ask(cmd, text) PROVE AllAsAsked'
  BY <1>2, AsAskedAsk
<1>3. ASSUME NEW k \in DOMAIN inbox, Forward(k) PROVE AllAsAsked'
  BY <1>3, AsAskedForward
<1>4. ASSUME NEW text \in PhoneTexts, NEW mode \in Modes, PhoneSends(text, mode)
      PROVE  AllAsAsked'
  <2>1. Parcels' \subseteq Parcels /\ \E x : asked' = Append(asked, x)
    BY <1>4, Zenon DEF PhoneSends, Parcels
  <2> QED
    BY <1>1, <2>1, Zenon
<1>5. ASSUME NEW t \in todo, Send(t) PROVE AllAsAsked'
  <2>1. Parcels' \subseteq Parcels /\ UNCHANGED asked
    BY <1>5 DEF Send, Parcels
  <2> QED
    BY <1>1, <2>1, Zenon
<1>6. ASSUME NEW t \in air, Deliver(t) PROVE AllAsAsked'
  <2>1. Parcels' \subseteq Parcels /\ UNCHANGED asked
    BY <1>6 DEF Deliver, Parcels
  <2> QED
    BY <1>1, <2>1, Zenon
<1>7. ASSUME NEW n \in DOMAIN stream, Read(n) PROVE AllAsAsked'
  <2>1. UNCHANGED <<asked, todo, sending, air>>
    BY <1>7, Zenon DEF Read
  <2>2. Parcels' \subseteq Parcels /\ UNCHANGED asked
    BY <2>1 DEF Parcels
  <2> QED
    BY <1>1, <2>2, Zenon
<1>8. CASE TakeLine
  <2>1. /\ UNCHANGED <<asked, todo>>
        /\ \/ air' = air \cup sending /\ sending' = {}
           \/ UNCHANGED <<air, sending>>
    BY <1>8, Zenon DEF TakeLine
  <2>2. Parcels' \subseteq Parcels /\ UNCHANGED asked
    BY <2>1 DEF Parcels
  <2> QED
    BY <1>1, <2>2, Zenon
<1>9. CASE TakeText \/ TakeEnds \/ UNCHANGED vars
  <2>1. UNCHANGED <<asked, todo, sending, air>>
    BY <1>9, Zenon DEF TakeText, TakeEnds, vars
  <2>2. Parcels' \subseteq Parcels /\ UNCHANGED asked
    BY <2>1 DEF Parcels
  <2> QED
    BY <1>1, <2>2, Zenon
<1> QED
  BY <1>2, <1>3, <1>4, <1>5, <1>6, <1>7, <1>8, <1>9, Zenon DEF Next, Sends, Delivers, Reads, Takes

\* What is read of the PDUs on their way, as Exact says it of the events.
ReadsBack ==
    \A t \in Parcels :
        LET e == PduEvent(Delivered(t.pdu))
        IN  asked[t.id].cmd \in {"file", "sms"} =>
                /\ <<e.part, e.total, e.text>> \in Reported(t.id)
                /\ e.sender = Sender(t.id) /\ e.zone = 8

\* Every part that handle_gsm_send_sms or handle_gsm_send_sms_file hands over is, whenever
\* the network delivers it and in whatever order, decoded by gsm_pdu2sm_event
\* into one of the parts its text was split into, with that part's number, the total
\* and the sender: for every number, centre and limit, and all texts that have no
\* more than 255 parts and only characters the two alphabets have.
THEOREM EveryPartReadsBack ==
  ASSUME Own # <<Plus>>, \A text \in Messages : Recoverable(text),
         \A text \in Messages, cmd \in {"file", "sms"} : Len(Parts(cmd, text).parts) <= 255
  PROVE  Spec => []ReadsBack
<1>1. RecoverableTexts
  BY Zenon DEF RecoverableTexts
<1>2. Init => AllAsAsked
  BY DEF Init, AllAsAsked, Parcels
<1>3. IInv /\ AllAsAsked /\ [Next]_vars => AllAsAsked'
  BY <1>1, AsAskedStep
<1>4. AllAsAsked => ReadsBack
  <2> SUFFICES ASSUME AllAsAsked, NEW t \in Parcels, asked[t.id].cmd \in {"file", "sms"},
                      NEW e, e = PduEvent(Delivered(t.pdu))
               PROVE  /\ <<e.part, e.total, e.text>> \in Reported(t.id)
                      /\ e.sender = Sender(t.id) /\ e.zone = 8
    BY Zenon DEF ReadsBack
  <2> DEFINE a == asked[t.id]
             p == Parts(a.cmd, a.text).parts
  <2>1. IsPart(e, p, t.part)
    BY Zenon DEF AllAsAsked, AsAsked
  <2>2. Reported(t.id) = {<<i, Len(p), p[i]>> : i \in DOMAIN p}
    BY DEF Reported
  <2>3. Sender(t.id) = Own
    BY DEF Sender
  <2> QED
    BY <2>1, <2>2, <2>3 DEF IsPart
<1> QED
  BY <1>2, <1>3, <1>4, Invariant, PTL DEF Spec
=============================================================================
