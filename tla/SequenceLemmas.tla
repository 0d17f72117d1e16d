-------------------------- MODULE SequenceLemmas --------------------------
(***************************************************************************)
(* Induction, and FlattenSeq, for the modules of proofs: a property of all *)
(* naturals is a set of naturals without a least counterexample.           *)
(***************************************************************************)
EXTENDS Integers, Sequences, SequencesExt, SequenceTheorems, WellFoundedInduction, TLAPS

-----------------------------------------------------------------------------
(* Induction. *)

LEMMA LeastElement ==
  ASSUME NEW T, T \subseteq Nat, T # {}
  PROVE  \E m \in T : \A k \in T : m <= k
<1> DEFINE R == {p \in Nat \X Nat : p[1] < p[2]}
<1>1. IsWellFoundedOn(R, Nat)
  BY NatLessThanWellFounded DEF OpToRel
<1> HIDE DEF R
<1>2. PICK m \in T : \A k \in T : <<k, m>> \notin R
  BY <1>1, WFMin
<1>3. \A k \in T : ~(k < m)
  <2> SUFFICES ASSUME NEW k \in T, k < m PROVE FALSE
    OBVIOUS
  <2>1. <<k, m>> \in Nat \X Nat /\ <<k, m>>[1] < <<k, m>>[2]
    OBVIOUS
  <2>2. <<k, m>> \in R
    BY <2>1 DEF R
  <2> QED
    BY <1>2, <2>2
<1>4. m \in Nat /\ \A k \in T : k \in Nat
  OBVIOUS
<1> QED
  BY <1>3, <1>4

\* A set that holds zero, and with every number the next, holds all of them.
LEMMA Induction ==
  ASSUME NEW S, 0 \in S, \A n \in Nat : n \in S => n + 1 \in S
  PROVE  \A n \in Nat : n \in S
<1> SUFFICES ASSUME NEW n \in Nat, n \notin S PROVE FALSE
  OBVIOUS
<1> DEFINE T == {k \in Nat : k \notin S}
<1>1. PICK m \in T : \A k \in T : m <= k
  <2>1. T \subseteq Nat /\ T # {}
    OBVIOUS
  <2> HIDE DEF T
  <2> QED
    BY <2>1, LeastElement
<1>2. m \in Nat /\ m # 0 /\ m \notin S
  OBVIOUS
<1>3. m - 1 \in Nat /\ m - 1 < m /\ (m - 1) + 1 = m
  BY <1>2
<1>4. m - 1 \in S
  <2>1. m - 1 \in T => m <= m - 1
    BY <1>1
  <2> QED
    BY <1>2, <1>3, <2>1
<1> QED
  BY <1>2, <1>3, <1>4

LEMMA LargestElement ==
  ASSUME NEW k \in Nat, NEW s, s \subseteq 1 .. k, s # {}
  PROVE  \E m \in s : \A x \in s : m >= x
<1> DEFINE T == {k - x : x \in s}
<1>1. \A x \in s : x \in 1 .. k
  OBVIOUS
<1>2. T \subseteq Nat /\ T # {}
  <2>1. \A x \in s : k - x \in Nat
    BY <1>1
  <2> QED
    BY <2>1
<1>3. PICK d \in T : \A e \in T : d <= e
  <2> HIDE DEF T
  <2> QED
    BY <1>2, LeastElement
<1>4. PICK m \in s : d = k - m
  OBVIOUS
<1>5. \A x \in s : d <= k - x
  BY <1>3
<1> QED
  BY <1>1, <1>4, <1>5

\* Sequences are built from the empty one by appending.
LEMMA BytesInduction ==
  ASSUME NEW X, NEW S, <<>> \in S,
         \A s \in Seq(X), x \in X : s \in S => Append(s, x) \in S
  PROVE  \A s \in Seq(X) : s \in S
<1> DEFINE T == {n \in Nat : \A s \in Seq(X) : Len(s) = n => s \in S}
<1>1. 0 \in T
  <2>1. \A s \in Seq(X) : Len(s) = 0 => s = <<>>
    BY EmptySeq
  <2> QED
    BY <2>1
<1>2. ASSUME NEW n \in Nat, n \in T  PROVE n + 1 \in T
  <2> SUFFICES ASSUME NEW s \in Seq(X), Len(s) = n + 1 PROVE s \in S
    OBVIOUS
  <2>1. PICK t \in Seq(X), x \in X : s = Append(t, x)
    <3>1. s # <<>>
      OBVIOUS
    <3> QED
      BY <3>1, SequenceEmptyOrAppend
  <2>2. Len(t) = n
    BY <2>1, AppendProperties, LenProperties
  <2> QED
    BY <1>2, <2>1, <2>2
<1>3. \A n \in Nat : n \in T
  <2> HIDE DEF T
  <2> QED
    BY <1>1, <1>2, Induction
<1> QED
  BY <1>3, LenProperties

-----------------------------------------------------------------------------
(* FlattenSeq, from sequences that grow at their end. *)

\* The function that FlattenSeq is defined by.
Flattens(g, seqs) == g = [i \in 1 .. Len(seqs) |-> IF i = 1 THEN seqs[i] ELSE g[i - 1] \o seqs[i]]

LEMMA FlattenExists ==
  ASSUME NEW seqs, Len(seqs) \in Nat
  PROVE  \E g : Flattens(g, seqs)
<1> DEFINE Value(g, i) == IF i = 1 THEN seqs[i] ELSE g[i - 1] \o seqs[i]
           Fits(g, n) == g = [i \in 1 .. n |-> Value(g, i)]
           S == {n \in Nat : \E g : Fits(g, n)}
<1>1. 0 \in S
  <2> DEFINE g == [i \in 1 .. 0 |-> 0]
  <2>1. Fits(g, 0)
    OBVIOUS
  <2> QED
    BY <2>1
<1>2. ASSUME NEW n \in Nat, n \in S  PROVE n + 1 \in S
  <2>1. PICK g : Fits(g, n)
    BY <1>2
  <2> DEFINE h == [i \in 1 .. n + 1 |-> IF i = n + 1 THEN Value(g, i) ELSE g[i]]
  <2>2. \A i \in 1 .. n + 1 : h[i] = Value(h, i)
    <3> SUFFICES ASSUME NEW i \in 1 .. n + 1 PROVE h[i] = Value(h, i)
      OBVIOUS
    <3>1. h[i] = Value(g, i)
      <4>1. CASE i = n + 1
        BY <4>1
      <4>2. CASE i \in 1 .. n
        <5>1. h[i] = g[i]
          BY <4>2
        <5>2. g[i] = Value(g, i)
          <6> HIDE DEF Value
          <6> QED
            BY <2>1, <4>2
        <5> QED
          BY <5>1, <5>2
      <4> QED
        BY <4>1, <4>2
    <3>2. i # 1 => h[i - 1] = g[i - 1]
      OBVIOUS
    <3> QED
      BY <3>1, <3>2
  <2>3. Fits(h, n + 1)
    <3>1. h = [i \in 1 .. n + 1 |-> h[i]]
      OBVIOUS
    <3> HIDE DEF h, Value
    <3> QED
      BY <2>2, <3>1
  <2> QED
    <3> HIDE DEF Fits, h
    <3> QED
      BY <2>3
<1>3. Len(seqs) \in S
  <2> HIDE DEF S
  <2> QED
    BY <1>1, <1>2, Induction
<1> QED
  BY <1>3 DEF Flattens

LEMMA FlattenIs ==
  ASSUME NEW seqs, Len(seqs) \in Nat, Len(seqs) # 0
  PROVE  \E g : Flattens(g, seqs) /\ FlattenSeq(seqs) = g[Len(seqs)]
<1> DEFINE g == CHOOSE f : Flattens(f, seqs)
<1>1. Flattens(g, seqs)
  BY FlattenExists
<1>2. FlattenSeq(seqs) = g[Len(seqs)]
  BY DEF FlattenSeq, Flattens
<1> HIDE DEF g
<1> QED
  BY <1>1, <1>2

LEMMA FlattenEmpty == FlattenSeq(<<>>) = <<>>
BY DEF FlattenSeq

LEMMA FlattenAppend ==
  ASSUME NEW X, NEW seqs \in Seq(Seq(X)), NEW s \in Seq(X)
  PROVE  FlattenSeq(Append(seqs, s)) = FlattenSeq(seqs) \o s
<1> DEFINE n == Len(seqs)
           longer == Append(seqs, s)
<1>1. /\ n \in Nat /\ Len(longer) = n + 1 /\ n + 1 \in Nat /\ n + 1 # 0 /\ longer[n + 1] = s
      /\ \A i \in 1 .. n : longer[i] = seqs[i]
  BY LenProperties, AppendProperties
<1>2. n = 0 => seqs = <<>>
  BY EmptySeq
<1> HIDE DEF n, longer
<1>3. PICK h : Flattens(h, longer) /\ FlattenSeq(longer) = h[n + 1]
  BY <1>1, FlattenIs
<1>4. \A i \in 1 .. n + 1 : h[i] = IF i = 1 THEN longer[i] ELSE h[i - 1] \o longer[i]
  BY <1>1, <1>3 DEF Flattens
<1>5. CASE n = 0
  <2>1. FlattenSeq(longer) = s
    BY <1>1, <1>3, <1>4, <1>5
  <2>2. FlattenSeq(seqs) = <<>> /\ <<>> \o s = s
    BY <1>2, <1>5, FlattenEmpty, ConcatEmptySeq
  <2> QED
    BY <2>1, <2>2 DEF longer
<1>6. CASE n # 0
  <2>1. PICK g : Flattens(g, seqs) /\ FlattenSeq(seqs) = g[n]
    BY <1>1, <1>6, FlattenIs DEF n
  <2>2. \A i \in 1 .. n : g[i] = IF i = 1 THEN seqs[i] ELSE g[i - 1] \o seqs[i]
    BY <2>1 DEF Flattens, n
  <2> DEFINE S == {k \in Nat : k \in 1 .. n => h[k] = g[k]}
  <2>3. 0 \in S
    OBVIOUS
  <2>4. ASSUME NEW k \in Nat, k \in S  PROVE k + 1 \in S
    <3> SUFFICES ASSUME k + 1 \in 1 .. n PROVE h[k + 1] = g[k + 1]
      OBVIOUS
    <3>1. g[k + 1] = IF k + 1 = 1 THEN seqs[k + 1] ELSE g[k] \o seqs[k + 1]
      BY <2>2
    <3>2. h[k + 1] = IF k + 1 = 1 THEN seqs[k + 1] ELSE h[k] \o seqs[k + 1]
      BY <1>1, <1>4
    <3>3. k + 1 # 1 => h[k] = g[k]
      BY <1>1, <2>4
    <3> QED
      BY <3>1, <3>2, <3>3
  <2>5. n \in S
    <3> HIDE DEF S
    <3> QED
      BY <1>1, <2>3, <2>4, Induction
  <2>6. h[n + 1] = h[n] \o s
    <3>1. n + 1 \in 1 .. n + 1 /\ n + 1 # 1 /\ (n + 1) - 1 = n
      BY <1>1, <1>6
    <3> QED
      BY <1>1, <1>4, <3>1
  <2>7. h[n] = g[n]
    BY <1>1, <1>6, <2>5
  <2> QED
    BY <1>3, <2>1, <2>6, <2>7 DEF longer
<1> QED
  BY <1>5, <1>6

LEMMA FlattenType ==
  ASSUME NEW X, NEW seqs \in Seq(Seq(X))
  PROVE  FlattenSeq(seqs) \in Seq(X)
<1> DEFINE S == {s \in Seq(Seq(X)) : FlattenSeq(s) \in Seq(X)}
<1>1. <<>> \in S
  <2>1. <<>> \in Seq(Seq(X)) /\ <<>> \in Seq(X)
    OBVIOUS
  <2> QED
    BY <2>1, FlattenEmpty
<1>2. ASSUME NEW s \in Seq(Seq(X)), NEW x \in Seq(X), s \in S  PROVE Append(s, x) \in S
  BY <1>2, FlattenAppend, AppendProperties, ConcatProperties
<1>3. \A s \in Seq(Seq(X)) : s \in S
  <2> HIDE DEF S
  <2> QED
    BY <1>1, <1>2, BytesInduction
<1> QED
  BY <1>3

\* The concatenation of three sequences, cited where the provers should not look into it.
Associates(a, b, c) == (a \o b) \o c = a \o (b \o c)

LEMMA Regroup ==
  ASSUME NEW X, NEW a \in Seq(X), NEW b \in Seq(X), NEW c \in Seq(X)
  PROVE  Associates(a, b, c)
BY ConcatAssociative, SMTT(30) DEF Associates

LEMMA FlattenConcat ==
  ASSUME NEW X, NEW r \in Seq(Seq(X)), NEW seqs \in Seq(Seq(X))
  PROVE  FlattenSeq(r \o seqs) = FlattenSeq(r) \o FlattenSeq(seqs)
<1> DEFINE S == {t \in Seq(Seq(X)) : FlattenSeq(r \o t) = FlattenSeq(r) \o FlattenSeq(t)}
<1>1. <<>> \in Seq(Seq(X)) /\ FlattenSeq(r) \in Seq(X)
  BY FlattenType
<1>2. <<>> \in S
  <2>1. r \o <<>> = r /\ FlattenSeq(r) \o <<>> = FlattenSeq(r)
    BY <1>1, ConcatEmptySeq
  <2> QED
    BY <1>1, <2>1, FlattenEmpty
<1>3. ASSUME NEW t \in Seq(Seq(X)), NEW x \in Seq(X), t \in S  PROVE Append(t, x) \in S
  <2> HIDE DEF S
  <2>1. Append(t, x) \in Seq(Seq(X)) /\ r \o t \in Seq(Seq(X))
    BY AppendProperties, ConcatProperties
  <2>2. r \o Append(t, x) = Append(r \o t, x)
    <3> DEFINE end == <<x>>
    <3>1. Append(t, x) = t \o end /\ Append(r \o t, x) = (r \o t) \o end /\ end \in Seq(Seq(X))
      BY <2>1, AppendIsConcat
    <3> HIDE DEF end
    <3>2. (r \o t) \o end = r \o (t \o end)
      <4>1. Associates(r, t, end)
        BY <3>1, Regroup
      <4> QED
        BY <4>1 DEF Associates
    <3> QED
      BY <3>1, <3>2
  <2>3. FlattenSeq(Append(r \o t, x)) = FlattenSeq(r \o t) \o x
    BY <2>1, FlattenAppend
  <2>4. FlattenSeq(Append(t, x)) = FlattenSeq(t) \o x /\ FlattenSeq(t) \in Seq(X)
    BY FlattenAppend, FlattenType
  <2>5. (FlattenSeq(r) \o FlattenSeq(t)) \o x = FlattenSeq(r) \o (FlattenSeq(t) \o x)
    <3> DEFINE a == FlattenSeq(r)
               b == FlattenSeq(t)
    <3>1. a \in Seq(X) /\ b \in Seq(X)
      BY <1>1, <2>4
    <3> HIDE DEF a, b
    <3>2. (a \o b) \o x = a \o (b \o x)
      <4>1. Associates(a, b, x)
        BY <3>1, Regroup
      <4> QED
        BY <4>1 DEF Associates
    <3> QED
      BY <3>2 DEF a, b
  <2>6. FlattenSeq(r \o t) = FlattenSeq(r) \o FlattenSeq(t)
    BY <1>3 DEF S
  <2>7. FlattenSeq(r \o Append(t, x)) = FlattenSeq(r) \o FlattenSeq(Append(t, x))
    BY <2>2, <2>3, <2>4, <2>5, <2>6
  <2> QED
    BY <2>1, <2>7 DEF S
<1>4. \A t \in Seq(Seq(X)) : t \in S
  <2> HIDE DEF S
  <2> QED
    BY <1>2, <1>3, BytesInduction
<1> QED
  BY <1>4

LEMMA FlattenOne ==
  ASSUME NEW X, NEW s \in Seq(X)
  PROVE  FlattenSeq(<<s>>) = s
<1>1. <<s>> = Append(<<>>, s) /\ <<>> \in Seq(Seq(X)) /\ <<>> \in Seq(X) /\ <<>> \o s = s
  BY ConcatEmptySeq
<1>2. FlattenSeq(Append(<<>>, s)) = FlattenSeq(<<>>) \o s
  BY <1>1, FlattenAppend
<1> QED
  BY <1>1, <1>2, FlattenEmpty

\* From sequences that grow at their front.
LEMMA FlattenPrepend ==
  ASSUME NEW X, NEW seqs \in Seq(Seq(X)), NEW s \in Seq(X)
  PROVE  FlattenSeq(<<s>> \o seqs) = s \o FlattenSeq(seqs)
<1>1. <<s>> \in Seq(Seq(X))
  OBVIOUS
<1>2. FlattenSeq(<<s>> \o seqs) = FlattenSeq(<<s>>) \o FlattenSeq(seqs)
  <2> DEFINE r == <<s>>
  <2>1. r \in Seq(Seq(X))
    BY <1>1
  <2> HIDE DEF r
  <2>2. FlattenSeq(r \o seqs) = FlattenSeq(r) \o FlattenSeq(seqs)
    BY <2>1, FlattenConcat
  <2> QED
    BY <2>2 DEF r
<1> QED
  BY <1>2, FlattenOne

LEMMA OneMore ==
  ASSUME NEW X, NEW k \in Nat, NEW f \in [1 .. k + 1 -> X]
  PROVE  /\ [i \in 1 .. k + 1 |-> f[i]] = Append([i \in 1 .. k |-> f[i]], f[k + 1])
         /\ [i \in 1 .. k |-> f[i]] \in Seq(X) /\ f[k + 1] \in X
<1> DEFINE first == [i \in 1 .. k |-> f[i]]
           longer == [i \in 1 .. k + 1 |-> f[i]]
<1>1. first \in Seq(X) /\ longer \in Seq(X) /\ Len(first) = k /\ f[k + 1] \in X
  OBVIOUS
<1>2. DOMAIN longer = 1 .. Len(Append(first, f[k + 1])) /\ Len(longer) = k + 1
  BY <1>1, AppendProperties
<1>3. \A i \in 1 .. k + 1 : longer[i] = Append(first, f[k + 1])[i]
  BY <1>1, AppendProperties
<1> QED
  BY <1>1, <1>2, <1>3, AppendProperties, SeqEqual

LEMMA FlattenStep ==
  ASSUME NEW X, NEW k \in Nat, NEW f \in [1 .. k + 1 -> Seq(X)]
  PROVE  FlattenSeq([i \in 1 .. k + 1 |-> f[i]]) = FlattenSeq([i \in 1 .. k |-> f[i]]) \o f[k + 1]
<1> DEFINE first == [i \in 1 .. k |-> f[i]]
           longer == [i \in 1 .. k + 1 |-> f[i]]
           s == f[k + 1]
<1>1. longer = Append(first, s) /\ first \in Seq(Seq(X)) /\ s \in Seq(X)
  BY OneMore
<1> HIDE DEF first, longer, s
<1>2. FlattenSeq(Append(first, s)) = FlattenSeq(first) \o s
  BY <1>1, FlattenAppend
<1>3. FlattenSeq(longer) = FlattenSeq(first) \o s
  BY <1>1, <1>2
<1> QED
  BY <1>3 DEF first, longer, s

-----------------------------------------------------------------------------
(* Beginnings. *)

\* s is x and then v.
Splits(s, x, v) == s = x \o v

LEMMA FirstOfConcat ==
  ASSUME NEW X, NEW s \in Seq(X), NEW t \in Seq(X)
  PROVE  SubSeq(s \o t, 1, Len(s)) = s /\ IsPrefix(s, s \o t)
<1>1. s \o t \in Seq(X) /\ Len(s \o t) = Len(s) + Len(t) /\ Len(s) \in Nat /\ Len(t) \in Nat
  BY ConcatProperties, LenProperties
<1>2. SubSeq(s, 1, Len(s)) = s
  BY SubSeqFull
<1>3. SubSeq(s \o t, 1, Len(s)) = s
  <2>1. CASE Len(s) = 0
    <3>1. s = <<>> /\ 0 < 1 /\ 0 \in Int /\ 1 \in Int
      BY <2>1, EmptySeq
    <3> QED
      BY <2>1, <3>1, SubSeqEmpty
  <2>2. CASE Len(s) # 0
    <3>1. 1 \in 1 .. Len(s) /\ Len(s) \in 1 .. Len(s)
      BY <1>1, <2>2
    <3> QED
      BY <1>2, <3>1, SubSeqOfConcat1
  <2> QED
    BY <2>1, <2>2
<1> QED
  BY <1>1, <1>2, <1>3 DEF IsPrefix

\* Of two beginnings of one sequence the longer starts with the shorter.
LEMMA LongerBeginning ==
  ASSUME NEW X, NEW p \in Seq(X), NEW q \in Seq(X), NEW a \in Seq(X), NEW b \in Seq(X),
         NEW s, Splits(s, p, q), Splits(s, a, b), Len(a) <= Len(p)
  PROVE  \E c \in Seq(X) : Splits(p, a, c) /\ Splits(b, c, q)
<1> DEFINE k == Len(a)
           c == SubSeq(p, k + 1, Len(p))
<1>0. p \o q = a \o b
  BY DEF Splits
<1>1. k \in Nat /\ Len(p) \in Nat /\ 1 \in 1 .. Len(p) + 1 /\ k \in 1 - 1 .. Len(p) /\ Len(p) \in k .. Len(p)
  BY LenProperties
<1>2. SubSeq(p, 1, k) \o c = p
  <2>1. SubSeq(p, 1, k) \o SubSeq(p, k + 1, Len(p)) = SubSeq(p, 1, Len(p))
    BY <1>1, ConcatAdjacentSubSeq
  <2> QED
    BY <2>1, SubSeqFull
<1>3. SubSeq(p, 1, k) = a
  <2>1. SubSeq(a \o b, 1, k) = a
    BY FirstOfConcat
  <2>2. SubSeq(p \o q, 1, k) = SubSeq(p, 1, k)
    <3>1. CASE k = 0
      <4>1. 1 \in Int /\ 0 \in Int /\ 0 < 1
        OBVIOUS
      <4> QED
        BY <3>1, <4>1, SubSeqEmpty
    <3>2. CASE k # 0
      <4>1. 1 \in 1 .. Len(p) /\ k \in 1 .. Len(p)
        BY <1>1, <3>2
      <4> QED
        BY <4>1, SubSeqOfConcat1
    <3> QED
      BY <3>1, <3>2
  <2> QED
    BY <1>0, <2>1, <2>2
<1>4. c \in Seq(X)
  <2>1. \A i \in k + 1 .. Len(p) : p[i] \in X
    BY <1>1, ElementOfSeq
  <2>2. k + 1 \in Int /\ Len(p) \in Int
    BY <1>1
  <2> QED
    BY <2>1, <2>2, SubSeqProperties
<1> HIDE DEF c, k
<1>5. p = a \o c
  BY <1>2, <1>3
<1>6. a \o (c \o q) = a \o b
  <2>1. (a \o c) \o q = a \o (c \o q)
    <3>1. Associates(a, c, q)
      BY <1>4, Regroup
    <3> QED
      BY <3>1 DEF Associates
  <2> QED
    BY <1>0, <1>5, <2>1
<1>7. c \o q = b
  <2>1. c \o q \in Seq(X)
    BY <1>4, ConcatProperties
  <2> DEFINE d == c \o q
  <2>2. d \in Seq(X) /\ a \o d = a \o b
    BY <1>6, <2>1
  <2> HIDE DEF d
  <2>3. d = b
    BY <1>4, <2>2, ConcatSimplifications
  <2> QED
    BY <2>3 DEF d
<1> QED
  BY <1>4, <1>5, <1>7 DEF Splits

LEMMA TwoPieces ==
  ASSUME NEW X, NEW s \in Seq(X), NEW k \in 0 .. Len(s)
  PROVE  /\ SubSeq(s, 1, k) \in Seq(X) /\ SubSeq(s, k + 1, Len(s)) \in Seq(X)
         /\ Splits(s, SubSeq(s, 1, k), SubSeq(s, k + 1, Len(s)))
<1>1. Len(s) \in Nat /\ k \in Nat /\ 1 \in 1 .. Len(s) + 1 /\ k \in 1 - 1 .. Len(s) /\ Len(s) \in k .. Len(s)
  BY LenProperties
<1>2. SubSeq(s, 1, k) \o SubSeq(s, k + 1, Len(s)) = s
  <2>1. SubSeq(s, 1, k) \o SubSeq(s, k + 1, Len(s)) = SubSeq(s, 1, Len(s))
    BY <1>1, ConcatAdjacentSubSeq
  <2> QED
    BY <2>1, SubSeqFull
<1>3. SubSeq(s, 1, k) \in Seq(X)
  <2>1. \A i \in 1 .. k : s[i] \in X
    BY <1>1, ElementOfSeq
  <2> QED
    BY <1>1, <2>1, SubSeqProperties
<1>4. SubSeq(s, k + 1, Len(s)) \in Seq(X)
  <2>1. \A i \in k + 1 .. Len(s) : s[i] \in X
    BY <1>1, ElementOfSeq
  <2>2. k + 1 \in Int /\ Len(s) \in Int
    BY <1>1
  <2> QED
    BY <2>1, <2>2, SubSeqProperties
<1> QED
  BY <1>2, <1>3, <1>4 DEF Splits

-----------------------------------------------------------------------------
(* Three sequences in a row. *)

Three(a, b, c) == a \o b \o c

LEMMA ThreeParts ==
  ASSUME NEW X, NEW a \in Seq(X), NEW b \in Seq(X), NEW c \in Seq(X)
  PROVE  /\ Three(a, b, c) \in Seq(X) /\ Len(Three(a, b, c)) = Len(a) + Len(b) + Len(c)
         /\ \A i \in 1 .. Len(a) : Three(a, b, c)[i] = a[i]
         /\ \A i \in 1 .. Len(b) : Three(a, b, c)[Len(a) + i] = b[i]
         /\ \A i \in 1 .. Len(c) : Three(a, b, c)[Len(a) + Len(b) + i] = c[i]
<1> DEFINE ab == a \o b
           w == ab \o c
<1>1. Len(a) \in Nat /\ Len(b) \in Nat /\ Len(c) \in Nat
  BY LenProperties
<1>2. /\ ab \in Seq(X) /\ Len(ab) = Len(a) + Len(b)
      /\ \A i \in 1 .. Len(a) + Len(b) : ab[i] = IF i <= Len(a) THEN a[i] ELSE b[i - Len(a)]
  BY ConcatProperties
<1> HIDE DEF ab
<1>3. /\ w \in Seq(X) /\ Len(w) = Len(ab) + Len(c)
      /\ \A i \in 1 .. Len(ab) + Len(c) : w[i] = IF i <= Len(ab) THEN ab[i] ELSE c[i - Len(ab)]
  <2>1. ab \in Seq(X)
    BY <1>2
  <2> QED
    BY <2>1, ConcatProperties
<1> HIDE DEF w
<1>4. \A i \in 1 .. Len(a) : w[i] = a[i]
  BY <1>1, <1>2, <1>3
<1>5. \A i \in 1 .. Len(b) : w[Len(a) + i] = b[i]
  <2> SUFFICES ASSUME NEW i \in 1 .. Len(b) PROVE w[Len(a) + i] = b[i]
    OBVIOUS
  <2> DEFINE k == Len(a) + i
  <2>1. k \in 1 .. Len(a) + Len(b) /\ k \in 1 .. Len(ab) + Len(c) /\ ~(k <= Len(a)) /\ k - Len(a) = i /\ k <= Len(ab)
    BY <1>1, <1>2
  <2> HIDE DEF k
  <2>2. w[k] = ab[k] /\ ab[k] = b[k - Len(a)]
    BY <1>2, <1>3, <2>1
  <2> QED
    BY <2>1, <2>2 DEF k
<1>6. \A i \in 1 .. Len(c) : w[Len(a) + Len(b) + i] = c[i]
  <2> SUFFICES ASSUME NEW i \in 1 .. Len(c) PROVE w[Len(a) + Len(b) + i] = c[i]
    OBVIOUS
  <2> DEFINE k == Len(a) + Len(b) + i
  <2>1. k \in 1 .. Len(ab) + Len(c) /\ k - Len(ab) = i /\ ~(k <= Len(ab))
    BY <1>1, <1>2
  <2> HIDE DEF k
  <2>2. w[k] = c[k - Len(ab)]
    BY <1>3, <2>1
  <2> QED
    BY <2>1, <2>2 DEF k
<1>7. Three(a, b, c) = w
  BY DEF Three, w, ab
<1>8. w \in Seq(X) /\ Len(w) = Len(a) + Len(b) + Len(c)
  BY <1>2, <1>3
<1> QED
  BY <1>4, <1>5, <1>6, <1>7, <1>8

LEMMA ThreeBegins ==
  ASSUME NEW X, NEW a \in Seq(X), NEW b \in Seq(X), NEW c \in Seq(X)
  PROVE  \A i \in 1 .. Len(a) : Three(a, b, c)[i] = a[i]
BY ThreeParts

Two(a, b) == a \o b
Four(a, b, c, d) == a \o b \o c \o d

LEMMA FourAreThree ==
  ASSUME NEW X, NEW a \in Seq(X), NEW b \in Seq(X), NEW c \in Seq(X), NEW d
  PROVE  Four(a, b, c, d) = Three(a, Two(b, c), d)
BY ConcatAssociative DEF Two, Three, Four
=============================================================================
