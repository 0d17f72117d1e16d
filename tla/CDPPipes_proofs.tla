---------------------------- MODULE CDPPipes_proofs ----------------------------
(***************************************************************************)
(* Proofs about reading from the pipes, for every stream of messages,      *)
(* every buffer size, every pipe capacity and every fault.  First what the *)
(* operators on bytes compute: Strings, which folds a buffer into the      *)
(* strings its NULs end, and Stream, which flattens the browser's messages *)
(* into one sequence.  Then the invariant: what a Read holds and what is   *)
(* in the pipe are adjacent parts of the stream.                           *)
(***************************************************************************)
EXTENDS CDPPipes, SequenceLemmas

-----------------------------------------------------------------------------
(* Strings is a fold from the left. *)

NoStrings == [strings |-> <<>>, rest |-> <<>>]

StringsStep(acc, b, withEmpty) ==
  IF b # NUL THEN [acc EXCEPT !.rest = Append(@, b)]
  ELSE [strings |-> IF acc.rest = <<>> /\ ~withEmpty THEN acc.strings ELSE Append(acc.strings, acc.rest),
        rest |-> <<>>]

Largest(s) == CHOOSE x \in s : \A y \in s : x >= y

\* The function that the fold is defined by.
Iterates(g, bytes, withEmpty) ==
  g = [s \in SUBSET DOMAIN bytes |->
         IF s = {} THEN NoStrings
                   ELSE StringsStep(g[s \ {Largest(s)}], bytes[Largest(s)], withEmpty)]
Folded(bytes, withEmpty) == (CHOOSE g : Iterates(g, bytes, withEmpty))[DOMAIN bytes]

LEMMA StringsAreFolded ==
  ASSUME NEW bytes, NEW withEmpty
  PROVE  Strings(bytes, withEmpty) = Folded(bytes, withEmpty).strings
BY DEF Strings, FoldLeft, MapThenFoldSet, Max, StringsStep, Largest, NoStrings, Folded, Iterates

LEMMA LargestIsMember ==
  ASSUME NEW k \in Nat, NEW s, s \subseteq 1 .. k, s # {}
  PROVE  Largest(s) \in s /\ \A x \in s : Largest(s) >= x
<1>1. \E m \in s : \A x \in s : m >= x
  BY LargestElement
<1> QED
  BY <1>1 DEF Largest

LEMMA LargestOfRange ==
  ASSUME NEW k \in Nat, NEW s, s \subseteq 1 .. k + 1, k + 1 \in s
  PROVE  Largest(s) = k + 1
<1>1. Largest(s) \in s /\ \A x \in s : Largest(s) >= x
  <2>1. k + 1 \in Nat /\ s # {}
    OBVIOUS
  <2> QED
    BY <2>1, LargestIsMember
<1>2. Largest(s) \in 1 .. k + 1 /\ Largest(s) >= k + 1
  BY <1>1
<1> QED
  BY <1>2

LEMMA IterationExists ==
  ASSUME NEW bytes, NEW n \in Nat, DOMAIN bytes = 1 .. n, NEW withEmpty
  PROVE  \E g : Iterates(g, bytes, withEmpty)
<1> DEFINE Value(g, s) == IF s = {} THEN NoStrings
                          ELSE StringsStep(g[s \ {Largest(s)}], bytes[Largest(s)], withEmpty)
           Fits(g, k) == g = [s \in SUBSET (1 .. k) |-> Value(g, s)]
           S == {k \in Nat : \E g : Fits(g, k)}
<1>1. 0 \in S
  <2> DEFINE g == [s \in {{}} |-> NoStrings]
  <2>1. SUBSET (1 .. 0) = {{}}
    OBVIOUS
  <2>2. Fits(g, 0)
    BY <2>1
  <2> QED
    BY <2>2
<1>2. ASSUME NEW k \in Nat, k \in S  PROVE k + 1 \in S
  <2>1. PICK g : Fits(g, k)
    BY <1>2
  <2>2. \A s \in SUBSET (1 .. k) : g[s] = Value(g, s)
    BY <2>1
  <2> DEFINE h == [s \in SUBSET (1 .. k + 1) |->
                     IF k + 1 \in s THEN StringsStep(g[s \ {k + 1}], bytes[k + 1], withEmpty) ELSE g[s]]
  <2>3. ASSUME NEW s \in SUBSET (1 .. k + 1)  PROVE h[s] = Value(h, s)
    <3>1. CASE k + 1 \in s
      <4>1. Largest(s) = k + 1 /\ s # {}
        BY <3>1, LargestOfRange
      <4>2. s \ {k + 1} \in SUBSET (1 .. k) /\ s \ {k + 1} \in SUBSET (1 .. k + 1) /\ k + 1 \notin s \ {k + 1}
        OBVIOUS
      <4>3. h[s \ {k + 1}] = g[s \ {k + 1}]
        BY <4>2
      <4> QED
        BY <3>1, <4>1, <4>3
    <3>2. CASE k + 1 \notin s
      <4>1. s \in SUBSET (1 .. k)
        BY <3>2
      <4>2. h[s] = g[s]
        BY <3>2
      <4>3. CASE s = {}
        BY <2>2, <4>1, <4>2, <4>3
      <4>4. CASE s # {}
        <5>1. s \ {Largest(s)} \in SUBSET (1 .. k) /\ k + 1 \notin s \ {Largest(s)}
          BY <3>2, <4>1
        <5>2. h[s \ {Largest(s)}] = g[s \ {Largest(s)}]
          BY <5>1
        <5> QED
          BY <2>2, <4>1, <4>2, <4>4, <5>2
      <4> QED
        BY <4>3, <4>4
    <3> QED
      BY <3>1, <3>2
  <2>4. Fits(h, k + 1)
    <3> HIDE DEF Value
    <3>1. h = [s \in SUBSET (1 .. k + 1) |-> h[s]]
      OBVIOUS
    <3> HIDE DEF h
    <3> QED
      BY <2>3, <3>1
  <2> QED
    <3> HIDE DEF Fits, h
    <3> QED
      BY <2>4
<1>3. n \in S
  <2> HIDE DEF S
  <2> QED
    BY <1>1, <1>2, Induction
<1> QED
  BY <1>3 DEF Iterates

\* What the bytes before the last have given, and then the last byte.
LEMMA FoldedEmpty ==
  ASSUME NEW withEmpty
  PROVE  Folded(<<>>, withEmpty) = NoStrings
<1>1. DOMAIN <<>> = 1 .. 0 /\ 0 \in Nat
  OBVIOUS
<1>2. \E g : Iterates(g, <<>>, withEmpty)
  BY <1>1, IterationExists
<1> DEFINE g == CHOOSE h : Iterates(h, <<>>, withEmpty)
<1>3. Iterates(g, <<>>, withEmpty)
  BY <1>2
<1>4. DOMAIN <<>> = {} /\ {} \in SUBSET (DOMAIN <<>>)
  OBVIOUS
<1> HIDE DEF g
<1>5. g[DOMAIN <<>>] = NoStrings
  BY <1>3, <1>4 DEF Iterates
<1> QED
  BY <1>5 DEF Folded, g

LEMMA FoldedAppend ==
  ASSUME NEW bytes \in Seq(Nat), NEW b \in Nat, NEW withEmpty
  PROVE  Folded(Append(bytes, b), withEmpty) = StringsStep(Folded(bytes, withEmpty), b, withEmpty)
<1> DEFINE n == Len(bytes)
           longer == Append(bytes, b)
           g == CHOOSE f : Iterates(f, bytes, withEmpty)
           h == CHOOSE f : Iterates(f, longer, withEmpty)
<1>1. /\ n \in Nat /\ DOMAIN bytes = 1 .. n /\ DOMAIN longer = 1 .. n + 1 /\ longer[n + 1] = b
      /\ \A i \in 1 .. n : longer[i] = bytes[i]
  BY LenProperties, AppendProperties
<1> HIDE DEF n, longer
<1>2. Iterates(g, bytes, withEmpty) /\ Iterates(h, longer, withEmpty)
  <2>1. (\E f : Iterates(f, bytes, withEmpty)) /\ (\E f : Iterates(f, longer, withEmpty))
    <3>1. n + 1 \in Nat
      BY <1>1
    <3>2. \E f : Iterates(f, bytes, withEmpty)
      BY <1>1, IterationExists
    <3>3. \E f : Iterates(f, longer, withEmpty)
      BY <1>1, <3>1, IterationExists
    <3> QED
      BY <3>2, <3>3
  <2> QED
    BY <2>1
<1> HIDE DEF g, h
<1>3. ASSUME NEW f, NEW seq, NEW m \in Nat, DOMAIN seq = 1 .. m, Iterates(f, seq, withEmpty)
      PROVE  /\ f[1 .. 0] = NoStrings
             /\ \A k \in Nat : k + 1 <= m => f[1 .. k + 1] = StringsStep(f[1 .. k], seq[k + 1], withEmpty)
  <2>1. f[1 .. 0] = NoStrings
    <3>1. 1 .. 0 = {} /\ {} \in SUBSET (DOMAIN seq)
      OBVIOUS
    <3> QED
      BY <1>3, <3>1 DEF Iterates
  <2>2. ASSUME NEW k \in Nat, k + 1 <= m
        PROVE  f[1 .. k + 1] = StringsStep(f[1 .. k], seq[k + 1], withEmpty)
    <3>1. 1 .. k + 1 \in SUBSET (DOMAIN seq) /\ 1 .. k + 1 # {} /\ (1 .. k + 1) \ {k + 1} = 1 .. k
      <4>1. 1 .. k + 1 \subseteq 1 .. m
        BY <2>2
      <4>2. k + 1 \in 1 .. k + 1
        OBVIOUS
      <4>3. (1 .. k + 1) \ {k + 1} = 1 .. k
        OBVIOUS
      <4> QED
        BY <1>3, <4>1, <4>2, <4>3
    <3>2. Largest(1 .. k + 1) = k + 1
      BY LargestOfRange
    <3> QED
      BY <1>3, <3>1, <3>2 DEF Iterates
  <2> QED
    BY <2>1, <2>2
<1>3a. \A k \in Nat : k + 1 <= n => g[1 .. k + 1] = StringsStep(g[1 .. k], bytes[k + 1], withEmpty)
  BY <1>1, <1>2, <1>3
<1>3b. \A k \in Nat : k + 1 <= n + 1 => h[1 .. k + 1] = StringsStep(h[1 .. k], longer[k + 1], withEmpty)
  <2>1. n + 1 \in Nat
    BY <1>1
  <2> QED
    BY <1>1, <1>2, <1>3, <2>1
<1>4. \A k \in 0 .. n : h[1 .. k] = g[1 .. k]
  <2> DEFINE S == {k \in Nat : k <= n => h[1 .. k] = g[1 .. k]}
  <2>1. 0 \in S
    BY <1>1, <1>2, <1>3
  <2>2. ASSUME NEW k \in Nat, k \in S  PROVE k + 1 \in S
    <3> SUFFICES ASSUME k + 1 <= n PROVE h[1 .. k + 1] = g[1 .. k + 1]
      OBVIOUS
    <3>1. h[1 .. k] = g[1 .. k] /\ k + 1 <= n + 1 /\ longer[k + 1] = bytes[k + 1]
      BY <1>1, <2>2
    <3>2. g[1 .. k + 1] = StringsStep(g[1 .. k], bytes[k + 1], withEmpty)
      BY <1>3a
    <3>3. h[1 .. k + 1] = StringsStep(h[1 .. k], longer[k + 1], withEmpty)
      BY <1>3b, <3>1
    <3> QED
      BY <3>1, <3>2, <3>3
  <2>3. \A k \in Nat : k \in S
    <3> HIDE DEF S
    <3> QED
      BY <2>1, <2>2, Induction
  <2> QED
    BY <1>1, <2>3
<1>5. h[1 .. n + 1] = StringsStep(h[1 .. n], b, withEmpty)
  BY <1>1, <1>3b
<1>6. h[1 .. n + 1] = StringsStep(g[1 .. n], b, withEmpty)
  BY <1>1, <1>4, <1>5
<1>7. Folded(bytes, withEmpty) = g[1 .. n] /\ Folded(longer, withEmpty) = h[1 .. n + 1]
  BY <1>1 DEF Folded, g, h
<1> QED
  BY <1>6, <1>7 DEF longer

-----------------------------------------------------------------------------
(* What Strings returns. *)

\* The bytes after the last NUL.
RestOf(bytes, withEmpty) == Folded(bytes, withEmpty).rest

LEMMA FoldedType ==
  ASSUME NEW withEmpty, NEW bytes \in Seq(Nat)
  PROVE  Folded(bytes, withEmpty) \in [strings : Seq(Seq(Nat)), rest : Seq(Nat)]
<1> DEFINE R == [strings : Seq(Seq(Nat)), rest : Seq(Nat)]
           S == {s \in Seq(Nat) : Folded(s, withEmpty) \in R}
<1>1. <<>> \in S
  <2>1. <<>> \in Seq(Nat) /\ <<>> \in Seq(Seq(Nat))
    OBVIOUS
  <2>2. NoStrings \in R
    BY <2>1 DEF NoStrings
  <2> QED
    BY <2>1, <2>2, FoldedEmpty
<1>2. ASSUME NEW s \in Seq(Nat), NEW b \in Nat, s \in S  PROVE Append(s, b) \in S
  <2>1. Folded(s, withEmpty) \in R /\ Append(s, b) \in Seq(Nat)
    BY <1>2
  <2>2. \A acc \in R : StringsStep(acc, b, withEmpty) \in R
    <3> SUFFICES ASSUME NEW acc \in R PROVE StringsStep(acc, b, withEmpty) \in R
      OBVIOUS
    <3>1. Append(acc.rest, b) \in Seq(Nat) /\ Append(acc.strings, acc.rest) \in Seq(Seq(Nat)) /\ <<>> \in Seq(Nat)
      BY AppendProperties
    <3> QED
      BY <3>1 DEF StringsStep
  <2> QED
    BY <2>1, <2>2, FoldedAppend
<1>3. \A s \in Seq(Nat) : s \in S
  <2> HIDE DEF S
  <2> QED
    BY <1>1, <1>2, BytesInduction
<1> QED
  BY <1>3

LEMMA StringsEmpty ==
  ASSUME NEW withEmpty
  PROVE  Strings(<<>>, withEmpty) = <<>> /\ RestOf(<<>>, withEmpty) = <<>>
BY StringsAreFolded, FoldedEmpty DEF NoStrings, RestOf

LEMMA StringsAppend ==
  ASSUME NEW bytes \in Seq(Nat), NEW b \in Nat, NEW withEmpty
  PROVE  /\ Strings(bytes, withEmpty) \in Seq(Seq(Nat)) /\ RestOf(bytes, withEmpty) \in Seq(Nat)
         /\ b # NUL => /\ Strings(Append(bytes, b), withEmpty) = Strings(bytes, withEmpty)
                       /\ RestOf(Append(bytes, b), withEmpty) = Append(RestOf(bytes, withEmpty), b)
         /\ b = NUL => /\ Strings(Append(bytes, b), withEmpty) =
                            IF RestOf(bytes, withEmpty) = <<>> /\ ~withEmpty
                            THEN Strings(bytes, withEmpty)
                            ELSE Append(Strings(bytes, withEmpty), RestOf(bytes, withEmpty))
                       /\ RestOf(Append(bytes, b), withEmpty) = <<>>
<1>1. Folded(bytes, withEmpty) \in [strings : Seq(Seq(Nat)), rest : Seq(Nat)]
  BY FoldedType
<1>2. Folded(Append(bytes, b), withEmpty) = StringsStep(Folded(bytes, withEmpty), b, withEmpty)
  BY FoldedAppend
<1> QED
  BY <1>1, <1>2, StringsAreFolded DEF StringsStep, RestOf

-----------------------------------------------------------------------------
(* The stream: message n is in the bytes from End(n - 1) + 1 to End(n). *)

Messages == Len(MessageSize)
FirstFramed(n) == [i \in 1 .. n |-> Framed(i, MessageSize[i])]
StreamUpTo(n) == FlattenSeq(FirstFramed(n))
End(n) == Len(StreamUpTo(n))

LEMMA MessageSizes ==
  /\ Messages \in Nat /\ DOMAIN MessageSize = 1 .. Messages
  /\ \A n \in 1 .. Messages : MessageSize[n] \in Nat /\ MessageSize[n] > 0
<1>1. MessageSize \in Seq(Nat \ {0})
  BY SizeAssumption
<1> QED
  BY <1>1, LenProperties DEF Messages

LEMMA StreamIs == Stream = StreamUpTo(Messages)
BY MessageSizes DEF Stream, StreamUpTo, FirstFramed

LEMMA FramedIs ==
  ASSUME NEW i \in Nat, NEW size \in Nat
  PROVE  /\ Framed(i, size) \in Seq(Nat) /\ Len(Framed(i, size)) = size + 1
         /\ \A j \in 1 .. size + 1 : Framed(i, size)[j] = IF j <= size THEN i ELSE NUL
<1>1. Framed(i, size) \in [1 .. size + 1 -> Nat] /\ size + 1 \in Nat
  BY DEF Framed, NUL
<1> QED
  BY <1>1, SeqDef DEF Framed

LEMMA FirstFramedStep ==
  /\ FirstFramed(0) = <<>>
  /\ \A n \in Nat : n <= Messages => FirstFramed(n) \in Seq(Seq(Nat))
  /\ \A n \in Nat : n + 1 <= Messages =>
       FirstFramed(n + 1) = Append(FirstFramed(n), Framed(n + 1, MessageSize[n + 1]))
<1>1. ASSUME NEW n \in Nat, n <= Messages  PROVE FirstFramed(n) \in Seq(Seq(Nat)) /\ Len(FirstFramed(n)) = n
  <2>1. \A i \in 1 .. n : Framed(i, MessageSize[i]) \in Seq(Nat)
    BY <1>1, MessageSizes, FramedIs
  <2>2. FirstFramed(n) \in [1 .. n -> Seq(Nat)]
    BY <2>1 DEF FirstFramed
  <2> QED
    BY <2>2
<1>2. ASSUME NEW n \in Nat, n + 1 <= Messages
      PROVE  FirstFramed(n + 1) = Append(FirstFramed(n), Framed(n + 1, MessageSize[n + 1]))
  <2> DEFINE s == FirstFramed(n)
             t == FirstFramed(n + 1)
             x == Framed(n + 1, MessageSize[n + 1])
  <2>1. s \in Seq(Seq(Nat)) /\ Len(s) = n /\ t \in Seq(Seq(Nat)) /\ Len(t) = n + 1 /\ x \in Seq(Nat)
    <3>1. n <= Messages /\ n + 1 \in Nat /\ n + 1 \in 1 .. Messages
      BY <1>2, MessageSizes
    <3> QED
      BY <1>1, <1>2, <3>1, FramedIs, MessageSizes
  <2>2. /\ \A i \in 1 .. n : t[i] = s[i]
        /\ t[n + 1] = x
    BY DEF FirstFramed
  <2> HIDE DEF s, t, x
  <2>3. Append(s, x) \in Seq(Seq(Nat)) /\ Len(Append(s, x)) = n + 1 /\ Append(s, x)[n + 1] = x
        /\ \A i \in 1 .. n : Append(s, x)[i] = s[i]
    BY <2>1, AppendProperties
  <2>4. \A i \in 1 .. Len(t) : t[i] = Append(s, x)[i]
    BY <2>1, <2>2, <2>3
  <2>5. t = Append(s, x)
    BY <2>1, <2>3, <2>4, SeqEqual
  <2> QED
    BY <2>5 DEF s, t, x
<1>3. FirstFramed(0) = <<>>
  <2>1. FirstFramed(0) \in Seq(Seq(Nat)) /\ Len(FirstFramed(0)) = 0
    BY <1>1, MessageSizes
  <2> QED
    BY <2>1, EmptySeq
<1> QED
  BY <1>1, <1>2, <1>3

LEMMA StreamStep ==
  /\ StreamUpTo(0) = <<>>
  /\ \A n \in Nat : n <= Messages => StreamUpTo(n) \in Seq(Nat)
  /\ \A n \in Nat : n + 1 <= Messages =>
       StreamUpTo(n + 1) = StreamUpTo(n) \o Framed(n + 1, MessageSize[n + 1])
<1>1. ASSUME NEW n \in Nat, n + 1 <= Messages
      PROVE  StreamUpTo(n + 1) = StreamUpTo(n) \o Framed(n + 1, MessageSize[n + 1])
  <2>1. n <= Messages /\ n + 1 \in 1 .. Messages
    BY <1>1, MessageSizes
  <2>2. FirstFramed(n) \in Seq(Seq(Nat))
    BY <2>1, FirstFramedStep
  <2>3. MessageSize[n + 1] \in Nat /\ n + 1 \in Nat
    BY <2>1, MessageSizes
  <2>4. Framed(n + 1, MessageSize[n + 1]) \in Seq(Nat)
    BY <2>3, FramedIs
  <2> QED
    BY <1>1, <2>2, <2>4, FirstFramedStep, FlattenAppend DEF StreamUpTo
<1> QED
  BY <1>1, FirstFramedStep, FlattenType, FlattenEmpty DEF StreamUpTo

LEMMA EndStep ==
  /\ End(0) = 0
  /\ \A n \in Nat : n <= Messages => End(n) \in Nat
  /\ \A n \in Nat : n + 1 <= Messages => End(n + 1) = End(n) + MessageSize[n + 1] + 1
<1>1. ASSUME NEW n \in Nat, n + 1 <= Messages
      PROVE  End(n + 1) = End(n) + MessageSize[n + 1] + 1
  <2>1. n <= Messages /\ n + 1 \in 1 .. Messages
    BY <1>1, MessageSizes
  <2>0. MessageSize[n + 1] \in Nat /\ n + 1 \in Nat
    BY <2>1, MessageSizes
  <2>1a. StreamUpTo(n) \in Seq(Nat)
    BY <2>1, StreamStep
  <2>2. StreamUpTo(n) \in Seq(Nat) /\ Framed(n + 1, MessageSize[n + 1]) \in Seq(Nat)
        /\ Len(Framed(n + 1, MessageSize[n + 1])) = MessageSize[n + 1] + 1
    BY <2>0, <2>1a, FramedIs
  <2>3. End(n + 1) = End(n) + (MessageSize[n + 1] + 1)
    BY <1>1, <2>2, StreamStep, ConcatProperties DEF End
  <2>4. End(n) \in Nat
    BY <2>2, LenProperties DEF End
  <2> QED
    BY <2>1, <2>3, <2>4, MessageSizes
<1>2. ASSUME NEW n \in Nat, n <= Messages  PROVE End(n) \in Nat
  BY <1>2, StreamStep, LenProperties DEF End
<1> QED
  BY <1>1, <1>2, StreamStep, EmptySeq DEF End

LEMMA EndGrows ==
  \A k \in Nat, n \in Nat : n + k <= Messages => End(n) + k <= End(n + k)
<1> DEFINE S == {k \in Nat : \A n \in Nat : n + k <= Messages => End(n) + k <= End(n + k)}
<1>1. 0 \in S
  BY EndStep, MessageSizes
<1>2. ASSUME NEW k \in Nat, k \in S  PROVE k + 1 \in S
  <2> SUFFICES ASSUME NEW n \in Nat, n + (k + 1) <= Messages
               PROVE  End(n) + (k + 1) <= End(n + (k + 1))
    OBVIOUS
  <2>1. n + k \in Nat /\ n + k <= Messages /\ (n + k) + 1 <= Messages /\ (n + k) + 1 \in 1 .. Messages
        /\ n <= Messages /\ n + (k + 1) = (n + k) + 1
    BY MessageSizes
  <2>2. End(n) + k <= End(n + k)
    BY <1>2, <2>1
  <2>3. End((n + k) + 1) = End(n + k) + MessageSize[(n + k) + 1] + 1 /\ MessageSize[(n + k) + 1] \in Nat
        /\ End(n) \in Nat /\ End(n + k) \in Nat
    BY <2>1, EndStep, MessageSizes
  <2>4. End(n) + (k + 1) <= End((n + k) + 1)
    BY <2>2, <2>3
  <2> QED
    BY <2>1, <2>4
<1>3. \A k \in Nat : k \in S
  <2> HIDE DEF S
  <2> QED
    BY <1>1, <1>2, Induction
<1> QED
  BY <1>3

LEMMA EndMonotone ==
  ASSUME NEW n \in 0 .. Messages, NEW k \in 0 .. Messages
  PROVE  /\ End(n) \in Nat /\ (n <= k => End(n) <= End(k)) /\ (n < k => End(n) < End(k))
<1>1. End(n) \in Nat /\ End(k) \in Nat
  BY EndStep, MessageSizes
<1>2. CASE n <= k
  <2>1. n \in Nat /\ k - n \in Nat /\ n + (k - n) = k /\ n + (k - n) <= Messages
    BY <1>2, MessageSizes
  <2>2. End(n) + (k - n) <= End(n + (k - n))
    BY <2>1, EndGrows
  <2> QED
    BY <1>1, <2>1, <2>2
<1>3. CASE ~(n <= k)
  BY <1>1, <1>3, MessageSizes
<1> QED
  BY <1>2, <1>3

\* A byte of the stream is where the messages before it have put it.
LEMMA StreamKeeps ==
  \A k \in Nat, n \in Nat : n + k <= Messages =>
    \A j \in 1 .. End(n) : StreamUpTo(n + k)[j] = StreamUpTo(n)[j]
<1> DEFINE S == {k \in Nat : \A n \in Nat : n + k <= Messages =>
                   \A j \in 1 .. End(n) : StreamUpTo(n + k)[j] = StreamUpTo(n)[j]}
<1>1. 0 \in S
  OBVIOUS
<1>2. ASSUME NEW k \in Nat, k \in S  PROVE k + 1 \in S
  <2> SUFFICES ASSUME NEW n \in Nat, n + (k + 1) <= Messages, NEW j \in 1 .. End(n)
               PROVE  StreamUpTo(n + (k + 1))[j] = StreamUpTo(n)[j]
    OBVIOUS
  <2>1. n + k \in Nat /\ n + k <= Messages /\ (n + k) + 1 <= Messages /\ (n + k) + 1 \in 1 .. Messages
        /\ n \in 0 .. Messages /\ n + k \in 0 .. Messages /\ n <= n + k
        /\ n + (k + 1) = (n + k) + 1 /\ (n + k) + 1 \in Nat
    BY MessageSizes
  <2> DEFINE m == n + k
             x == Framed(m + 1, MessageSize[m + 1])
  <2>2. StreamUpTo(m) \in Seq(Nat) /\ StreamUpTo(m + 1) = StreamUpTo(m) \o x
    BY <2>1, StreamStep
  <2>3. x \in Seq(Nat)
    <3>1. MessageSize[m + 1] \in Nat
      BY <2>1, MessageSizes
    <3> QED
      BY <2>1, <3>1, FramedIs
  <2>4. End(n) \in Nat /\ End(n) <= End(m) /\ End(m) \in Nat
    BY <2>1, EndMonotone
  <2>5. j \in 1 .. Len(StreamUpTo(m)) /\ Len(x) \in Nat /\ Len(StreamUpTo(m)) \in Nat
    BY <2>3, <2>4, LenProperties DEF End
  <2>5a. j \in 1 .. Len(StreamUpTo(m)) + Len(x) /\ j <= Len(StreamUpTo(m))
    <3> HIDE DEF x
    <3> QED
      BY <2>5
  <2>6. StreamUpTo(m + 1)[j] = StreamUpTo(m)[j]
    <3> HIDE DEF x, m
    <3> QED
      BY <2>2, <2>3, <2>5a, ConcatProperties
  <2> QED
    BY <1>2, <2>1, <2>6
<1>3. \A k \in Nat : k \in S
  <2> HIDE DEF S
  <2> QED
    BY <1>1, <1>2, Induction
<1> QED
  BY <1>3

LEMMA StreamLayout ==
  /\ Stream \in Seq(Nat) /\ Len(Stream) = End(Messages)
  /\ \A n \in Nat : n + 1 <= Messages =>
       \A j \in 1 .. MessageSize[n + 1] + 1 :
         Stream[End(n) + j] = IF j <= MessageSize[n + 1] THEN n + 1 ELSE NUL
<1>1. Stream \in Seq(Nat) /\ Len(Stream) = End(Messages)
  BY StreamIs, StreamStep, MessageSizes DEF End
<1>2. ASSUME NEW n \in Nat, n + 1 <= Messages, NEW j \in 1 .. MessageSize[n + 1] + 1
      PROVE  Stream[End(n) + j] = IF j <= MessageSize[n + 1] THEN n + 1 ELSE NUL
  <2> DEFINE x == Framed(n + 1, MessageSize[n + 1])
             e == End(n)
             size == MessageSize[n + 1]
  <2>1. /\ n + 1 \in 1 .. Messages /\ n <= Messages /\ n + 1 \in Nat /\ Messages - (n + 1) \in Nat
        /\ (n + 1) + (Messages - (n + 1)) = Messages /\ (n + 1) + (Messages - (n + 1)) <= Messages
    BY <1>2, MessageSizes
  <2>2. size \in Nat /\ e \in Nat /\ End(n + 1) = e + size + 1
    BY <1>2, <2>1, EndStep, MessageSizes
  <2>3. x \in Seq(Nat) /\ Len(x) = size + 1 /\ x[j] = IF j <= size THEN n + 1 ELSE NUL
    <3> HIDE DEF e
    <3>1. \A s \in Nat : /\ Framed(n + 1, s) \in Seq(Nat) /\ Len(Framed(n + 1, s)) = s + 1
                         /\ \A i \in 1 .. s + 1 : Framed(n + 1, s)[i] = IF i <= s THEN n + 1 ELSE NUL
      BY <2>1, FramedIs
    <3> QED
      BY <2>2, <3>1
  <2>4. StreamUpTo(n) \in Seq(Nat) /\ StreamUpTo(n + 1) = StreamUpTo(n) \o x
    BY <1>2, <2>1, StreamStep
  <2>5. Len(StreamUpTo(n)) = e
    BY DEF End
  <2> HIDE DEF x, e, size
  <2>6. j \in 1 .. size + 1
    BY <1>2 DEF size
  <2>7. StreamUpTo(n + 1)[e + j] = x[j]
    <3>1. e + j \in 1 .. Len(StreamUpTo(n)) + Len(x) /\ ~(e + j <= Len(StreamUpTo(n)))
          /\ (e + j) - Len(StreamUpTo(n)) = j
      BY <2>2, <2>3, <2>5, <2>6
    <3> QED
      BY <2>3, <2>4, <3>1, ConcatProperties
  <2>8. e + j \in 1 .. End(n + 1)
    BY <2>2, <2>6
  <2>9. Stream[e + j] = StreamUpTo(n + 1)[e + j]
    BY <2>1, <2>8, StreamIs, StreamKeeps
  <2> QED
    BY <2>3, <2>7, <2>9 DEF e, size
<1> QED
  BY <1>1, <1>2

-----------------------------------------------------------------------------
(* How many messages end in the first b bytes. *)

Ended(b, n) == n \in 0 .. Messages /\ End(n) <= b /\ (n < Messages => b < End(n + 1))
Closed(b) == CHOOSE n \in 0 .. Messages : Ended(b, n)

LEMMA ClosedIs ==
  ASSUME NEW b \in 0 .. Len(Stream)
  PROVE  Ended(b, Closed(b))
<1> DEFINE T == {n \in 0 .. Messages : n = Messages \/ b < End(n + 1)}
<1>1. PICK m \in T : \A k \in T : m <= k
  <2>1. T \subseteq Nat /\ Messages \in T
    BY MessageSizes
  <2> HIDE DEF T
  <2> QED
    BY <2>1, LeastElement
<1>2. m \in 0 .. Messages /\ m \in Nat /\ (m < Messages => b < End(m + 1))
  BY MessageSizes
<1>3. End(m) <= b
  <2>1. CASE m = 0
    BY <2>1, EndStep, StreamLayout, LenProperties
  <2>2. CASE m # 0
    <3>1. m - 1 \in 0 .. Messages /\ (m - 1) + 1 = m /\ m - 1 # Messages /\ m - 1 < m /\ ~(m <= m - 1)
      BY <1>2, <2>2, MessageSizes
    <3>2. m - 1 \notin T
      BY <1>1, <3>1
    <3>3. ~(b < End(m))
      BY <3>1, <3>2
    <3>4. End(m) \in Nat /\ b \in Nat
      BY <1>2, EndMonotone, StreamLayout, LenProperties
    <3> QED
      BY <3>3, <3>4
  <2> QED
    BY <2>1, <2>2
<1>4. Ended(b, m)
  BY <1>2, <1>3 DEF Ended
<1> QED
  BY <1>4 DEF Closed

LEMMA ClosedUnique ==
  ASSUME NEW b \in 0 .. Len(Stream), NEW n, Ended(b, n)
  PROVE  Closed(b) = n
<1> DEFINE c == Closed(b)
<1>1. Ended(b, c)
  BY ClosedIs
<1> HIDE DEF c
<1>2. b \in Nat /\ n \in 0 .. Messages /\ c \in 0 .. Messages /\ Messages \in Nat
  BY <1>1, MessageSizes, StreamLayout, LenProperties DEF Ended
<1>3. ASSUME NEW x \in 0 .. Messages, NEW y \in 0 .. Messages, Ended(b, x), Ended(b, y)
      PROVE  ~(x < y)
  <2> SUFFICES ASSUME x < y PROVE FALSE
    OBVIOUS
  <2>1. x + 1 \in 0 .. Messages /\ x < Messages /\ x + 1 <= y
    BY <1>2
  <2>2. End(x + 1) <= End(y) /\ End(y) \in Nat /\ End(x + 1) \in Nat
    BY <2>1, EndMonotone
  <2>3. End(y) <= b /\ b < End(x + 1)
    BY <1>3, <2>1 DEF Ended
  <2> QED
    BY <1>2, <2>2, <2>3
<1>4. ~(c < n) /\ ~(n < c)
  BY <1>1, <1>2, <1>3
<1> QED
  BY <1>2, <1>4 DEF c

LEMMA ClosedEnd ==
  ASSUME NEW n \in 0 .. Messages
  PROVE  End(n) \in 0 .. Len(Stream) /\ Closed(End(n)) = n
<1>1. End(n) \in 0 .. Len(Stream)
  <2>1. Messages \in 0 .. Messages /\ n <= Messages
    BY MessageSizes
  <2>2. End(n) <= End(Messages) /\ End(n) \in Nat /\ End(Messages) \in Nat
    BY <2>1, EndMonotone
  <2> QED
    BY <2>2, StreamLayout
<1>2. Ended(End(n), n)
  <2>1. n < Messages => n + 1 \in 0 .. Messages /\ n < n + 1
    BY MessageSizes
  <2>2. n < Messages => End(n) < End(n + 1)
    BY <2>1, EndMonotone
  <2>3. End(n) <= End(n)
    BY EndMonotone
  <2> QED
    BY <2>2, <2>3 DEF Ended
<1> QED
  BY <1>1, <1>2, ClosedUnique

\* The next byte: another one of the same message, or its NUL.
LEMMA ClosedStep ==
  ASSUME NEW b \in Nat, b + 1 <= Len(Stream)
  PROVE  /\ Closed(b) \in Nat /\ Closed(b) + 1 <= Messages
         /\ End(Closed(b)) <= b /\ b < End(Closed(b) + 1)
         /\ Stream[b + 1] = IF b + 1 = End(Closed(b) + 1) THEN NUL ELSE Closed(b) + 1
         /\ Closed(b + 1) = IF b + 1 = End(Closed(b) + 1) THEN Closed(b) + 1 ELSE Closed(b)
<1> DEFINE c == Closed(b)
           size == MessageSize[c + 1]
<1>1. b \in 0 .. Len(Stream) /\ b + 1 \in 0 .. Len(Stream) /\ Len(Stream) = End(Messages) /\ Len(Stream) \in Nat
  BY StreamLayout, LenProperties
<1>2. Ended(b, c)
  BY <1>1, ClosedIs
<1> HIDE DEF c
<1>3. c \in Nat /\ c \in 0 .. Messages /\ c # Messages /\ c + 1 <= Messages /\ c + 1 \in 0 .. Messages
      /\ c + 1 \in 1 .. Messages /\ Messages \in Nat
  <2>1. c \in 0 .. Messages /\ End(c) <= b /\ Messages \in Nat
    BY <1>2, MessageSizes DEF Ended
  <2>2. c # Messages
    BY <1>1, <2>1
  <2> QED
    BY <2>1, <2>2
<1>4. End(c) <= b /\ b < End(c + 1) /\ End(c) \in Nat /\ End(c + 1) \in Nat
  <2>1. End(c) \in Nat /\ End(c + 1) \in Nat
    BY <1>3, EndMonotone
  <2> QED
    BY <1>2, <1>3, <2>1 DEF Ended
<1>5. size \in Nat /\ size > 0 /\ End(c + 1) = End(c) + size + 1
  BY <1>3, EndStep, MessageSizes
<1> HIDE DEF size
<1>6. (b + 1) - End(c) \in 1 .. size + 1 /\ End(c) + ((b + 1) - End(c)) = b + 1
      /\ ((b + 1) - End(c) <= size <=> b + 1 # End(c + 1))
  BY <1>4, <1>5
<1>7. Stream[b + 1] = IF b + 1 = End(c + 1) THEN NUL ELSE c + 1
  <2>1. \A j \in 1 .. size + 1 : Stream[End(c) + j] = IF j <= size THEN c + 1 ELSE NUL
    BY <1>3, StreamLayout DEF size
  <2> QED
    BY <1>6, <2>1
<1>8. CASE b + 1 = End(c + 1)
  <2>1. Closed(b + 1) = c + 1
    BY <1>3, <1>8, ClosedEnd
  <2> QED
    BY <1>3, <1>4, <1>7, <1>8, <2>1 DEF c
<1>9. CASE b + 1 # End(c + 1)
  <2>1. Ended(b + 1, c)
    BY <1>3, <1>4, <1>9 DEF Ended
  <2>2. Closed(b + 1) = c
    BY <1>1, <2>1, ClosedUnique
  <2> QED
    BY <1>3, <1>4, <1>7, <1>9, <2>2 DEF c
<1> QED
  BY <1>8, <1>9

-----------------------------------------------------------------------------
(* The strings of a part of the stream: bytes a + 1 to b. *)

Part(a, b) == SubSeq(Stream, a + 1, b)
From(a, n) == IF End(n) < a THEN a ELSE End(n)
StringAt(a, k) == Part(From(a, Closed(a) + k - 1), End(Closed(a) + k) - 1)

LEMMA PartStep ==
  ASSUME NEW a \in Nat, NEW b \in Nat, a <= b, b <= Len(Stream)
  PROVE  /\ Part(a, b) \in Seq(Nat) /\ Len(Part(a, b)) = b - a
         /\ \A i \in 1 .. b - a : Part(a, b)[i] = Stream[a + i]
         /\ Part(a, a) = <<>>
         /\ b < Len(Stream) => Part(a, b + 1) = Append(Part(a, b), Stream[b + 1])
<1>1. Stream \in Seq(Nat) /\ Len(Stream) \in Nat
  BY StreamLayout, LenProperties
<1>2. \A i \in 1 .. Len(Stream) : Stream[i] \in Nat
  BY <1>1, ElementOfSeq
<1>3. ASSUME NEW c \in Nat, a <= c, c <= Len(Stream)
      PROVE  /\ Part(a, c) \in Seq(Nat) /\ Len(Part(a, c)) = c - a
             /\ \A i \in 1 .. c - a : Part(a, c)[i] = Stream[a + i]
  <2>1. \A i \in a + 1 .. c : Stream[i] \in Nat
    BY <1>1, <1>2, <1>3
  <2>2. /\ Part(a, c) \in Seq(Nat)
        /\ Len(Part(a, c)) = IF a + 1 <= c THEN c - (a + 1) + 1 ELSE 0
        /\ \A i \in 1 .. c - (a + 1) + 1 : Part(a, c)[i] = Stream[(a + 1) + i - 1]
    <3>1. \A m \in Int, n \in Int : (\A i \in m .. n : Stream[i] \in Nat) =>
            /\ SubSeq(Stream, m, n) \in Seq(Nat)
            /\ Len(SubSeq(Stream, m, n)) = IF m <= n THEN n - m + 1 ELSE 0
            /\ \A i \in 1 .. n - m + 1 : SubSeq(Stream, m, n)[i] = Stream[m + i - 1]
      BY SubSeqProperties
    <3>2. a + 1 \in Int /\ c \in Int
      OBVIOUS
    <3> QED
      BY <2>1, <3>1, <3>2 DEF Part
  <2>3. c - (a + 1) + 1 = c - a /\ \A i \in 1 .. c - a : (a + 1) + i - 1 = a + i
    OBVIOUS
  <2>4. a + 1 <= c \/ c = a
    BY <1>3
  <2> QED
    BY <2>2, <2>3, <2>4
<1>4. Part(a, a) = <<>>
  BY <1>1, SubSeqEmpty DEF Part
<1>5. ASSUME b < Len(Stream)  PROVE Part(a, b + 1) = Append(Part(a, b), Stream[b + 1])
  <2> DEFINE s == Part(a, b)
             t == Part(a, b + 1)
             x == Stream[b + 1]
             u == Append(s, x)
  <2>1. s \in Seq(Nat) /\ Len(s) = b - a /\ \A i \in 1 .. b - a : s[i] = Stream[a + i]
    BY <1>3
  <2>2. t \in Seq(Nat) /\ Len(t) = (b + 1) - a /\ \A i \in 1 .. (b + 1) - a : t[i] = Stream[a + i]
    <3>1. b + 1 \in Nat /\ a <= b + 1 /\ b + 1 <= Len(Stream)
      BY <1>1, <1>5
    <3> QED
      BY <1>3, <3>1
  <2>3. x \in Nat
    <3>1. b + 1 \in 1 .. Len(Stream)
      BY <1>1, <1>5
    <3> QED
      BY <1>2, <3>1
  <2>4. t[(b - a) + 1] = x
    <3>1. (b - a) + 1 \in 1 .. (b + 1) - a /\ a + ((b - a) + 1) = b + 1
      OBVIOUS
    <3> QED
      BY <2>2, <3>1
  <2> HIDE DEF s, t, x
  <2>5. u \in Seq(Nat) /\ Len(u) = (b - a) + 1 /\ u[(b - a) + 1] = x
        /\ \A i \in 1 .. b - a : u[i] = s[i]
    BY <2>1, <2>3, AppendProperties
  <2> HIDE DEF u
  <2>6. \A i \in 1 .. Len(t) : t[i] = u[i]
    <3> SUFFICES ASSUME NEW i \in 1 .. Len(t) PROVE t[i] = u[i]
      OBVIOUS
    <3>1. i \in 1 .. b - a \/ i = (b - a) + 1
      BY <2>2
    <3> QED
      BY <2>1, <2>2, <2>4, <2>5, <3>1
  <2>6a. Len(t) = Len(u)
    BY <2>2, <2>5
  <2>7. t = u
    BY <2>2, <2>5, <2>6, <2>6a, SeqEqual
  <2> QED
    BY <2>7 DEF s, t, x, u
<1> QED
  BY <1>3, <1>4, <1>5

(* Every string is the part of one message: the first begins where the part does,
   the others where their message does. *)
LEMMA StringsOfPart ==
  ASSUME NEW a \in Nat, NEW b \in Nat, a <= b, b <= Len(Stream), NEW withEmpty,
         withEmpty \/ End(Closed(a)) = a
  PROVE  LET s == Strings(Part(a, b), withEmpty)
         IN  /\ Closed(a) <= Closed(b) /\ s \in Seq(Seq(Nat)) /\ Len(s) = Closed(b) - Closed(a)
             /\ \A k \in 1 .. Len(s) : s[k] = StringAt(a, k)
             /\ RestOf(Part(a, b), withEmpty) = Part(From(a, Closed(b)), b)
<1> DEFINE c == Closed(a)
           Str(d) == Strings(Part(a, d), withEmpty)
           Rest(d) == RestOf(Part(a, d), withEmpty)
           Good(d) == /\ c <= Closed(d) /\ Str(d) \in Seq(Seq(Nat)) /\ Len(Str(d)) = Closed(d) - c
                      /\ \A k \in 1 .. Closed(d) - c : Str(d)[k] = StringAt(a, k)
                      /\ Rest(d) = Part(From(a, Closed(d)), d)
           S == {n \in Nat : a + n <= Len(Stream) => Good(a + n)}
<1>1. c \in Nat /\ End(c) <= a /\ End(c) \in Nat /\ Len(Stream) \in Nat
  <2>1. a \in 0 .. Len(Stream) /\ Len(Stream) \in Nat
    BY StreamLayout, LenProperties
  <2>2. Ended(a, c)
    BY <2>1, ClosedIs
  <2> QED
    BY <2>1, <2>2, EndMonotone DEF Ended
<1> HIDE DEF c
<1>2. 0 \in S
  <2>0. a <= Len(Stream) /\ a + 0 = a
    BY <1>1
  <2>1. Part(a, a) = <<>>
    BY PartStep
  <2>2. Str(a) = <<>> /\ Rest(a) = <<>>
    BY <2>1, StringsEmpty
  <2>3. <<>> \in Seq(Seq(Nat)) /\ Len(<<>>) = 0
    BY EmptySeq
  <2>4. From(a, c) = a
    BY <1>1 DEF From
  <2>5. c <= c /\ c - c = 0 /\ c = Closed(a)
    BY <1>1 DEF c
  <2> HIDE DEF Str, Rest
  <2>6. Good(a)
    BY <2>1, <2>2, <2>3, <2>4, <2>5
  <2> QED
    BY <2>0, <2>6
<1>3. ASSUME NEW n \in Nat, n \in S  PROVE n + 1 \in S
  <2> SUFFICES ASSUME a + (n + 1) <= Len(Stream) PROVE Good(a + (n + 1))
    OBVIOUS
  <2> DEFINE d == a + n
             e == Closed(d)
             byte == Stream[d + 1]
  <2>1. d \in Nat /\ a <= d /\ d + 1 <= Len(Stream) /\ d < Len(Stream) /\ d <= Len(Stream)
        /\ a + (n + 1) = d + 1
    BY <1>1
  <2>2. Good(d)
    BY <1>1, <1>3
  <2> HIDE DEF d
  <2>3. /\ e \in Nat /\ e + 1 <= Messages /\ End(e) <= d /\ d < End(e + 1)
        /\ byte = IF d + 1 = End(e + 1) THEN NUL ELSE e + 1
        /\ Closed(d + 1) = IF d + 1 = End(e + 1) THEN e + 1 ELSE e
    BY <2>1, ClosedStep
  <2>4. Part(a, d) \in Seq(Nat) /\ Part(a, d + 1) = Append(Part(a, d), byte)
    BY <2>1, PartStep
  <2>5. byte \in Nat
    BY <2>3 DEF NUL
  <2> HIDE DEF e, byte
  <2>6. /\ Str(d) \in Seq(Seq(Nat)) /\ Rest(d) \in Seq(Nat)
        /\ byte # NUL => Str(d + 1) = Str(d) /\ Rest(d + 1) = Append(Rest(d), byte)
        /\ byte = NUL => /\ Str(d + 1) = IF Rest(d) = <<>> /\ ~withEmpty THEN Str(d)
                                         ELSE Append(Str(d), Rest(d))
                         /\ Rest(d + 1) = <<>>
    <3> DEFINE p == Part(a, d)
    <3>1. p \in Seq(Nat) /\ Part(a, d + 1) = Append(p, byte)
      BY <2>4
    <3> HIDE DEF p
    <3>2. /\ Strings(p, withEmpty) \in Seq(Seq(Nat)) /\ RestOf(p, withEmpty) \in Seq(Nat)
          /\ byte # NUL => /\ Strings(Append(p, byte), withEmpty) = Strings(p, withEmpty)
                           /\ RestOf(Append(p, byte), withEmpty) = Append(RestOf(p, withEmpty), byte)
          /\ byte = NUL => /\ Strings(Append(p, byte), withEmpty) =
                                 IF RestOf(p, withEmpty) = <<>> /\ ~withEmpty
                                 THEN Strings(p, withEmpty)
                                 ELSE Append(Strings(p, withEmpty), RestOf(p, withEmpty))
                           /\ RestOf(Append(p, byte), withEmpty) = <<>>
      BY <2>5, <3>1, StringsAppend, SMTT(30)
    <3>3. /\ Str(d) = Strings(p, withEmpty) /\ Rest(d) = RestOf(p, withEmpty)
          /\ Str(d + 1) = Strings(Append(p, byte), withEmpty)
          /\ Rest(d + 1) = RestOf(Append(p, byte), withEmpty)
      BY <3>1 DEF p
    <3> HIDE DEF Str, Rest
    <3> QED
      BY <3>2, <3>3
  <2>7. /\ c <= e /\ Len(Str(d)) = e - c /\ Rest(d) = Part(From(a, e), d)
        /\ \A k \in 1 .. e - c : Str(d)[k] = StringAt(a, k)
    BY <2>2 DEF e
  <2>8. From(a, e) \in Nat /\ From(a, e) <= d
    <3>1. End(e) \in Nat
      BY <2>3, EndStep, MessageSizes
    <3> QED
      BY <2>1, <2>3, <3>1 DEF From
  <2>9. CASE d + 1 # End(e + 1)
    <3>1. byte # NUL /\ Closed(d + 1) = e
      BY <2>3, <2>9 DEF NUL
    <3>2. Part(From(a, e), d + 1) = Append(Part(From(a, e), d), byte)
      BY <2>1, <2>8, PartStep DEF byte
    <3> HIDE DEF Str, Rest
    <3>3. Good(d + 1)
      BY <2>6, <2>7, <3>1, <3>2
    <3> QED
      BY <2>1, <3>3
  <2>10. CASE d + 1 = End(e + 1)
    <3>1. byte = NUL /\ Closed(d + 1) = e + 1
      BY <2>3, <2>10
    <3>2. Rest(d) # <<>> \/ withEmpty
      <4> SUFFICES ASSUME ~withEmpty PROVE Rest(d) # <<>>
        OBVIOUS
      <4>1. End(c) = a
        BY DEF c
      <4>2. End(c) <= End(e) /\ End(e) \in Nat /\ End(e + 1) = End(e) + MessageSize[e + 1] + 1
            /\ MessageSize[e + 1] \in Nat /\ MessageSize[e + 1] > 0
        <5>1. e \in 0 .. Messages /\ c \in 0 .. Messages /\ e + 1 \in 1 .. Messages
          BY <1>1, <2>3, <2>7, MessageSizes
        <5> QED
          BY <2>3, <2>7, <5>1, EndMonotone, EndStep, MessageSizes
      <4>3. From(a, e) = End(e)
        BY <4>1, <4>2 DEF From
      <4>4. d - From(a, e) > 0
        BY <2>1, <2>10, <4>2, <4>3
      <4>5. Len(Rest(d)) = d - From(a, e)
        BY <2>1, <2>7, <2>8, PartStep
      <4> QED
        BY <4>4, <4>5, EmptySeq
    <3>3. Str(d + 1) = Append(Str(d), Rest(d)) /\ Rest(d + 1) = <<>>
      BY <2>6, <3>1, <3>2
    <3>4. Str(d + 1) \in Seq(Seq(Nat)) /\ Len(Str(d + 1)) = (e - c) + 1
          /\ Str(d + 1)[(e - c) + 1] = Rest(d) /\ \A k \in 1 .. e - c : Str(d + 1)[k] = Str(d)[k]
      <4> DEFINE s == Str(d)
                 r == Rest(d)
      <4>1. s \in Seq(Seq(Nat)) /\ r \in Seq(Nat) /\ Len(s) = e - c /\ Str(d + 1) = Append(s, r)
        BY <2>6, <2>7, <3>3
      <4> HIDE DEF s, r
      <4>2. /\ Append(s, r) \in Seq(Seq(Nat)) /\ Len(Append(s, r)) = Len(s) + 1
            /\ Append(s, r)[Len(s) + 1] = r /\ \A k \in 1 .. Len(s) : Append(s, r)[k] = s[k]
        BY <4>1, AppendProperties
      <4>3. /\ Append(s, r) \in Seq(Seq(Nat)) /\ Len(Append(s, r)) = (e - c) + 1
            /\ Append(s, r)[(e - c) + 1] = r /\ \A k \in 1 .. e - c : Append(s, r)[k] = s[k]
        BY <4>1, <4>2
      <4> QED
        BY <4>1, <4>3 DEF s, r
    <3>5. c + ((e - c) + 1) - 1 = e /\ c + ((e - c) + 1) = e + 1 /\ End(e + 1) - 1 = d
      BY <1>1, <2>1, <2>3, <2>10
    <3>6. Rest(d) = StringAt(a, (e - c) + 1)
      <4>1. StringAt(a, (e - c) + 1) = Part(From(a, e), d)
        BY <3>5 DEF StringAt, c
      <4> QED
        BY <2>7, <4>1
    <3>7. \A k \in 1 .. (e + 1) - c : Str(d + 1)[k] = StringAt(a, k)
      <4> SUFFICES ASSUME NEW k \in 1 .. (e + 1) - c PROVE Str(d + 1)[k] = StringAt(a, k)
        OBVIOUS
      <4> HIDE DEF Str, Rest
      <4>1. k \in 1 .. e - c \/ k = (e - c) + 1
        BY <1>1, <2>3
      <4> QED
        BY <2>7, <3>4, <3>6, <4>1
    <3>8. From(a, e + 1) = d + 1
      BY <2>1, <2>10 DEF From
    <3>9. Part(d + 1, d + 1) = <<>>
      BY <2>1, PartStep
    <3>10. c <= e + 1 /\ (e - c) + 1 = (e + 1) - c
      BY <1>1, <2>3, <2>7
    <3> HIDE DEF Str, Rest
    <3>11. Good(d + 1)
      BY <3>1, <3>3, <3>4, <3>7, <3>8, <3>9, <3>10
    <3> QED
      BY <2>1, <3>11
  <2> QED
    BY <2>9, <2>10
<1>4. b - a \in S
  <2>1. b - a \in Nat
    OBVIOUS
  <2> HIDE DEF S
  <2> QED
    BY <1>2, <1>3, <2>1, Induction
<1>5. Good(b)
  <2>1. a + (b - a) = b /\ b - a \in Nat
    OBVIOUS
  <2> HIDE DEF Good
  <2> QED
    BY <1>4, <2>1
<1> QED
  BY <1>5 DEF c

-----------------------------------------------------------------------------
(* The strings as pieces of messages. *)

Piece(s, m) ==
  /\ m \in 1 .. Messages
  /\ s \in Seq(Nat) /\ Len(s) <= MessageSize[m]
  /\ \A j \in 1 .. Len(s) : s[j] = m

LEMMA PayloadIs ==
  ASSUME NEW m \in 1 .. Messages
  PROVE  /\ Payload(m) \in Seq(Nat) /\ Len(Payload(m)) = MessageSize[m]
         /\ \A j \in 1 .. MessageSize[m] : Payload(m)[j] = m
<1>1. MessageSize[m] \in Nat /\ m \in Nat
  BY MessageSizes
<1>2. Payload(m) \in [1 .. MessageSize[m] -> Nat]
  BY <1>1 DEF Payload
<1> QED
  BY <1>1, <1>2 DEF Payload

LEMMA ReverseIs ==
  ASSUME NEW s \in Seq(Nat)
  PROVE  /\ Reverse(s) \in Seq(Nat) /\ Len(Reverse(s)) = Len(s)
         /\ \A i \in 1 .. Len(s) : Reverse(s)[i] = s[Len(s) - i + 1]
<1>1. Len(s) \in Nat /\ \A i \in 1 .. Len(s) : s[i] \in Nat
  BY LenProperties, ElementOfSeq
<1>2. \A i \in 1 .. Len(s) : Len(s) - i + 1 \in 1 .. Len(s)
  BY <1>1
<1>3. Reverse(s) \in [1 .. Len(s) -> Nat]
  BY <1>1, <1>2 DEF Reverse
<1> QED
  BY <1>1, <1>3 DEF Reverse

\* Of two pieces of one message the shorter is a suffix of the longer.
LEMMA PieceOfPiece ==
  ASSUME NEW s, NEW t, NEW m, Piece(s, m), Piece(t, m), Len(s) <= Len(t)
  PROVE  IsSuffix(s, t)
<1> DEFINE r == Reverse(s)
           p == Reverse(t)
           n == Len(s)
           size == Len(t)
<1>1. /\ s \in Seq(Nat) /\ n \in Nat /\ t \in Seq(Nat) /\ size \in Nat /\ n <= size
      /\ (\A i \in 1 .. n : s[i] = m) /\ \A i \in 1 .. size : t[i] = m
  BY LenProperties DEF Piece
<1>2. /\ r \in Seq(Nat) /\ Len(r) = n /\ \A i \in 1 .. n : r[i] = m
  <2>1. \A i \in 1 .. n : n - i + 1 \in 1 .. n
    BY <1>1
  <2> QED
    BY <1>1, <2>1, ReverseIs
<1>3. /\ p \in Seq(Nat) /\ Len(p) = size /\ \A i \in 1 .. size : p[i] = m
  <2>1. \A i \in 1 .. size : size - i + 1 \in 1 .. size
    BY <1>1
  <2> QED
    BY <1>1, <2>1, ReverseIs
<1> HIDE DEF r, p, n, size
<1>4. SubSeq(r, 1, n) = SubSeq(p, 1, n)
  <2>1. \A q \in Seq(Nat) : n <= Len(q) /\ (\A i \in 1 .. n : q[i] = m) =>
          /\ SubSeq(q, 1, n) \in Seq(Nat) /\ Len(SubSeq(q, 1, n)) = n
          /\ \A i \in 1 .. n : SubSeq(q, 1, n)[i] = m
    <3> SUFFICES ASSUME NEW q \in Seq(Nat), n <= Len(q), \A i \in 1 .. n : q[i] = m
                 PROVE  /\ SubSeq(q, 1, n) \in Seq(Nat) /\ Len(SubSeq(q, 1, n)) = n
                        /\ \A i \in 1 .. n : SubSeq(q, 1, n)[i] = m
      OBVIOUS
    <3> QED
      BY <1>1
  <2>2. n <= Len(r) /\ n <= Len(p) /\ \A i \in 1 .. n : r[i] = m /\ p[i] = m
    BY <1>1, <1>2, <1>3
  <2>3. /\ SubSeq(r, 1, n) \in Seq(Nat) /\ SubSeq(p, 1, n) \in Seq(Nat)
        /\ Len(SubSeq(r, 1, n)) = Len(SubSeq(p, 1, n))
        /\ \A i \in 1 .. Len(SubSeq(r, 1, n)) : SubSeq(r, 1, n)[i] = SubSeq(p, 1, n)[i]
    BY <1>2, <1>3, <2>1, <2>2
  <2> QED
    BY <2>3, SeqEqual
<1>5. IsPrefix(r, p)
  BY <1>1, <1>2, <1>3, <1>4 DEF IsPrefix
<1> QED
  BY <1>5 DEF IsSuffix, r, p

LEMMA PayloadIsPiece ==
  ASSUME NEW m \in 1 .. Messages
  PROVE  /\ Piece(Payload(m), m) /\ Len(Payload(m)) = MessageSize[m]
         /\ \A s : Piece(s, m) /\ Len(s) = MessageSize[m] => s = Payload(m)
<1>1. /\ Payload(m) \in Seq(Nat) /\ Len(Payload(m)) = MessageSize[m]
      /\ \A j \in 1 .. MessageSize[m] : Payload(m)[j] = m
  BY PayloadIs
<1>2. MessageSize[m] \in Nat
  BY MessageSizes
<1>3. ASSUME NEW s, Piece(s, m), Len(s) = MessageSize[m]  PROVE s = Payload(m)
  <2>1. s \in Seq(Nat) /\ \A j \in 1 .. MessageSize[m] : s[j] = m
    BY <1>3 DEF Piece
  <2> QED
    BY <1>1, <1>3, <2>1, SeqEqual
<1> QED
  BY <1>1, <1>2, <1>3 DEF Piece

LEMMA PieceIsSuffix ==
  ASSUME NEW s, NEW m, Piece(s, m)
  PROVE  m \in DOMAIN MessageSize /\ IsSuffix(s, Payload(m))
<1>1. m \in 1 .. Messages /\ Len(s) <= MessageSize[m]
  BY DEF Piece
<1> QED
  BY <1>1, PayloadIsPiece, PieceOfPiece, MessageSizes

LEMMA SplitOfPart ==
  ASSUME NEW a \in Nat, NEW b \in Nat, a <= b, b <= Len(Stream)
  PROVE  LET s == Split(Part(a, b))
         IN  /\ Closed(a) <= Closed(b) /\ s \in Seq(Seq(Nat)) /\ Len(s) = Closed(b) - Closed(a)
             /\ \A k \in 1 .. Len(s) : s[k] = StringAt(a, k)
             /\ RestOf(Part(a, b), TRUE) = Part(From(a, Closed(b)), b)
<1>1. TRUE \/ End(Closed(a)) = a
  OBVIOUS
<1>2. LET s == Strings(Part(a, b), TRUE)
      IN  /\ Closed(a) <= Closed(b) /\ s \in Seq(Seq(Nat)) /\ Len(s) = Closed(b) - Closed(a)
          /\ \A k \in 1 .. Len(s) : s[k] = StringAt(a, k)
          /\ RestOf(Part(a, b), TRUE) = Part(From(a, Closed(b)), b)
  BY <1>1, StringsOfPart
<1> QED
  BY <1>2 DEF Split

LEMMA PartIsPiece ==
  ASSUME NEW c \in Nat, c + 1 <= Messages,
         NEW a \in Nat, NEW b \in Nat, End(c) <= a, a <= b, b < End(c + 1)
  PROVE  Piece(Part(a, b), c + 1) /\ Len(Part(a, b)) = b - a
<1> DEFINE size == MessageSize[c + 1]
<1>1. c \in 0 .. Messages /\ c + 1 \in 0 .. Messages /\ c + 1 \in 1 .. Messages
      /\ Messages \in 0 .. Messages /\ c + 1 <= Messages
  BY MessageSizes
<1>2. /\ End(c) \in Nat /\ size \in Nat /\ End(c + 1) = End(c) + size + 1
      /\ End(c + 1) <= End(Messages) /\ End(c + 1) \in Nat /\ End(Messages) \in Nat
  BY <1>1, EndStep, EndMonotone, MessageSizes
<1>3. b <= Len(Stream)
  BY <1>2, StreamLayout
<1>4. /\ Part(a, b) \in Seq(Nat) /\ Len(Part(a, b)) = b - a
      /\ \A i \in 1 .. b - a : Part(a, b)[i] = Stream[a + i]
  BY <1>3, PartStep
<1>5. \A j \in 1 .. size + 1 : Stream[End(c) + j] = IF j <= size THEN c + 1 ELSE NUL
  BY StreamLayout
<1> HIDE DEF size
<1>6. \A i \in 1 .. b - a : Part(a, b)[i] = c + 1
  <2> SUFFICES ASSUME NEW i \in 1 .. b - a PROVE Stream[a + i] = c + 1
    BY <1>4
  <2>1. (a + i) - End(c) \in 1 .. size + 1 /\ (a + i) - End(c) <= size /\ End(c) + ((a + i) - End(c)) = a + i
    BY <1>2
  <2> QED
    BY <1>5, <2>1
<1>7. b - a <= size
  BY <1>2
<1> QED
  BY <1>1, <1>4, <1>6, <1>7 DEF Piece, size

LEMMA StringIsPiece ==
  ASSUME NEW a \in Nat, NEW b \in Nat, a <= b, b <= Len(Stream),
         NEW k \in 1 .. Closed(b) - Closed(a)
  PROVE  Piece(StringAt(a, k), Closed(a) + k)
<1> DEFINE c == Closed(a) + k - 1
<1>1. Ended(a, Closed(a)) /\ Ended(b, Closed(b))
  <2>1. a \in 0 .. Len(Stream) /\ b \in 0 .. Len(Stream)
    BY StreamLayout, LenProperties
  <2> QED
    BY <2>1, ClosedIs
<1>1a. /\ Closed(a) \in 0 .. Messages /\ Closed(b) \in 0 .. Messages /\ Messages \in Nat
  BY <1>1, MessageSizes DEF Ended
<1>2. /\ c \in Nat /\ c + 1 = Closed(a) + k /\ c + 1 <= Closed(b) /\ c + 1 <= Messages
      /\ Closed(a) <= c /\ Closed(a) + 1 <= c + 1 /\ Closed(a) < Messages
      /\ Closed(a) \in Nat /\ Closed(a) + 1 \in 0 .. Messages
      /\ c \in 0 .. Messages /\ c + 1 \in 0 .. Messages
  BY <1>1a
<1> HIDE DEF c
<1>3. a < End(c + 1) /\ End(c) \in Nat /\ End(c + 1) \in Nat /\ End(c) < End(c + 1)
  <2>1. a < End(Closed(a) + 1)
    BY <1>1, <1>2 DEF Ended
  <2>2. End(Closed(a) + 1) <= End(c + 1) /\ End(Closed(a) + 1) \in Nat
    BY <1>2, EndMonotone
  <2>3. End(c) \in Nat /\ End(c + 1) \in Nat /\ End(c) < End(c + 1)
    <3>1. c < c + 1
      BY <1>2
    <3> QED
      BY <1>2, <3>1, EndMonotone
  <2> QED
    BY <2>1, <2>2, <2>3
<1>4. From(a, c) \in Nat /\ End(c) <= From(a, c) /\ From(a, c) <= End(c + 1) - 1
      /\ End(c + 1) - 1 \in Nat /\ End(c + 1) - 1 < End(c + 1)
  BY <1>3 DEF From
<1>5. Piece(Part(From(a, c), End(c + 1) - 1), c + 1)
  BY <1>2, <1>4, PartIsPiece
<1> QED
  BY <1>2, <1>5 DEF StringAt, c

(* The node port's strings: without a time-out the part begins with a message, and
   only the last string can be cut. *)
LEMMA NodeStringsOfPart ==
  ASSUME NEW a \in Nat, NEW b \in Nat, a < b, b <= Len(Stream), End(Closed(a)) = a
  PROVE  LET s == NodeStrings(Part(a, b))
         IN  /\ s \in Seq(Seq(Nat)) /\ Closed(a) <= Closed(b)
             /\ \A k \in 1 .. Len(s) : Piece(s[k], Closed(a) + k)
             /\ Len(s) <= Closed(b) + 1 - Closed(a)
             /\ Stream[b] = NUL => s = Split(Part(a, b)) /\ Len(s) = Closed(b) - Closed(a)
             /\ Stream[b] # NUL =>
                  LET r == Part(End(Closed(b)), b - 1)
                  IN  /\ s = IF r = <<>> THEN Split(Part(a, b)) ELSE Append(Split(Part(a, b)), r)
                      /\ Piece(r, Closed(b) + 1)
<1> DEFINE d == b - 1
           c == Closed(a)
           e == Closed(d)
           p == Part(a, d)
           t == Strings(p, FALSE)
           r == RestOf(p, FALSE)
           s == NodeStrings(Part(a, b))
<1>1. d \in Nat /\ a <= d /\ d <= Len(Stream) /\ d + 1 = b /\ d + 1 <= Len(Stream) /\ d < Len(Stream)
      /\ Len(Stream) \in Nat
  BY StreamLayout, LenProperties
<1> HIDE DEF d
<1>2. p \in Seq(Nat) /\ Part(a, b) = Append(p, Stream[b]) /\ Len(p) = d - a
      /\ Stream[b] \in Nat
  <2>1. p \in Seq(Nat) /\ Len(p) = d - a /\ Part(a, d + 1) = Append(p, Stream[d + 1])
    BY <1>1, PartStep
  <2>2. b \in 1 .. Len(Stream)
    BY <1>1
  <2> QED
    BY <1>1, <2>1, <2>2, StreamLayout, ElementOfSeq
<1>3. NodeStrings(Part(a, b)) = Strings(Append(p, NUL), FALSE)
  <2>1. Len(Part(a, b)) - 1 = d - a
    BY <1>1, <1>2, AppendProperties, LenProperties
  <2>2. SubSeq(Part(a, b), 1, d - a) = p
    <3> DEFINE q == SubSeq(Part(a, b), 1, d - a)
    <3>0. Part(a, b) \in Seq(Nat) /\ Len(Part(a, b)) = (d - a) + 1 /\ d - a \in Nat
      BY <1>1, <1>2, AppendProperties
    <3>1. q \in Seq(Nat) /\ Len(q) = d - a /\ \A i \in 1 .. d - a : q[i] = Part(a, b)[i]
      BY <3>0
    <3>2. \A i \in 1 .. d - a : Part(a, b)[i] = p[i]
      <4> HIDE DEF p
      <4> QED
        BY <1>2, AppendProperties
    <3> HIDE DEF q, p
    <3>3. q = p
      BY <1>2, <3>1, <3>2, SeqEqual
    <3> QED
      BY <3>3 DEF q
  <2> QED
    BY <2>1, <2>2 DEF NodeStrings
<1>4. /\ c <= e /\ t \in Seq(Seq(Nat)) /\ Len(t) = e - c
      /\ \A k \in 1 .. Len(t) : t[k] = StringAt(a, k)
      /\ r = Part(From(a, e), d)
  BY <1>1, StringsOfPart
<1>5. /\ r \in Seq(Nat)
      /\ s = IF r = <<>> THEN t ELSE Append(t, r)
  <2> HIDE DEF p, s
  <2>1. NUL \in Nat
    BY DEF NUL
  <2>2. r \in Seq(Nat) /\ Strings(Append(p, NUL), FALSE) = IF r = <<>> /\ ~FALSE THEN t ELSE Append(t, r)
    BY <1>2, <2>1, StringsAppend
  <2>3. s = Strings(Append(p, NUL), FALSE)
    BY <1>3 DEF s
  <2> QED
    BY <2>2, <2>3
<1>6. /\ c \in Nat /\ e \in Nat /\ e + 1 <= Messages /\ End(e) <= d /\ d < End(e + 1)
      /\ Stream[b] = (IF b = End(e + 1) THEN NUL ELSE e + 1)
      /\ Closed(b) = (IF b = End(e + 1) THEN e + 1 ELSE e)
      /\ End(c) <= End(e) /\ End(e) \in Nat /\ End(c) = a
      /\ End(e + 1) = End(e) + MessageSize[e + 1] + 1 /\ MessageSize[e + 1] \in Nat
      /\ MessageSize[e + 1] > 0
  <2>1. /\ e \in Nat /\ e + 1 <= Messages /\ End(e) <= d /\ d < End(e + 1)
        /\ Stream[b] = (IF b = End(e + 1) THEN NUL ELSE e + 1)
        /\ Closed(b) = (IF b = End(e + 1) THEN e + 1 ELSE e)
    BY <1>1, ClosedStep
  <2>2. a \in 0 .. Len(Stream)
    BY <1>1
  <2>3. c \in 0 .. Messages /\ Messages \in Nat
    BY <2>2, ClosedIs, MessageSizes DEF Ended
  <2>4. e \in 0 .. Messages /\ e + 1 \in 1 .. Messages
    BY <2>1, <2>3
  <2> HIDE DEF c, e
  <2>5. End(c) <= End(e) /\ End(e) \in Nat
    BY <1>4, <2>3, <2>4, EndMonotone
  <2>6. End(e + 1) = End(e) + MessageSize[e + 1] + 1 /\ MessageSize[e + 1] \in Nat /\ MessageSize[e + 1] > 0
    BY <2>1, <2>4, EndStep, MessageSizes
  <2>7. End(c) = a
    BY DEF c
  <2> QED
    BY <2>1, <2>3, <2>5, <2>6, <2>7
<1>7. From(a, e) = End(e)
  BY <1>6 DEF From
<1>8. Piece(r, e + 1) /\ Len(r) = d - End(e)
  <2>1. r = Part(End(e), d)
    BY <1>4, <1>7
  <2> HIDE DEF e, r
  <2>2. End(e) <= End(e)
    BY <1>6
  <2> QED
    BY <1>1, <1>6, <2>1, <2>2, PartIsPiece, ZenonT(60)
<1>9. \A k \in 1 .. Len(t) : Piece(t[k], c + k)
  BY <1>1, <1>4, StringIsPiece
<1> HIDE DEF t, r, s, e, c, p
<1>10. s \in Seq(Seq(Nat)) /\ (r = <<>> => Len(s) = e - c) /\ (r # <<>> => Len(s) = (e - c) + 1)
  BY <1>4, <1>5, AppendProperties
<1>11. \A k \in 1 .. Len(s) : Piece(s[k], c + k)
  <2> SUFFICES ASSUME NEW k \in 1 .. Len(s) PROVE Piece(s[k], c + k)
    OBVIOUS
  <2>1. CASE r = <<>>
    BY <1>5, <1>9, <2>1
  <2>2. CASE r # <<>>
    <3>1. k \in 1 .. e - c \/ k = (e - c) + 1
      BY <1>4, <1>6, <1>10, <2>2
    <3>2. CASE k \in 1 .. e - c
      <4>1. s[k] = t[k]
        BY <1>4, <1>5, <2>2, <3>2, AppendProperties
      <4> QED
        BY <1>4, <1>9, <3>2, <4>1
    <3>3. CASE k = (e - c) + 1
      <4>1. s[Len(t) + 1] = r
        BY <1>4, <1>5, <2>2, AppendProperties
      <4>2. c + k = e + 1 /\ Len(t) + 1 = k
        BY <1>4, <1>6, <3>3
      <4> QED
        BY <1>8, <4>1, <4>2
    <3> QED
      BY <3>1, <3>2, <3>3
  <2> QED
    BY <2>1, <2>2
<1>12. c <= Closed(b) /\ Len(s) <= Closed(b) + 1 - c
  <2>1. r # <<>> => e + 1 <= Closed(b) + 1
    BY <1>6
  <2> QED
    BY <1>4, <1>6, <1>10
<1>13. ASSUME Stream[b] = NUL  PROVE s = Split(Part(a, b)) /\ Len(s) = Closed(b) - c
  <2>1. b = End(e + 1) /\ Closed(b) = e + 1
    BY <1>6, <1>13 DEF NUL
  <2>2. Len(r) > 0
    BY <1>1, <1>6, <1>8, <2>1
  <2>3. r # <<>>
    BY <1>5, <2>2, EmptySeq
  <2>4. Len(s) = Closed(b) - c
    BY <1>4, <1>6, <1>10, <2>1, <2>3
  <2> DEFINE u == Split(Part(a, b))
  <2>5. u \in Seq(Seq(Nat)) /\ Len(u) = Closed(b) - c /\ \A k \in 1 .. Len(u) : u[k] = StringAt(a, k)
    <3>1. a <= b
      OBVIOUS
    <3> QED
      BY <3>1, SplitOfPart DEF c
  <2>6. \A k \in 1 .. Len(s) : s[k] = StringAt(a, k)
    <3> SUFFICES ASSUME NEW k \in 1 .. Len(s) PROVE s[k] = StringAt(a, k)
      OBVIOUS
    <3>1. k \in 1 .. e - c \/ k = (e - c) + 1
      BY <1>4, <1>6, <1>10, <2>3
    <3>2. CASE k \in 1 .. e - c
      <4>1. s[k] = t[k]
        BY <1>4, <1>5, <2>3, <3>2, AppendProperties
      <4> QED
        BY <1>4, <3>2, <4>1
    <3>3. CASE k = (e - c) + 1
      <4>1. s[Len(t) + 1] = r
        BY <1>4, <1>5, <2>3, AppendProperties
      <4>2. c + k = e + 1 /\ c + k - 1 = e /\ Len(t) + 1 = k /\ End(e + 1) - 1 = d
        BY <1>1, <1>4, <1>6, <2>1, <3>3
      <4>3. StringAt(a, k) = Part(From(a, e), d)
        BY <4>2 DEF StringAt, c
      <4> QED
        BY <1>4, <4>1, <4>2, <4>3
    <3> QED
      BY <3>1, <3>2, <3>3
  <2> HIDE DEF u
  <2>7. s = u
    BY <1>10, <2>4, <2>5, <2>6, SeqEqual
  <2> QED
    BY <2>4, <2>7 DEF u
<1>14. ASSUME Stream[b] # NUL
       PROVE  /\ s = IF r = <<>> THEN Split(Part(a, b)) ELSE Append(Split(Part(a, b)), r)
              /\ r = Part(End(Closed(b)), d) /\ Piece(r, Closed(b) + 1)
  <2>1. Closed(b) = e
    BY <1>6, <1>14
  <2> DEFINE u == Split(Part(a, b))
  <2>2. u \in Seq(Seq(Nat)) /\ Len(u) = e - c /\ \A k \in 1 .. Len(u) : u[k] = StringAt(a, k)
    <3>1. a <= b
      OBVIOUS
    <3> QED
      BY <2>1, <3>1, SplitOfPart DEF c
  <2> HIDE DEF u
  <2>3. t = u
    BY <1>4, <2>2, SeqEqual
  <2> QED
    BY <1>4, <1>5, <1>7, <1>8, <2>1, <2>3 DEF u
<1> QED
  BY <1>10, <1>11, <1>12, <1>13, <1>14 DEF s, c, d

-----------------------------------------------------------------------------
(* Parts of parts. *)

LEMMA PartConcat ==
  ASSUME NEW a \in Nat, NEW b \in Nat, NEW c \in Nat, a <= b, b <= c, c <= Len(Stream)
  PROVE  Part(a, b) \o Part(b, c) = Part(a, c)
<1>1. Stream \in Seq(Nat) /\ Len(Stream) \in Nat
  BY StreamLayout, LenProperties
<1>2. a + 1 \in 1 .. Len(Stream) + 1 /\ b \in (a + 1) - 1 .. Len(Stream) /\ c \in b .. Len(Stream)
  BY <1>1
<1> QED
  BY <1>1, <1>2, ConcatAdjacentSubSeq DEF Part

LEMMA PartOfPart ==
  ASSUME NEW a \in Nat, NEW b \in Nat, a <= b, b <= Len(Stream), NEW n \in 0 .. b - a
  PROVE  /\ SubSeq(Part(a, b), 1, n) = Part(a, a + n)
         /\ SubSeq(Part(a, b), n + 1, b - a) = Part(a + n, b)
<1> DEFINE p == Part(a, b)
           u == SubSeq(p, 1, n)
           v == SubSeq(p, n + 1, b - a)
           x == Part(a, a + n)
           y == Part(a + n, b)
<1>1. p \in Seq(Nat) /\ Len(p) = b - a /\ \A i \in 1 .. b - a : p[i] = Stream[a + i]
  BY PartStep
<1>2. a + n \in Nat /\ a <= a + n /\ a + n <= b /\ a + n <= Len(Stream) /\ n \in Nat
  BY StreamLayout, LenProperties
<1>3. x \in Seq(Nat) /\ Len(x) = n /\ \A i \in 1 .. n : x[i] = Stream[a + i]
  <2>1. x \in Seq(Nat) /\ Len(x) = (a + n) - a /\ \A i \in 1 .. (a + n) - a : x[i] = Stream[a + i]
    BY <1>2, PartStep
  <2>2. (a + n) - a = n
    BY <1>2
  <2> HIDE DEF x
  <2> QED
    BY <2>1, <2>2
<1>4. y \in Seq(Nat) /\ Len(y) = (b - a) - n /\ \A i \in 1 .. (b - a) - n : y[i] = Stream[(a + n) + i]
  <2>1. y \in Seq(Nat) /\ Len(y) = b - (a + n) /\ \A i \in 1 .. b - (a + n) : y[i] = Stream[(a + n) + i]
    BY <1>2, PartStep
  <2>2. b - (a + n) = (b - a) - n
    BY <1>2
  <2> HIDE DEF y
  <2> QED
    BY <2>1, <2>2
<1> HIDE DEF p, x, y
<1>5. u \in Seq(Nat) /\ Len(u) = n /\ \A i \in 1 .. n : u[i] = p[i]
  BY <1>1, <1>2
<1>6. v \in Seq(Nat) /\ Len(v) = (b - a) - n /\ \A i \in 1 .. (b - a) - n : v[i] = p[n + i]
  BY <1>1, <1>2
<1> HIDE DEF u, v
<1>7. u = x
  <2>1. \A i \in 1 .. n : i \in 1 .. b - a
    BY <1>2
  <2>2. \A i \in 1 .. n : u[i] = x[i]
    BY <1>1, <1>3, <1>5, <2>1
  <2> QED
    BY <1>3, <1>5, <2>2, SeqEqual
<1>8. v = y
  <2>1. \A i \in 1 .. Len(v) : v[i] = y[i]
    <3> SUFFICES ASSUME NEW i \in 1 .. Len(v) PROVE v[i] = y[i]
      OBVIOUS
    <3>1. i \in 1 .. (b - a) - n /\ n + i \in 1 .. b - a /\ a + (n + i) = (a + n) + i
      BY <1>2, <1>6
    <3> QED
      BY <1>1, <1>4, <1>6, <3>1
  <2> QED
    BY <1>4, <1>6, <2>1, SeqEqual
<1> QED
  BY <1>7, <1>8 DEF u, v, x, y, p

\* A part that ends with a NUL ends with a message.
LEMMA EndsWithMessage ==
  ASSUME NEW a \in Nat, NEW b \in Nat, a < b, b <= Len(Stream), Stream[b] = NUL
  PROVE  End(Closed(b)) = b /\ Closed(a) < Closed(b)
<1> DEFINE d == b - 1
<1>1. d \in Nat /\ d + 1 = b /\ a <= d /\ d <= Len(Stream)
  BY StreamLayout, LenProperties
<1> HIDE DEF d
<1>2. /\ Closed(d) \in Nat
      /\ Stream[b] = (IF b = End(Closed(d) + 1) THEN NUL ELSE Closed(d) + 1)
      /\ Closed(b) = (IF b = End(Closed(d) + 1) THEN Closed(d) + 1 ELSE Closed(d))
  BY <1>1, ClosedStep
<1>3. b = End(Closed(d) + 1) /\ Closed(b) = Closed(d) + 1
  BY <1>2 DEF NUL
<1>4. Closed(a) <= Closed(d) /\ Closed(a) \in Nat
  <2>1. a \in 0 .. Len(Stream)
    BY <1>1, StreamLayout, LenProperties
  <2>2. Ended(a, Closed(a))
    BY <2>1, ClosedIs
  <2>3. Closed(a) <= Closed(d)
    BY <1>1, SplitOfPart
  <2> QED
    BY <2>2, <2>3, MessageSizes DEF Ended
<1> QED
  BY <1>2, <1>3, <1>4

-----------------------------------------------------------------------------
(* The inductive invariant. *)

\* A call is in a place of the implementation that runs.
PlacesOK ==
  /\ pc \in LinuxReading \cup LinuxWriting => port = "linux"
  /\ pc \in WindowsReading \cup WindowsWriting \cup {"new"} => port = "windows"
  /\ pc \in {"readSync", "writeSync"} => port = "node"

\* Read looks into the pipe with an empty queue, and leaves nothing in its buffer.
QueueOK == (Reading => m_MessageQueue = <<>>) /\ (~Reading => byteBuf = <<>>)

\* What has been read of the stream, what of it is still held, and what comes next.
Taken == written - Len(inPipe)
BytesOK ==
  /\ Len(inPipe) <= written /\ Len(byteBuf) <= Taken
  /\ byteBuf = Part(Taken - Len(byteBuf), Taken)
  /\ inPipe = Part(Taken, written)

\* The node port loses no bytes, so what it holds begins with a message.
NodeOK ==
  port = "node" /\ (alive \/ Unread # <<>>) => End(Closed(FirstUnread)) = FirstUnread

(* Every string returned or queued is a piece of a message of its own, in order, and all
   of these have ended before the bytes that are still to be split; only the node port
   takes the beginning of one that never ends. *)
TornAtEnd == port = "node" /\ ~alive /\ Unread = <<>>
LastSplit == Closed(FirstUnread) + (IF TornAtEnd THEN 1 ELSE 0)
InOrder(strings, from, last) ==
  /\ from \in [DOMAIN strings -> 1 .. Messages]
  /\ \A i \in DOMAIN strings : Piece(strings[i], from[i]) /\ from[i] <= last
  /\ \A i, j \in DOMAIN strings : i < j => from[i] < from[j]
PiecesOK == \E from \in [DOMAIN (got \o m_MessageQueue) -> 1 .. Messages] :
              InOrder(got \o m_MessageQueue, from, LastSplit)

PipeInv == TypeOK /\ PlacesOK /\ QueueOK /\ BytesOK /\ NodeOK /\ PiecesOK

-----------------------------------------------------------------------------
(* What is held and what is in the pipe, as parts of the stream. *)

Holds(buf, pipe, a, t, w) ==
  /\ a \in Nat /\ t \in Nat /\ w \in Nat /\ a <= t /\ t <= w /\ w <= Len(Stream)
  /\ buf = Part(a, t) /\ pipe = Part(t, w)

LEMMA HoldsFacts ==
  ASSUME NEW buf, NEW pipe, NEW a, NEW t, NEW w, Holds(buf, pipe, a, t, w)
  PROVE  /\ buf \in Seq(Nat) /\ Len(buf) = t - a /\ t - Len(buf) = a
         /\ pipe \in Seq(Nat) /\ Len(pipe) = w - t /\ w - Len(pipe) = t
         /\ buf \o pipe = Part(a, w) /\ Part(a, w) \in Seq(Nat) /\ Len(Part(a, w)) = w - a
         /\ w - Len(buf \o pipe) = a
         /\ buf \o pipe = <<>> <=> a = w
         /\ buf = <<>> <=> a = t
         /\ pipe = <<>> <=> t = w
<1>1. a \in Nat /\ t \in Nat /\ w \in Nat /\ a <= t /\ t <= w /\ a <= w /\ t <= Len(Stream) /\ w <= Len(Stream)
  BY StreamLayout, LenProperties DEF Holds
<1>2. buf = Part(a, t) /\ pipe = Part(t, w)
  BY DEF Holds
<1>3. /\ Part(a, t) \in Seq(Nat) /\ Len(Part(a, t)) = t - a
      /\ Part(t, w) \in Seq(Nat) /\ Len(Part(t, w)) = w - t
      /\ Part(a, w) \in Seq(Nat) /\ Len(Part(a, w)) = w - a
  BY <1>1, PartStep
<1>4. Part(a, t) \o Part(t, w) = Part(a, w)
  BY <1>1, PartConcat
<1>5. \A s \in Seq(Nat) : s = <<>> <=> Len(s) = 0
  BY EmptySeq
<1>6. /\ Part(a, w) = <<>> <=> a = w
      /\ Part(a, t) = <<>> <=> a = t
      /\ Part(t, w) = <<>> <=> t = w
  BY <1>1, <1>3, <1>5
<1> QED
  BY <1>1, <1>2, <1>3, <1>4, <1>6

LEMMA Here ==
  ASSUME TypeOK, BytesOK
  PROVE  Holds(byteBuf, inPipe, FirstUnread, Taken, written)
<1>1. /\ byteBuf \in Seq(Nat) /\ inPipe \in Seq(Nat) /\ written \in Nat /\ written <= Len(Stream)
      /\ Len(byteBuf) \in Nat /\ Len(inPipe) \in Nat
  BY StreamLayout, LenProperties DEF TypeOK
<1>2. FirstUnread = Taken - Len(byteBuf)
  <2>1. Len(byteBuf \o inPipe) = Len(byteBuf) + Len(inPipe)
    BY <1>1, ConcatProperties
  <2> QED
    BY <1>1, <2>1 DEF FirstUnread, Taken, Unread
<1>3. Taken \in Nat /\ Taken <= written /\ FirstUnread \in Nat /\ FirstUnread <= Taken
  BY <1>1, <1>2 DEF BytesOK, Taken
<1> QED
  BY <1>1, <1>2, <1>3 DEF Holds, BytesOK

LEMMA There ==
  ASSUME NEW a, NEW t, Holds(byteBuf', inPipe', a, t, written')
  PROVE  /\ BytesOK' /\ FirstUnread' = a /\ Taken' = t
         /\ byteBuf' \in Seq(Nat) /\ inPipe' \in Seq(Nat) /\ Len(inPipe') = written' - t
         /\ Unread' = <<>> <=> a = written'
<1>1. /\ byteBuf' \in Seq(Nat) /\ Len(byteBuf') = t - a /\ t - Len(byteBuf') = a
      /\ inPipe' \in Seq(Nat) /\ Len(inPipe') = written' - t /\ written' - Len(inPipe') = t
      /\ written' - Len(byteBuf' \o inPipe') = a
      /\ byteBuf' \o inPipe' = <<>> <=> a = written'
  BY HoldsFacts
<1>2. /\ a \in Nat /\ t \in Nat /\ written' \in Nat /\ a <= t /\ t <= written'
      /\ byteBuf' = Part(a, t) /\ inPipe' = Part(t, written')
  BY DEF Holds
<1>3. FirstUnread' = a /\ Taken' = t
  BY <1>1 DEF FirstUnread, Taken, Unread
<1>4. BytesOK'
  <2>1. Len(inPipe') <= written' /\ Len(byteBuf') <= Taken'
    <3>1. Len(inPipe') = written' - t /\ Len(byteBuf') = t - a
      BY <1>1
    <3>2. a \in Nat /\ t \in Nat /\ written' \in Nat
      BY <1>2
    <3>3. \A x, y \in Nat : x - y <= x
      OBVIOUS
    <3>4. Len(inPipe') <= written' /\ Len(byteBuf') <= t
      BY <3>1, <3>2, <3>3
    <3> QED
      BY <1>3, <3>4
  <2>2. Taken' - Len(byteBuf') = a
    BY <1>1, <1>3
  <2>3. byteBuf' = Part(Taken' - Len(byteBuf'), Taken') /\ inPipe' = Part(Taken', written')
    BY <1>2, <1>3, <2>2
  <2> QED
    BY <2>1, <2>3 DEF BytesOK, Taken
<1> QED
  BY <1>1, <1>3, <1>4 DEF Unread

\* A chunk continues what is held.
LEMMA ChunkIs ==
  ASSUME TypeOK, BytesOK, inPipe # <<>>, TakesChunk
  PROVE  LET f == FirstUnread
             t == Taken + ChunkLength
         IN  /\ t \in Nat /\ f \in Nat /\ Taken < t /\ f < t /\ t <= written /\ t <= Len(Stream)
             /\ byteBuf \o Chunk = Part(f, t) /\ inPipe' = Part(t, written)
             /\ Last(Chunk) = Stream[t]
<1> DEFINE k == ChunkLength
<1>1. Holds(byteBuf, inPipe, FirstUnread, Taken, written)
  BY Here
<1>2. /\ FirstUnread \in Nat /\ Taken \in Nat /\ written \in Nat /\ FirstUnread <= Taken /\ Taken <= written
      /\ written <= Len(Stream) /\ byteBuf = Part(FirstUnread, Taken) /\ inPipe = Part(Taken, written)
      /\ Len(Stream) \in Nat
  BY <1>1, StreamLayout, LenProperties DEF Holds
<1>3. Len(inPipe) = written - Taken /\ Taken # written
  BY <1>1, HoldsFacts
<1>4. k \in Nat /\ k >= 1 /\ k <= written - Taken
  BY <1>2, <1>3, BufferAssumption DEF ChunkLength
<1> HIDE DEF k
<1>5. /\ Chunk = Part(Taken, Taken + k) /\ inPipe' = Part(Taken + k, written)
  <2>1. k \in 0 .. written - Taken
    BY <1>2, <1>4
  <2>2. SubSeq(inPipe, 1, k) = Part(Taken, Taken + k) /\ SubSeq(inPipe, k + 1, written - Taken) = Part(Taken + k, written)
    BY <1>2, <2>1, PartOfPart
  <2> QED
    BY <1>3, <2>2 DEF Chunk, TakesChunk, k
<1>6. Taken + k \in Nat /\ Taken < Taken + k /\ FirstUnread < Taken + k /\ Taken + k <= written
      /\ Taken <= Taken + k /\ Taken + k <= Len(Stream) /\ (Taken + k) - Taken = k
  BY <1>2, <1>4
<1>7. byteBuf \o Chunk = Part(FirstUnread, Taken + k)
  BY <1>2, <1>5, <1>6, PartConcat
<1>8. Last(Chunk) = Stream[Taken + k]
  <2>1. /\ Len(Part(Taken, Taken + k)) = (Taken + k) - Taken
        /\ \A i \in 1 .. (Taken + k) - Taken : Part(Taken, Taken + k)[i] = Stream[Taken + i]
    BY <1>2, <1>6, PartStep
  <2>2. k \in 1 .. (Taken + k) - Taken
    BY <1>2, <1>4, <1>6
  <2> QED
    BY <1>5, <1>6, <2>1, <2>2 DEF Last
<1> QED
  BY <1>2, <1>5, <1>6, <1>7, <1>8 DEF k

-----------------------------------------------------------------------------
(* The strings a step adds come after all there were. *)

LEMMA MorePieces ==
  ASSUME NEW old \in Seq(Seq(Nat)), NEW new \in Seq(Seq(Nat)), NEW c \in Nat, NEW last \in Nat,
         NEW from, InOrder(old, from, c),
         c + Len(new) <= last, \A k \in 1 .. Len(new) : Piece(new[k], c + k)
  PROVE  \E f \in [DOMAIN (old \o new) -> 1 .. Messages] : InOrder(old \o new, f, last)
<1> DEFINE n == Len(old)
           m == Len(new)
           f == [i \in 1 .. n + m |-> IF i <= n THEN from[i] ELSE c + (i - n)]
           all == old \o new
<1>1. /\ n \in Nat /\ m \in Nat /\ DOMAIN all = 1 .. n + m /\ DOMAIN old = 1 .. n
      /\ \A i \in 1 .. n + m : all[i] = IF i <= n THEN old[i] ELSE new[i - n]
  <2>1. all \in Seq(Seq(Nat)) /\ Len(all) = n + m
        /\ \A i \in 1 .. n + m : all[i] = IF i <= n THEN old[i] ELSE new[i - n]
    BY ConcatProperties
  <2>2. n \in Nat /\ m \in Nat /\ DOMAIN old = 1 .. n
    BY LenProperties
  <2> HIDE DEF all
  <2> QED
    BY <2>1, <2>2, LenProperties
<1>2. /\ \A i \in 1 .. n : from[i] \in 1 .. Messages /\ Piece(old[i], from[i]) /\ from[i] <= c
      /\ \A i, j \in 1 .. n : i < j => from[i] < from[j]
  BY <1>1 DEF InOrder
<1>3. \A k \in 1 .. m : c + k \in 1 .. Messages /\ Piece(new[k], c + k) /\ c + k <= last
  BY <1>1 DEF Piece
<1> HIDE DEF n, m, all
<1>4. ASSUME NEW i \in 1 .. n + m
      PROVE  f[i] \in 1 .. Messages /\ Piece(all[i], f[i]) /\ f[i] <= last
  <2>1. CASE i <= n
    <3>1. i \in 1 .. n /\ f[i] = from[i] /\ all[i] = old[i]
      BY <1>1, <2>1
    <3>2. c <= last /\ Messages \in Nat
      BY <1>1, MessageSizes DEF m
    <3>3. from[i] \in 1 .. Messages /\ Piece(old[i], from[i]) /\ from[i] <= c
      BY <1>2, <3>1
    <3>4. from[i] <= last
      BY <3>2, <3>3
    <3> QED
      BY <3>1, <3>3, <3>4
  <2>2. CASE ~(i <= n)
    <3>1. i - n \in 1 .. m /\ f[i] = c + (i - n) /\ all[i] = new[i - n]
      BY <1>1, <2>2
    <3> QED
      BY <1>3, <3>1
  <2> QED
    BY <2>1, <2>2
<1>5. ASSUME NEW i \in 1 .. n + m, NEW j \in 1 .. n + m, i < j
      PROVE  f[i] < f[j]
  <2>1. CASE j <= n
    <3>1. i \in 1 .. n /\ j \in 1 .. n /\ f[i] = from[i] /\ f[j] = from[j]
      BY <1>1, <1>5, <2>1
    <3> QED
      BY <1>2, <1>5, <3>1
  <2>2. CASE ~(j <= n) /\ i <= n
    <3>1. i \in 1 .. n /\ f[i] = from[i] /\ f[j] = c + (j - n) /\ j - n >= 1 /\ j - n \in Nat
      BY <1>1, <2>2
    <3>2. from[i] \in 1 .. Messages /\ from[i] <= c /\ Messages \in Nat
      BY <1>2, <3>1, MessageSizes
    <3> QED
      BY <3>1, <3>2
  <2>3. CASE ~(i <= n)
    <3>1. f[i] = c + (i - n) /\ f[j] = c + (j - n)
      BY <1>1, <1>5, <2>3
    <3> QED
      BY <1>1, <1>5, <3>1
  <2> QED
    BY <2>1, <2>2, <2>3
<1>6. f \in [1 .. n + m -> 1 .. Messages]
  BY <1>4
<1> HIDE DEF f
<1>7. InOrder(all, f, last)
  BY <1>1, <1>4, <1>5, <1>6 DEF InOrder
<1> QED
  BY <1>1, <1>6, <1>7 DEF all

LEMMA ClosedMonotone ==
  ASSUME NEW a \in Nat, NEW b \in Nat, a <= b, b <= Len(Stream)
  PROVE  Closed(a) \in Nat /\ Closed(b) \in Nat /\ Closed(a) <= Closed(b)
<1>1. a \in 0 .. Len(Stream) /\ b \in 0 .. Len(Stream)
  BY StreamLayout, LenProperties
<1>2. Ended(a, Closed(a)) /\ Ended(b, Closed(b))
  BY <1>1, ClosedIs
<1>3. Closed(a) <= Closed(b)
  BY SplitOfPart
<1> QED
  BY <1>2, <1>3, MessageSizes DEF Ended

(* A step that splits or loses the bytes of the stream up to b: the strings it adds are
   those of the messages behind FirstUnread. *)
LEMMA Advances ==
  ASSUME PipeInv, NEW b \in Nat, Taken <= b, b <= written,
         byteBuf' = <<>>, inPipe' = Part(b, written), UNCHANGED <<port, written, alive>>,
         NEW new \in Seq(Seq(Nat)),
         got' \o m_MessageQueue' = (got \o m_MessageQueue) \o new,
         new # <<>> => ~TornAtEnd,
         \A k \in 1 .. Len(new) : Piece(new[k], Closed(FirstUnread) + k),
         Closed(FirstUnread) + Len(new) <=
           Closed(b) + (IF port = "node" /\ ~alive /\ b = written THEN 1 ELSE 0),
         port = "node" /\ (alive \/ b # written) => End(Closed(b)) = b
  PROVE  /\ BytesOK' /\ NodeOK' /\ PiecesOK'
         /\ inPipe' \in Seq(Nat) /\ Len(inPipe') <= PipeCap
<1> USE DEF PipeInv
<1>1. Holds(byteBuf, inPipe, FirstUnread, Taken, written)
  BY Here
<1>2. /\ FirstUnread \in Nat /\ Taken \in Nat /\ written \in Nat /\ FirstUnread <= Taken /\ Taken <= written
      /\ written <= Len(Stream) /\ FirstUnread <= b /\ b <= Len(Stream) /\ Len(Stream) \in Nat
  BY <1>1, StreamLayout, LenProperties DEF Holds
<1>3. Holds(byteBuf', inPipe', b, b, written')
  <2>1. Part(b, b) = <<>>
    BY <1>2, PartStep
  <2> QED
    BY <1>2, <2>1 DEF Holds
<1>4. /\ BytesOK' /\ FirstUnread' = b /\ inPipe' \in Seq(Nat) /\ Len(inPipe') = written' - b
      /\ Unread' = <<>> <=> b = written'
  BY <1>3, There
<1>5. Len(inPipe') <= PipeCap
  <2>1. Len(inPipe) = written - Taken
    BY <1>1, HoldsFacts
  <2>2. Len(inPipe) <= PipeCap /\ PipeCap \in Nat
    BY BufferAssumption DEF TypeOK
  <2>3. Len(inPipe') = written - b
    BY <1>4
  <2> QED
    BY <1>2, <2>1, <2>2, <2>3
<1>6. NodeOK'
  BY <1>4 DEF NodeOK
<1>7. Closed(FirstUnread) \in Nat /\ Closed(b) \in Nat /\ Closed(FirstUnread) <= Closed(b)
  BY <1>2, ClosedMonotone
<1>8. Unread = <<>> <=> FirstUnread = written
  BY <1>1, HoldsFacts, SMTT(30) DEF Unread
<1>9. LastSplit' = Closed(b) + (IF port = "node" /\ ~alive /\ b = written THEN 1 ELSE 0)
  <2>1. TornAtEnd' <=> port = "node" /\ ~alive /\ b = written
    BY <1>4 DEF TornAtEnd
  <2> QED
    BY <1>4, <2>1 DEF LastSplit
<1>10. LastSplit \in Nat /\ LastSplit' \in Nat /\ LastSplit + Len(new) <= LastSplit'
       /\ \A k \in 1 .. Len(new) : Piece(new[k], LastSplit + k)
  <2>1. Len(new) \in Nat /\ (new = <<>> => Len(new) = 0)
    BY LenProperties, EmptySeq
  <2>2. LastSplit' \in Nat
    BY <1>7, <1>9
  <2>3. CASE new = <<>>
    <3>1. TornAtEnd => b = written /\ port = "node" /\ ~alive
      BY <1>2, <1>8 DEF TornAtEnd
    <3>2. LastSplit \in Nat /\ LastSplit <= LastSplit'
      BY <1>7, <1>9, <3>1 DEF LastSplit
    <3> QED
      BY <2>1, <2>2, <2>3, <3>2
  <2>4. CASE new # <<>>
    <3>1. LastSplit = Closed(FirstUnread)
      BY <1>7, <2>4 DEF LastSplit
    <3> QED
      BY <1>7, <1>9, <2>2, <3>1
  <2> QED
    BY <2>3, <2>4
<1>11. got \o m_MessageQueue \in Seq(Seq(Nat))
  BY ConcatProperties DEF TypeOK
<1>12. PICK from : InOrder(got \o m_MessageQueue, from, LastSplit)
  BY DEF PiecesOK
<1>13. \E f \in [DOMAIN ((got \o m_MessageQueue) \o new) -> 1 .. Messages] :
         InOrder((got \o m_MessageQueue) \o new, f, LastSplit')
  BY <1>10, <1>11, <1>12, MorePieces
<1>14. PiecesOK'
  BY <1>13 DEF PiecesOK
<1> QED
  BY <1>4, <1>5, <1>6, <1>14

-----------------------------------------------------------------------------
(* The ways a step can treat the bytes. *)

\* Not at all.  (The node port's browser does not come back.)
LEMMA BytesKept ==
  ASSUME PipeInv, UNCHANGED <<port, byteBuf, inPipe, written>>,
         got' \o m_MessageQueue' = got \o m_MessageQueue,
         port = "node" => (alive' => alive)
  PROVE  BytesOK' /\ NodeOK' /\ PiecesOK'
<1> USE DEF PipeInv
<1>1. Holds(byteBuf, inPipe, FirstUnread, Taken, written)
  BY Here
<1>2. Unread' = Unread /\ FirstUnread' = FirstUnread /\ Taken' = Taken
  BY DEF Unread, FirstUnread, Taken
<1>3. BytesOK'
  BY <1>2 DEF BytesOK
<1>4. NodeOK'
  BY <1>2 DEF NodeOK
<1>5. Closed(FirstUnread) \in Nat
  BY <1>1, ClosedMonotone DEF Holds
<1>6. LastSplit \in Nat /\ LastSplit' \in Nat /\ LastSplit <= LastSplit'
  <2>1. TornAtEnd => TornAtEnd'
    BY <1>2 DEF TornAtEnd
  <2> QED
    BY <1>2, <1>5, <2>1 DEF LastSplit
<1>7. PICK from \in [DOMAIN (got \o m_MessageQueue) -> 1 .. Messages] :
        InOrder(got \o m_MessageQueue, from, LastSplit)
  BY DEF PiecesOK
<1>8. InOrder(got \o m_MessageQueue, from, LastSplit')
  <2>1. \A i \in DOMAIN (got \o m_MessageQueue) : from[i] <= LastSplit'
    <3> SUFFICES ASSUME NEW i \in DOMAIN (got \o m_MessageQueue) PROVE from[i] <= LastSplit'
      OBVIOUS
    <3>1. from[i] <= LastSplit /\ from[i] \in 1 .. Messages /\ Messages \in Nat
      BY <1>7, MessageSizes DEF InOrder
    <3> QED
      BY <1>6, <3>1
  <2> QED
    BY <1>7, <2>1 DEF InOrder
<1>9. PiecesOK'
  BY <1>7, <1>8 DEF PiecesOK
<1> QED
  BY <1>3, <1>4, <1>9

\* One more chunk is held.
LEMMA ReadGoesOn ==
  ASSUME PipeInv, inPipe # <<>>, TakesChunk, byteBuf' = byteBuf \o Chunk,
         UNCHANGED <<port, written, alive, got, m_MessageQueue>>
  PROVE  /\ BytesOK' /\ NodeOK' /\ PiecesOK'
         /\ byteBuf' \in Seq(Nat) /\ inPipe' \in Seq(Nat) /\ Len(inPipe') <= PipeCap
<1> USE DEF PipeInv
<1> DEFINE f == FirstUnread
           t == Taken + ChunkLength
<1>1. Holds(byteBuf, inPipe, FirstUnread, Taken, written)
  BY Here
<1>2. /\ t \in Nat /\ f \in Nat /\ Taken < t /\ f < t /\ t <= written
      /\ byteBuf \o Chunk = Part(f, t) /\ inPipe' = Part(t, written)
  BY ChunkIs
<1>3. f <= written /\ written \in Nat /\ Taken \in Nat /\ written <= Len(Stream) /\ f # written
  BY <1>1, <1>2 DEF Holds
<1> HIDE DEF f, t
<1>4. Holds(byteBuf', inPipe', f, t, written')
  BY <1>2, <1>3 DEF Holds
<1>5. /\ BytesOK' /\ FirstUnread' = f /\ byteBuf' \in Seq(Nat) /\ inPipe' \in Seq(Nat)
      /\ Len(inPipe') = written' - t /\ (Unread' = <<>> <=> f = written')
  BY <1>4, There
<1>6. Len(inPipe') <= PipeCap
  <2>1. Len(inPipe) = written - Taken
    BY <1>1, HoldsFacts
  <2>2. Len(inPipe) <= PipeCap /\ PipeCap \in Nat
    BY BufferAssumption DEF TypeOK
  <2>3. Len(inPipe') = written - t
    BY <1>5
  <2> QED
    BY <1>2, <1>3, <2>1, <2>2, <2>3
<1>7. Unread # <<>> /\ Unread' # <<>>
  BY <1>1, <1>3, <1>5, HoldsFacts DEF Unread, f
<1>8. NodeOK'
  BY <1>5, <1>7 DEF NodeOK, f
<1>9. LastSplit' = LastSplit
  BY <1>5, <1>7 DEF LastSplit, TornAtEnd, f
<1>10. PiecesOK'
  BY <1>9 DEF PiecesOK
<1> QED
  BY <1>5, <1>6, <1>8, <1>10

LEMMA DeliversAll ==
  ASSUME TypeOK, m_MessageQueue = <<>>, NEW s \in Seq(Seq(Nat)), s # <<>>, Delivers(s)
  PROVE  /\ got' \in Seq(Seq(Nat)) /\ m_MessageQueue' \in Seq(Seq(Nat))
         /\ got' \o m_MessageQueue' = (got \o m_MessageQueue) \o s
<1>1. got \in Seq(Seq(Nat)) /\ Head(s) \in Seq(Nat) /\ Tail(s) \in Seq(Seq(Nat)) /\ Len(s) > 0
  BY HeadTailProperties, EmptySeq, LenProperties DEF TypeOK
<1>2. m_MessageQueue' = Tail(s) /\ got' = Append(got, Head(s)) /\ got \o m_MessageQueue = got
  BY <1>1, ConcatEmptySeq DEF Delivers
<1>3. got' = got \o <<Head(s)>> /\ <<Head(s)>> \in Seq(Seq(Nat)) /\ got' \in Seq(Seq(Nat))
  BY <1>1, <1>2, AppendIsConcat, AppendProperties
<1>4. s = <<Head(s)>> \o Tail(s)
  <2>1. 1 \in 1 .. Len(s) /\ Len(s) \in 1 .. Len(s)
    BY <1>1, LenProperties
  <2>2. SubSeq(s, 1, Len(s)) = <<s[1]>> \o SubSeq(s, 1 + 1, Len(s))
    BY <2>1, SubSeqRecursiveFirst
  <2>3. SubSeq(s, 1, Len(s)) = s /\ Tail(s) = SubSeq(s, 2, Len(s)) /\ Head(s) = s[1]
    BY SubSeqFull, TailIsSubSeq
  <2> QED
    BY <2>2, <2>3
<1>5. (got \o <<Head(s)>>) \o Tail(s) = got \o (<<Head(s)>> \o Tail(s))
  BY <1>1, <1>3, ConcatAssociative, SMTT(30)
<1> QED
  BY <1>1, <1>2, <1>3, <1>4, <1>5

\* What the strings of the bytes up to b are pieces of, in the implementation that runs.
LEMMA StringsHere ==
  ASSUME PipeInv, NEW b \in Nat, FirstUnread < b, b <= written,
         NEW s, s = IF port = "node" THEN NodeStrings(Part(FirstUnread, b)) ELSE Split(Part(FirstUnread, b))
  PROVE  /\ s \in Seq(Seq(Nat)) /\ ~TornAtEnd
         /\ \A k \in 1 .. Len(s) : Piece(s[k], Closed(FirstUnread) + k)
         /\ Closed(FirstUnread) + Len(s) <= Closed(b) + (IF port = "node" /\ Stream[b] # NUL THEN 1 ELSE 0)
         /\ Stream[b] = NUL => s # <<>> /\ End(Closed(b)) = b
<1> USE DEF PipeInv
<1> DEFINE f == FirstUnread
<1>1. Holds(byteBuf, inPipe, f, Taken, written)
  BY Here
<1>2. /\ f \in Nat /\ f < b /\ f <= b /\ b <= Len(Stream) /\ f # written /\ written \in Nat
  BY <1>1, StreamLayout, LenProperties DEF Holds
<1>3. Closed(f) \in Nat /\ Closed(b) \in Nat
  BY <1>2, ClosedMonotone
<1>4. Unread # <<>>
  BY <1>1, <1>2, HoldsFacts DEF Unread
<1>5. ~TornAtEnd
  BY <1>4 DEF TornAtEnd
<1>6. CASE port = "node"
  <2>1. End(Closed(f)) = f
    BY <1>4, <1>6 DEF NodeOK
  <2> HIDE DEF f
  <2>2. /\ s \in Seq(Seq(Nat)) /\ \A k \in 1 .. Len(s) : Piece(s[k], Closed(f) + k)
        /\ Len(s) <= Closed(b) + 1 - Closed(f)
        /\ Stream[b] = NUL => Len(s) = Closed(b) - Closed(f)
    BY <1>2, <1>6, <2>1, NodeStringsOfPart DEF f
  <2>3. Stream[b] = NUL => End(Closed(b)) = b /\ Closed(f) < Closed(b)
    BY <1>2, EndsWithMessage
  <2>4. Len(s) \in Nat
    BY <2>2, LenProperties
  <2>5. Stream[b] = NUL => s # <<>>
    BY <1>3, <2>2, <2>3, <2>4, EmptySeq
  <2>6. Closed(f) + Len(s) <= Closed(b) + (IF port = "node" /\ Stream[b] # NUL THEN 1 ELSE 0)
    BY <1>3, <1>6, <2>2, <2>4
  <2> QED
    BY <1>5, <2>2, <2>3, <2>5, <2>6 DEF f
<1>7. CASE port # "node"
  <2> HIDE DEF f
  <2>1. /\ s \in Seq(Seq(Nat)) /\ Len(s) = Closed(b) - Closed(f)
        /\ \A k \in 1 .. Len(s) : s[k] = StringAt(f, k)
    BY <1>2, <1>7, SplitOfPart DEF f
  <2>2. \A k \in 1 .. Len(s) : Piece(s[k], Closed(f) + k)
    BY <1>2, <2>1, StringIsPiece
  <2>3. Stream[b] = NUL => End(Closed(b)) = b /\ Closed(f) < Closed(b)
    BY <1>2, EndsWithMessage
  <2>4. Stream[b] = NUL => s # <<>>
    BY <1>3, <2>1, <2>3, EmptySeq
  <2>5. Closed(f) + Len(s) <= Closed(b) + (IF port = "node" /\ Stream[b] # NUL THEN 1 ELSE 0)
    BY <1>3, <1>7, <2>1
  <2> QED
    BY <1>5, <2>1, <2>2, <2>3, <2>4, <2>5 DEF f
<1> QED
  BY <1>6, <1>7

\* A chunk that ends with a NUL: everything held is delivered.
LEMMA ChunkDelivered ==
  ASSUME PipeInv, Reading, inPipe # <<>>, TakesChunk, Last(Chunk) = NUL,
         UNCHANGED <<port, written, alive>>,
         NEW s, Delivers(s),
         s = IF port = "node" THEN NodeStrings(byteBuf \o Chunk) ELSE Split(byteBuf \o Chunk)
  PROVE  /\ BytesOK' /\ NodeOK' /\ PiecesOK'
         /\ inPipe' \in Seq(Nat) /\ Len(inPipe') <= PipeCap
         /\ got' \in Seq(Seq(Nat)) /\ m_MessageQueue' \in Seq(Seq(Nat))
<1> USE DEF PipeInv
<1> DEFINE t == Taken + ChunkLength
<1>1. /\ t \in Nat /\ Taken <= t /\ FirstUnread < t /\ t <= written
      /\ byteBuf \o Chunk = Part(FirstUnread, t) /\ inPipe' = Part(t, written) /\ Stream[t] = NUL
  <2>1. Holds(byteBuf, inPipe, FirstUnread, Taken, written)
    BY Here
  <2> QED
    BY <2>1, ChunkIs DEF Holds
<1> HIDE DEF t
<1>2. /\ s \in Seq(Seq(Nat)) /\ ~TornAtEnd /\ s # <<>> /\ End(Closed(t)) = t
      /\ \A k \in 1 .. Len(s) : Piece(s[k], Closed(FirstUnread) + k)
      /\ Closed(FirstUnread) + Len(s) <= Closed(t) + 0
  BY <1>1, StringsHere
<1>3. /\ got' \in Seq(Seq(Nat)) /\ m_MessageQueue' \in Seq(Seq(Nat))
      /\ got' \o m_MessageQueue' = (got \o m_MessageQueue) \o s
  BY <1>2, DeliversAll DEF QueueOK
<1>4. Closed(FirstUnread) + Len(s) <= Closed(t) + (IF port = "node" /\ ~alive /\ t = written THEN 1 ELSE 0)
  <2>1. Closed(FirstUnread) \in Nat /\ Closed(t) \in Nat /\ Len(s) \in Nat
    <3>1. Holds(byteBuf, inPipe, FirstUnread, Taken, written)
      BY Here
    <3>2. t <= Len(Stream) /\ FirstUnread <= t /\ FirstUnread \in Nat
      BY <1>1, <3>1, StreamLayout, LenProperties DEF Holds
    <3> QED
      BY <1>1, <1>2, <3>2, ClosedMonotone, LenProperties
  <2> QED
    BY <1>2, <2>1
<1>5. byteBuf' = <<>>
  BY DEF Delivers
<1> QED
  BY <1>1, <1>2, <1>3, <1>4, <1>5, Advances

\* The bytes held, as far as they have come, are delivered; what no NUL ends is lost.
LEMMA HeldDelivered ==
  ASSUME PipeInv, Reading, port # "node", Split(byteBuf) # <<>>, Delivers(Split(byteBuf)),
         UNCHANGED <<port, inPipe, written, alive>>
  PROVE  /\ BytesOK' /\ NodeOK' /\ PiecesOK'
         /\ got' \in Seq(Seq(Nat)) /\ m_MessageQueue' \in Seq(Seq(Nat))
<1> USE DEF PipeInv
<1> DEFINE s == Split(byteBuf)
<1>1. /\ Holds(byteBuf, inPipe, FirstUnread, Taken, written)
      /\ FirstUnread \in Nat /\ Taken \in Nat /\ FirstUnread <= Taken /\ Taken <= written
      /\ Taken <= Taken /\ Taken <= Len(Stream) /\ byteBuf = Part(FirstUnread, Taken)
      /\ inPipe = Part(Taken, written)
  BY Here, StreamLayout, LenProperties DEF Holds
<1>2. FirstUnread < Taken
  <2>1. byteBuf # <<>>
    BY StringsEmpty DEF Split
  <2>2. FirstUnread # Taken
    BY <1>1, <2>1, HoldsFacts
  <2> QED
    BY <1>1, <2>2
<1>3. s = IF port = "node" THEN NodeStrings(Part(FirstUnread, Taken)) ELSE Split(Part(FirstUnread, Taken))
  BY <1>1
<1> HIDE DEF s
<1>4. /\ s \in Seq(Seq(Nat)) /\ ~TornAtEnd
      /\ \A k \in 1 .. Len(s) : Piece(s[k], Closed(FirstUnread) + k)
      /\ Closed(FirstUnread) + Len(s) <= Closed(Taken) + 0
  BY <1>1, <1>2, <1>3, StringsHere
<1>5. s # <<>> /\ Delivers(s)
  BY DEF s
<1>6. /\ got' \in Seq(Seq(Nat)) /\ m_MessageQueue' \in Seq(Seq(Nat))
      /\ got' \o m_MessageQueue' = (got \o m_MessageQueue) \o s
  BY <1>4, <1>5, DeliversAll DEF QueueOK
<1>7. byteBuf' = <<>> /\ inPipe' = Part(Taken, written)
  BY <1>1, <1>5 DEF Delivers
<1>8. Closed(FirstUnread) + Len(s) <= Closed(Taken) + (IF port = "node" /\ ~alive /\ Taken = written THEN 1 ELSE 0)
  BY <1>4
<1> QED
  BY <1>1, <1>4, <1>6, <1>7, <1>8, Advances

\* A read gives up: what it holds is lost, and perhaps some bytes of the pipe.
LEMMA Loses ==
  ASSUME PipeInv, NEW b \in Nat, Taken <= b, b <= written,
         byteBuf' = <<>>, inPipe' = Part(b, written),
         port = "node" => byteBuf = <<>> /\ b = Taken,
         UNCHANGED <<port, written, alive, got, m_MessageQueue>>
  PROVE  /\ BytesOK' /\ NodeOK' /\ PiecesOK'
         /\ inPipe' \in Seq(Nat) /\ Len(inPipe') <= PipeCap
<1> USE DEF PipeInv
<1>1. /\ Holds(byteBuf, inPipe, FirstUnread, Taken, written)
      /\ FirstUnread \in Nat /\ Taken \in Nat /\ FirstUnread <= b /\ b <= Len(Stream)
  BY Here, StreamLayout, LenProperties DEF Holds
<1>2. <<>> \in Seq(Seq(Nat)) /\ Len(<<>>) = 0
  BY EmptySeq
<1>3. got \o m_MessageQueue \in Seq(Seq(Nat)) /\ got' \o m_MessageQueue' = (got \o m_MessageQueue) \o <<>>
  BY ConcatProperties, ConcatEmptySeq DEF TypeOK
<1>4. Closed(FirstUnread) \in Nat /\ Closed(b) \in Nat /\ Closed(FirstUnread) <= Closed(b)
  BY <1>1, ClosedMonotone
<1>5. Closed(FirstUnread) + Len(<<>>) <= Closed(b) + (IF port = "node" /\ ~alive /\ b = written THEN 1 ELSE 0)
  BY <1>2, <1>4
<1>6. port = "node" /\ (alive \/ b # written) => End(Closed(b)) = b
  <2> SUFFICES ASSUME port = "node", alive \/ b # written PROVE End(Closed(b)) = b
    OBVIOUS
  <2>1. FirstUnread = b
    BY <1>1, HoldsFacts
  <2>2. Unread # <<>> \/ alive
    BY <1>1, <2>1, HoldsFacts DEF Unread
  <2> QED
    BY <2>1, <2>2 DEF NodeOK
<1>7. \A k \in 1 .. Len(<<>>) : Piece(<<>>[k], Closed(FirstUnread) + k)
  BY <1>2
<1> QED
  BY <1>2, <1>3, <1>5, <1>6, <1>7, Advances

\* The node port meets the end of the pipe: what it holds is split, or dropped.
LEMMA NodeMeetsEndWith ==
  ASSUME PipeInv, NodeMeetsEnd, port = "node", byteBuf # <<>>, byteBuf' = <<>>,
         UNCHANGED <<port, inPipe, written, alive>>
  PROVE  /\ NodeStrings(byteBuf) \in Seq(Seq(Nat))
         /\ got' \o m_MessageQueue' = (got \o m_MessageQueue) \o NodeStrings(byteBuf)
              => BytesOK' /\ NodeOK' /\ PiecesOK'
<1> USE DEF PipeInv
<1> DEFINE s == NodeStrings(byteBuf)
<1>1. /\ Holds(byteBuf, inPipe, FirstUnread, Taken, written)
      /\ FirstUnread \in Nat /\ Taken \in Nat /\ written \in Nat /\ FirstUnread <= Taken /\ Taken <= written
      /\ Taken <= Len(Stream) /\ byteBuf = Part(FirstUnread, Taken) /\ inPipe = Part(Taken, written)
  BY Here, StreamLayout, LenProperties DEF Holds
<1>2. Taken = written /\ FirstUnread < Taken
  <2>1. inPipe = <<>> /\ FirstUnread # Taken
    BY <1>1, HoldsFacts DEF NodeMeetsEnd
  <2>2. Taken = written
    BY <1>1, <2>1, HoldsFacts
  <2> QED
    BY <1>1, <2>1, <2>2
<1>3. s = IF port = "node" THEN NodeStrings(Part(FirstUnread, Taken)) ELSE Split(Part(FirstUnread, Taken))
  BY <1>1
<1> HIDE DEF s
<1>4. /\ s \in Seq(Seq(Nat)) /\ ~TornAtEnd
      /\ \A k \in 1 .. Len(s) : Piece(s[k], Closed(FirstUnread) + k)
      /\ Closed(FirstUnread) + Len(s) <= Closed(Taken) + (IF port = "node" /\ Stream[Taken] # NUL THEN 1 ELSE 0)
  BY <1>1, <1>2, <1>3, StringsHere
<1>5. Closed(FirstUnread) + Len(s) <= Closed(Taken) + (IF port = "node" /\ ~alive /\ Taken = written THEN 1 ELSE 0)
  <2>1. Closed(FirstUnread) \in Nat /\ Closed(Taken) \in Nat /\ Len(s) \in Nat
    BY <1>1, <1>4, ClosedMonotone, LenProperties
  <2>2. ~alive
    BY DEF NodeMeetsEnd
  <2> QED
    BY <1>2, <1>4, <2>1, <2>2
<1>6. ASSUME got' \o m_MessageQueue' = (got \o m_MessageQueue) \o s
      PROVE  BytesOK' /\ NodeOK' /\ PiecesOK'
  <2>1. Taken <= Taken /\ inPipe' = Part(Taken, written) /\ ~alive
    BY <1>1 DEF NodeMeetsEnd
  <2> QED
    BY <1>1, <1>2, <1>4, <1>5, <1>6, <2>1, Advances
<1> QED
  BY <1>4, <1>6 DEF s

\* The browser's next bytes.
LEMMA BrowserAdds ==
  ASSUME PipeInv, BrowserWrites
  PROVE  /\ BytesOK' /\ NodeOK' /\ PiecesOK'
         /\ inPipe' \in Seq(Nat) /\ Len(inPipe') <= PipeCap /\ written' \in 0 .. Len(Stream)
<1> USE DEF PipeInv
<1> DEFINE f == FirstUnread
<1>1. PICK n \in 1 .. PipeCap - Len(inPipe) :
        /\ written + n <= Len(Stream)
        /\ inPipe' = inPipe \o SubSeq(Stream, written + 1, written + n)
        /\ written' = written + n
  BY DEF BrowserWrites
<1>2. Holds(byteBuf, inPipe, f, Taken, written)
  BY Here
<1>3. /\ f \in Nat /\ Taken \in Nat /\ written \in Nat /\ f <= Taken /\ Taken <= written
      /\ byteBuf = Part(f, Taken) /\ inPipe = Part(Taken, written) /\ Len(inPipe) = written - Taken
      /\ PipeCap \in Nat /\ Len(Stream) \in Nat
  <2>1. Len(inPipe) = written - Taken
    BY <1>2, HoldsFacts
  <2>2. PipeCap \in Nat /\ Len(Stream) \in Nat
    BY BufferAssumption, StreamLayout, LenProperties
  <2> QED
    BY <1>2, <2>1, <2>2 DEF Holds
<1> HIDE DEF f
<1>4. n \in Nat /\ written + n \in Nat /\ written <= written + n /\ Taken <= written + n
  BY <1>3
<1>5. inPipe' = Part(Taken, written + n)
  <2>1. inPipe' = Part(Taken, written) \o Part(written, written + n)
    BY <1>1, <1>3 DEF Part
  <2> QED
    BY <1>1, <1>3, <1>4, <2>1, PartConcat
<1>6. byteBuf' = byteBuf /\ port' = port /\ alive /\ alive' /\ got' = got /\ m_MessageQueue' = m_MessageQueue
  BY DEF BrowserWrites, readVars, program
<1>7. Holds(byteBuf', inPipe', f, Taken, written')
  BY <1>1, <1>3, <1>4, <1>5, <1>6 DEF Holds
<1>8. /\ BytesOK' /\ FirstUnread' = f /\ inPipe' \in Seq(Nat) /\ Len(inPipe') = written' - Taken
  BY <1>7, There
<1>9. Len(inPipe') <= PipeCap /\ written' \in 0 .. Len(Stream)
  <2>1. Len(inPipe') = (written + n) - Taken
    BY <1>1, <1>8
  <2>2. (written + n) - Taken <= PipeCap
    BY <1>1, <1>3, <1>4
  <2> QED
    BY <1>1, <1>3, <1>4, <2>1, <2>2
<1>10. NodeOK'
  BY <1>6, <1>8 DEF NodeOK, f
<1>11. LastSplit' = LastSplit
  BY <1>6, <1>8 DEF LastSplit, TornAtEnd, f
<1>12. PiecesOK'
  BY <1>6, <1>11 DEF PiecesOK
<1> QED
  BY <1>8, <1>9, <1>10, <1>12

-----------------------------------------------------------------------------
(* The invariant is inductive. *)

LEMMA PipeInvInit == Init => PipeInv
<1> SUFFICES ASSUME Init PROVE PipeInv
  OBVIOUS
<1>1. Len(Stream) \in Nat /\ 0 <= Len(Stream) /\ PipeCap \in Nat
  BY StreamLayout, LenProperties, BufferAssumption
<1>2. TypeOK
  <2>1. <<>> \in Seq(Nat) /\ <<>> \in Seq(Seq(Nat)) /\ <<>> \in Seq(BOOLEAN) /\ Len(<<>>) = 0
    OBVIOUS
  <2>2. Len(CommandSize) \in Nat /\ MaxSettings \in Nat
    BY SizeAssumption, SettingsAssumption, LenProperties
  <2>3. signals \in BOOLEAN /\ alive \in BOOLEAN
    BY DEF Init
  <2>4. pc \in {"idle", "killed", "new", "closed"}
    BY DEF Init
  <2>5. /\ port \in Ports /\ outcome = "returned" /\ ours = {}
        /\ byteBuf = <<>> /\ m_MessageQueue = <<>> /\ got = <<>>
        /\ m_Timeout = NoTimeout /\ setting = NoTimeout /\ settings = 0
        /\ writeBuf = <<>> /\ reports = <<>> /\ commands = 0
        /\ inPipe = <<>> /\ outPipe = <<>> /\ heard = <<>> /\ written = 0
    BY DEF Init
  <2>6. settings \in 0 .. MaxSettings /\ commands \in 0 .. Len(CommandSize) /\ written \in 0 .. Len(Stream)
    BY <1>1, <2>2, <2>5
  <2>7. Len(inPipe) <= PipeCap /\ Len(outPipe) <= PipeCap
    BY <1>1, <2>1, <2>5, BufferAssumption
  <2> QED
    BY <2>1, <2>3, <2>4, <2>5, <2>6, <2>7 DEF TypeOK
<1>3. PlacesOK /\ QueueOK
  BY DEF Init, PlacesOK, QueueOK, Reading, Writing, LinuxReading, LinuxWriting, WindowsReading, WindowsWriting
<1>4. Part(0, 0) = <<>> /\ Len(<<>>) = 0 /\ <<>> \o <<>> = <<>>
  BY <1>1, PartStep, EmptySeq, ConcatEmptySeq
<1>5. Unread = <<>> /\ FirstUnread = 0 /\ Taken = 0
  <2>1. Unread = <<>>
    BY <1>4 DEF Init, Unread
  <2>2. written = 0 /\ inPipe = <<>>
    BY DEF Init
  <2>3. Len(Unread) = 0 /\ Len(inPipe) = 0
    BY <1>4, <2>1, <2>2
  <2>4. written - Len(Unread) = 0 /\ written - Len(inPipe) = 0
    <3>1. 0 - 0 = 0
      OBVIOUS
    <3> QED
      BY <2>2, <2>3, <3>1, Zenon
  <2> QED
    BY <2>1, <2>4 DEF FirstUnread, Taken
<1>6. BytesOK
  BY <1>4, <1>5 DEF Init, BytesOK
<1>7. End(0) = 0 /\ Closed(0) = 0
  <2>1. 0 \in 0 .. Messages
    BY MessageSizes
  <2> QED
    BY <2>1, EndStep, ClosedEnd
<1>8. NodeOK
  BY <1>5, <1>7 DEF NodeOK
<1>9. PiecesOK
  <2> DEFINE from == [i \in 1 .. 0 |-> 1]
  <2>1. DOMAIN (got \o m_MessageQueue) = 1 .. 0
    BY <1>4 DEF Init
  <2>2. from \in [DOMAIN (got \o m_MessageQueue) -> 1 .. Messages]
    BY <2>1
  <2>3. InOrder(got \o m_MessageQueue, from, LastSplit)
    BY <2>1 DEF InOrder
  <2> HIDE DEF from
  <2> QED
    BY <2>2, <2>3 DEF PiecesOK
<1> QED
  BY <1>2, <1>3, <1>6, <1>8, <1>9 DEF PipeInv

\* Steps that leave the bytes from the browser alone.
Quiet ==
  /\ UNCHANGED <<port, byteBuf, inPipe, written, got, m_MessageQueue>>
  /\ port = "node" => (alive' => alive)

LEMMA QuietKeeps ==
  ASSUME PipeInv, Quiet, TypeOK', PlacesOK', QueueOK'
  PROVE  PipeInv'
BY BytesKept DEF Quiet, PipeInv

LEMMA ToSecondsType ==
  ASSUME NEW ms \in Settings
  PROVE  ToSeconds(ms) \in Nat \cup {NoTimeout} /\ ms \in Nat
<1>1. ms \in Nat
  BY SettingsAssumption
<1> QED
  BY <1>1 DEF ToSeconds

LEMMA SettingStep ==
  ASSUME PipeInv, NEW value \in Nat \cup {NoTimeout}, SetsTimeout(value)
  PROVE  PipeInv'
<1> USE DEF SetsTimeout, program, readVars, writeVars, browserVars
<1>1. TypeOK'
  BY SettingsAssumption DEF PipeInv, TypeOK, Reading, Writing
<1>2. PlacesOK' /\ QueueOK' /\ Quiet
  BY DEF PipeInv, PlacesOK, QueueOK, Reading, Quiet
<1> QED
  BY <1>1, <1>2, QuietKeeps

Place(p, where) ==
  \/ where = "linux" /\ p \in LinuxReading \cup LinuxWriting
  \/ where = "windows" /\ p \in WindowsReading \cup WindowsWriting
  \/ where = "node" /\ p \in {"readSync", "writeSync"}

\* From one place of a call to another that also reads, or also writes.
LEMMA GoesStep ==
  ASSUME PipeInv, NEW p, Goes(p), Place(p, port) \/ p = "killed",
         Reading' => Reading \/ StartsRead,
         Reading => Reading' \/ byteBuf = <<>>
  PROVE  PipeInv'
<1> USE DEF Goes, program, readVars, timeVars, writeVars, browserVars
<1> USE DEF LinuxReading, LinuxWriting, WindowsReading, WindowsWriting
<1>1. TypeOK'
  BY DEF PipeInv, TypeOK, Reading, Writing, Place
<1>2. PlacesOK'
  BY DEF PipeInv, PlacesOK, Place
<1>3. QueueOK' /\ Quiet
  BY DEF PipeInv, QueueOK, StartsRead, Quiet
<1> QED
  BY <1>1, <1>2, <1>3, QuietKeeps

LEMMA CommandType ==
  ASSUME NEW c \in 1 .. Len(CommandSize)
  PROVE  /\ Command(c) \in Seq(Nat) /\ Len(Command(c)) = CommandSize[c] + 1
         /\ CommandSize[c] \in Nat /\ Last(Command(c)) = NUL
<1>1. CommandSize[c] \in Nat /\ c \in Nat
  BY SizeAssumption, ElementOfSeq
<1>2. /\ Framed(c, CommandSize[c]) \in Seq(Nat) /\ Len(Framed(c, CommandSize[c])) = CommandSize[c] + 1
      /\ \A j \in 1 .. CommandSize[c] + 1 : Framed(c, CommandSize[c])[j] = IF j <= CommandSize[c] THEN c ELSE NUL
  BY <1>1, FramedIs
<1>3. Framed(c, CommandSize[c])[CommandSize[c] + 1] = NUL
  <2>1. CommandSize[c] + 1 \in 1 .. CommandSize[c] + 1 /\ ~(CommandSize[c] + 1 <= CommandSize[c])
    BY <1>1
  <2> QED
    BY <1>2, <2>1
<1> QED
  BY <1>1, <1>2, <1>3 DEF Command, Last

LEMMA WriteBeginsStep ==
  ASSUME PipeInv, NEW p \in {"writeSelect", "writePending", "writeSync"}, WriteBegins(p), Place(p, port)
  PROVE  PipeInv'
<1> USE DEF WriteBegins, StartsWrite, program, readVars, timeVars, browserVars
<1> USE DEF LinuxReading, LinuxWriting, WindowsReading, WindowsWriting
<1>1. commands + 1 \in 1 .. Len(CommandSize) /\ commands' = commands + 1 /\ Len(CommandSize) \in Nat
  BY SizeAssumption, LenProperties DEF PipeInv, TypeOK
<1>2. writeBuf' \in Seq(Nat)
  BY <1>1, CommandType
<1>3. TypeOK'
  BY <1>1, <1>2, SMTT(30) DEF PipeInv, TypeOK, Reading, Writing
<1>4. PlacesOK' /\ QueueOK' /\ Quiet
  BY DEF PipeInv, PlacesOK, QueueOK, Reading, Quiet, Place
<1> QED
  BY <1>3, <1>4, QuietKeeps

LEMMA CutInTwo ==
  \A s \in Seq(Nat) : \A n \in 0 .. Len(s) :
    /\ SubSeq(s, 1, n) \in Seq(Nat) /\ Len(SubSeq(s, 1, n)) = n
    /\ SubSeq(s, n + 1, Len(s)) \in Seq(Nat) /\ Len(SubSeq(s, n + 1, Len(s))) = Len(s) - n
    /\ SubSeq(s, 1, n) \o SubSeq(s, n + 1, Len(s)) = s
<1> SUFFICES ASSUME NEW s \in Seq(Nat), NEW n \in 0 .. Len(s)
             PROVE  /\ SubSeq(s, 1, n) \in Seq(Nat) /\ Len(SubSeq(s, 1, n)) = n
                    /\ SubSeq(s, n + 1, Len(s)) \in Seq(Nat) /\ Len(SubSeq(s, n + 1, Len(s))) = Len(s) - n
                    /\ SubSeq(s, 1, n) \o SubSeq(s, n + 1, Len(s)) = s
  OBVIOUS
<1>1. Len(s) \in Nat /\ n \in Nat /\ n <= Len(s)
  BY LenProperties
<1>2. SubSeq(s, 1, n) \in Seq(Nat) /\ Len(SubSeq(s, 1, n)) = n
  BY <1>1
<1>3. SubSeq(s, n + 1, Len(s)) \in Seq(Nat) /\ Len(SubSeq(s, n + 1, Len(s))) = Len(s) - n
  BY <1>1
<1>4. SubSeq(s, 1, n) \o SubSeq(s, n + 1, Len(s)) = SubSeq(s, 1, Len(s))
  <2>1. 1 \in 1 .. Len(s) + 1 /\ n \in 1 - 1 .. Len(s) /\ Len(s) \in n .. Len(s)
    BY <1>1
  <2> QED
    BY <2>1, ConcatAdjacentSubSeq
<1>5. SubSeq(s, 1, Len(s)) = s
  BY SubSeqFull
<1> QED
  BY <1>2, <1>3, <1>4, <1>5

LEMMA MovesBytesType ==
  ASSUME TypeOK, MovesBytes
  PROVE  /\ outPipe' \in Seq(Nat) /\ writeBuf' \in Seq(Nat) /\ Len(outPipe') <= PipeCap
         /\ \E n \in 0 .. Len(writeBuf) :
              /\ outPipe' = outPipe \o SubSeq(writeBuf, 1, n)
              /\ writeBuf' = SubSeq(writeBuf, n + 1, Len(writeBuf))
<1> DEFINE n == IF Len(writeBuf) < Room THEN Len(writeBuf) ELSE Room
<1>1. /\ outPipe \in Seq(Nat) /\ writeBuf \in Seq(Nat) /\ Len(outPipe) \in Nat /\ Len(writeBuf) \in Nat
      /\ PipeCap \in Nat /\ Len(outPipe) <= PipeCap
  BY BufferAssumption, LenProperties DEF TypeOK
<1>2. n \in 0 .. Len(writeBuf) /\ n <= PipeCap - Len(outPipe) /\ n \in Nat
  BY <1>1 DEF Room
<1>3. /\ outPipe' = outPipe \o SubSeq(writeBuf, 1, n)
      /\ writeBuf' = SubSeq(writeBuf, n + 1, Len(writeBuf))
  BY DEF MovesBytes
<1> HIDE DEF n
<1>4. SubSeq(writeBuf, 1, n) \in Seq(Nat) /\ Len(SubSeq(writeBuf, 1, n)) = n /\ writeBuf' \in Seq(Nat)
  BY <1>1, <1>2, <1>3, SMTT(30)
<1>5. outPipe' \in Seq(Nat) /\ Len(outPipe') = Len(outPipe) + n
  BY <1>1, <1>3, <1>4, ConcatProperties
<1>6. Len(outPipe') <= PipeCap
  BY <1>1, <1>2, <1>5
<1> QED
  BY <1>2, <1>3, <1>4, <1>5, <1>6

LEMMA LinuxStepKeeps == PipeInv /\ (LinuxStarts \/ LinuxStep) => PipeInv'
<1> SUFFICES ASSUME PipeInv, LinuxStarts \/ LinuxStep PROVE PipeInv'
  OBVIOUS
<1> DEFINE Bytes == BytesOK /\ NodeOK /\ PiecesOK
<1> USE DEF program, readVars, timeVars, writeVars, browserVars, Return, Reports, ReadFails, WriteFails
<1> USE DEF LinuxReading, LinuxWriting, WindowsReading, WindowsWriting
<1>1. CASE LinuxReadStarts
  BY <1>1, GoesStep DEF LinuxReadStarts, Place, Goes, Reading, StartsRead
<1>2. CASE LinuxWriteStarts
  BY <1>2, WriteBeginsStep DEF LinuxWriteStarts, Place
<1>3. CASE \E ms \in Settings : LinuxSetTimeout(ms)
  BY <1>3, SettingStep, ToSecondsType DEF LinuxSetTimeout
<1>4. CASE SecondPasses
  <2> USE <1>4 DEF SecondPasses
  <2>1. m_Timeout' \in Nat
    BY DEF PipeInv, TypeOK, NoTimeout
  <2>2. TypeOK'
    BY <2>1 DEF PipeInv, TypeOK, Reading, Writing
  <2>3. PlacesOK' /\ QueueOK' /\ Quiet
    BY DEF PipeInv, PlacesOK, QueueOK, Reading, Quiet
  <2> QED
    BY <2>2, <2>3, QuietKeeps
<1>5. ASSUME GivesUp  PROVE PipeInv'
  <2>1. CASE pc = "readSelect" /\ ReadFails /\ UNCHANGED inPipe
    <3> USE <2>1
    <3>1. port = "linux" /\ Taken \in Nat /\ Taken <= Taken /\ Taken <= written /\ inPipe = Part(Taken, written)
      BY Here DEF Holds, PipeInv, PlacesOK
    <3>2. Bytes'
      BY <3>1, Loses
    <3>3. <<>> \in Seq(Nat)
      OBVIOUS
    <3>4. TypeOK'
      BY <3>3 DEF PipeInv, TypeOK, Reading, Writing
    <3>5. PlacesOK' /\ QueueOK'
      BY DEF PipeInv, PlacesOK, QueueOK, Reading
    <3> QED
      BY <3>2, <3>4, <3>5 DEF PipeInv
  <2>2. CASE pc = "writeSelect" /\ WriteFails
    <3> USE <2>2
    <3>1. <<>> \in Seq(Nat) /\ reports' \in Seq(BOOLEAN)
      BY AppendProperties DEF PipeInv, TypeOK
    <3>2. TypeOK'
      BY <3>1 DEF PipeInv, TypeOK, Reading, Writing
    <3>3. PlacesOK' /\ QueueOK' /\ Quiet
      BY DEF PipeInv, PlacesOK, QueueOK, Reading, Quiet
    <3> QED
      BY <3>2, <3>3, QuietKeeps
  <2> QED
    BY <1>5, <2>1, <2>2 DEF GivesUp
<1>6. CASE SelectTimesOut \/ SelectInterrupted
  BY <1>5, <1>6 DEF SelectTimesOut, SelectInterrupted
<1>7. CASE ReadSelected \/ ReadEnd \/ ReadInterrupted
  BY <1>7, GoesStep DEF ReadSelected, ReadEnd, ReadInterrupted, Goes, Place, Reading, PipeInv, PlacesOK
<1>8. CASE ReadChunk
  <2> USE <1>8 DEF ReadChunk
  <2>1. Bytes' /\ byteBuf' \in Seq(Nat) /\ inPipe' \in Seq(Nat) /\ Len(inPipe') <= PipeCap
    BY ReadGoesOn
  <2>2. TypeOK'
    BY <2>1 DEF PipeInv, TypeOK, Reading, Writing
  <2>3. PlacesOK' /\ QueueOK'
    BY DEF PipeInv, PlacesOK, QueueOK, Reading
  <2> QED
    BY <2>1, <2>2, <2>3 DEF PipeInv
<1>9. CASE SplitNothing
  <2> USE <1>9 DEF SplitNothing
  <2>1. TypeOK'
    BY DEF PipeInv, TypeOK, Reading, Writing
  <2>2. PlacesOK' /\ QueueOK' /\ Quiet
    BY DEF PipeInv, PlacesOK, QueueOK, Reading, Quiet
  <2> QED
    BY <2>1, <2>2, QuietKeeps
<1>10. CASE SplitMessages
  <2> USE <1>10 DEF SplitMessages
  <2>1. port # "node" /\ Reading
    BY DEF PipeInv, PlacesOK, Reading
  <2>2. Bytes' /\ got' \in Seq(Seq(Nat)) /\ m_MessageQueue' \in Seq(Seq(Nat))
    BY <2>1, HeldDelivered
  <2>3. byteBuf' = <<>> /\ <<>> \in Seq(Nat) /\ pc' = "idle" /\ outcome' = "returned"
    BY DEF Delivers
  <2>4. TypeOK'
    BY <2>2, <2>3 DEF PipeInv, TypeOK, Reading, Writing
  <2>5. PlacesOK' /\ QueueOK'
    BY <2>3 DEF PipeInv, PlacesOK, QueueOK, Reading
  <2> QED
    BY <2>2, <2>4, <2>5 DEF PipeInv
<1>11. CASE SplitNoMessage
  <2> USE <1>11 DEF SplitNoMessage
  <2>1. port = "linux" /\ Taken \in Nat /\ Taken <= Taken /\ Taken <= written /\ inPipe = Part(Taken, written)
    BY Here DEF Holds, PipeInv, PlacesOK
  <2>2. Bytes'
    BY <2>1, Loses
  <2>3. <<>> \in Seq(Nat)
    OBVIOUS
  <2>4. TypeOK'
    BY <2>3 DEF PipeInv, TypeOK, Reading, Writing
  <2>5. PlacesOK' /\ QueueOK'
    BY DEF PipeInv, PlacesOK, QueueOK, Reading
  <2> QED
    BY <2>2, <2>4, <2>5 DEF PipeInv
<1>12. CASE WriteSelected \/ WriteInterrupted \/ WriteBroken
  BY <1>12, GoesStep DEF WriteSelected, WriteInterrupted, WriteBroken, Goes, Place, Reading, PipeInv, PlacesOK
<1>13. CASE WriteBytes
  <2> USE <1>13 DEF WriteBytes
  <2>1. outPipe' \in Seq(Nat) /\ writeBuf' \in Seq(Nat) /\ Len(outPipe') <= PipeCap
    BY MovesBytesType DEF PipeInv
  <2>2. reports' \in Seq(BOOLEAN)
    BY AppendProperties DEF PipeInv, TypeOK
  <2>3. (pc' = "idle" /\ outcome' = "returned") \/ (pc' = pc /\ outcome' = outcome)
    OBVIOUS
  <2>4. TypeOK'
    BY <2>1, <2>2, <2>3 DEF PipeInv, TypeOK, Reading, Writing
  <2>5. PlacesOK' /\ QueueOK' /\ Quiet
    BY <2>3 DEF PipeInv, PlacesOK, QueueOK, Reading, Quiet
  <2> QED
    BY <2>4, <2>5, QuietKeeps
<1> QED
  BY <1>1, <1>2, <1>3, <1>4, <1>6, <1>7, <1>8, <1>9, <1>10, <1>11, <1>12, <1>13
     DEF LinuxStarts, LinuxStep

LEMMA WindowsStepKeeps == PipeInv /\ (WindowsStarts \/ WindowsStep \/ WindowsWriteGoesOn) => PipeInv'
<1> SUFFICES ASSUME PipeInv, WindowsStarts \/ WindowsStep \/ WindowsWriteGoesOn PROVE PipeInv'
  OBVIOUS
<1> DEFINE Bytes == BytesOK /\ NodeOK /\ PiecesOK
<1> USE DEF program, readVars, timeVars, writeVars, browserVars, Return, Reports, ReadFails, WriteFails
<1> USE DEF LinuxReading, LinuxWriting, WindowsReading, WindowsWriting
<1>1. CASE WindowsLaunch
  <2> USE <1>1 DEF WindowsLaunch
  <2>1. port = "windows"
    BY DEF PipeInv, PlacesOK
  <2>2. alive' \in BOOLEAN
    BY DEF PipeInv, TypeOK
  <2>3. ours' \subseteq Handles
    BY DEF Handles
  <2>4. pc' \in {"closed", "idle"} /\ outcome' = "returned"
    OBVIOUS
  <2>5. TypeOK'
    BY <2>2, <2>3, <2>4 DEF PipeInv, TypeOK
  <2>6. PlacesOK' /\ QueueOK' /\ Quiet
    BY <2>1, <2>4 DEF PipeInv, PlacesOK, QueueOK, Reading, Quiet
  <2> QED
    BY <2>5, <2>6, QuietKeeps
<1>2. CASE WindowsExit
  <2> USE <1>2 DEF WindowsExit
  <2>1. ours' \subseteq Handles /\ alive' \in BOOLEAN
    BY DEF PipeInv, TypeOK
  <2>2. TypeOK'
    BY <2>1 DEF PipeInv, TypeOK
  <2>3. PlacesOK' /\ QueueOK' /\ Quiet
    BY DEF PipeInv, PlacesOK, QueueOK, Reading, Quiet
  <2> QED
    BY <2>2, <2>3, QuietKeeps
<1>3. CASE WindowsReadStarts
  BY <1>3, GoesStep DEF WindowsReadStarts, Place, Goes, Reading, StartsRead
<1>4. ASSUME port = "windows", ReadFails, pc = "idle" \/ Reading,
             NEW b \in Nat, Taken <= b, b <= written, inPipe' = Part(b, written)
      PROVE  PipeInv'
  <2> USE <1>4
  <2>1. Bytes' /\ inPipe' \in Seq(Nat) /\ Len(inPipe') <= PipeCap
    BY Loses
  <2>2. <<>> \in Seq(Nat)
    OBVIOUS
  <2>3. TypeOK'
    BY <2>1, <2>2 DEF PipeInv, TypeOK
  <2>4. PlacesOK' /\ QueueOK'
    BY DEF PipeInv, PlacesOK, QueueOK, Reading
  <2> QED
    BY <2>1, <2>3, <2>4 DEF PipeInv
<1>5. ASSUME port = "windows", ReadFails, pc = "idle" \/ Reading, UNCHANGED inPipe
      PROVE  PipeInv'
  <2>1. Taken \in Nat /\ Taken <= Taken /\ Taken <= written /\ inPipe = Part(Taken, written)
    BY Here DEF Holds, PipeInv
  <2> QED
    BY <1>4, <1>5, <2>1
<1>6. CASE WindowsReadCannot
  BY <1>5, <1>6 DEF WindowsReadCannot, StartsRead
<1>7. CASE WindowsReadBroken
  <2>1. port = "windows" /\ Reading
    BY <1>7 DEF WindowsReadBroken, PipeInv, PlacesOK, Reading
  <2> QED
    BY <1>5, <1>7, <2>1 DEF WindowsReadBroken
<1>8. CASE WindowsReadCancels
  <2> USE <1>8 DEF WindowsReadCancels
  <2>1. PICK n \in 0 .. ChunkLength : inPipe' = SubSeq(inPipe, n + 1, Len(inPipe))
    OBVIOUS
  <2>2. /\ Taken \in Nat /\ written \in Nat /\ Taken <= written /\ inPipe = Part(Taken, written)
        /\ Len(inPipe) = written - Taken /\ written <= Len(Stream)
    BY Here, HoldsFacts DEF Holds, PipeInv
  <2>3. n \in 0 .. written - Taken
    BY <2>2, BufferAssumption DEF ChunkLength
  <2>4. Taken + n \in Nat /\ Taken <= Taken + n /\ Taken + n <= written
    BY <2>2, <2>3
  <2>5. inPipe' = Part(Taken + n, written)
    <3>1. SubSeq(Part(Taken, written), n + 1, written - Taken) = Part(Taken + n, written)
      BY <2>2, <2>3, PartOfPart
    <3> QED
      BY <2>1, <2>2, <3>1
  <2>6. port = "windows" /\ Reading
    BY DEF PipeInv, PlacesOK, Reading
  <2> QED
    BY <1>4, <2>4, <2>5, <2>6
<1>9. CASE WindowsReadChunk
  <2> USE <1>9 DEF WindowsReadChunk
  <2>1. port = "windows" /\ Reading
    BY DEF PipeInv, PlacesOK, Reading
  <2>2. CASE Last(Chunk) = NUL
    <3> USE <2>2
    <3> DEFINE s == Split(byteBuf \o Chunk)
    <3>1. Delivers(s) /\ s = IF port = "node" THEN NodeStrings(byteBuf \o Chunk) ELSE Split(byteBuf \o Chunk)
      BY <2>1
    <3>2. /\ Bytes' /\ inPipe' \in Seq(Nat) /\ Len(inPipe') <= PipeCap
          /\ got' \in Seq(Seq(Nat)) /\ m_MessageQueue' \in Seq(Seq(Nat))
      <4> HIDE DEF s
      <4> QED
        BY <2>1, <3>1, ChunkDelivered
    <3>3. byteBuf' = <<>> /\ <<>> \in Seq(Nat) /\ pc' = "idle" /\ outcome' = "returned"
      BY <3>1 DEF Delivers
    <3>4. TypeOK'
      BY <3>2, <3>3 DEF PipeInv, TypeOK
    <3>5. PlacesOK' /\ QueueOK'
      BY <3>3 DEF PipeInv, PlacesOK, QueueOK, Reading
    <3> QED
      BY <3>2, <3>4, <3>5 DEF PipeInv
  <2>3. CASE Last(Chunk) # NUL
    <3> USE <2>3
    <3>1. Bytes' /\ byteBuf' \in Seq(Nat) /\ inPipe' \in Seq(Nat) /\ Len(inPipe') <= PipeCap
      BY ReadGoesOn
    <3>2. TypeOK'
      BY <3>1 DEF PipeInv, TypeOK, Reading, Writing
    <3>3. PlacesOK' /\ QueueOK'
      BY DEF PipeInv, PlacesOK, QueueOK, Reading
    <3> QED
      BY <3>1, <3>2, <3>3 DEF PipeInv
  <2> QED
    BY <2>2, <2>3
<1>10. CASE WindowsReadTimesOut \/ WindowsWriteTimesOut
  BY <1>10, GoesStep DEF WindowsReadTimesOut, WindowsWriteTimesOut, Goes, Place, Reading, PipeInv, PlacesOK
<1>11. CASE WindowsWriteStarts
  BY <1>11, WriteBeginsStep DEF WindowsWriteStarts, Place
<1>12. CASE WindowsWriteCannot
  <2> USE <1>12 DEF WindowsWriteCannot, StartsWrite
  <2>1. reports' \in Seq(BOOLEAN)
    BY AppendProperties DEF PipeInv, TypeOK
  <2>2. commands' \in 0 .. Len(CommandSize)
    BY SizeAssumption, LenProperties DEF PipeInv, TypeOK
  <2>3. TypeOK'
    BY <2>1, <2>2 DEF PipeInv, TypeOK
  <2>4. PlacesOK' /\ QueueOK' /\ Quiet
    BY DEF PipeInv, PlacesOK, QueueOK, Reading, Quiet
  <2> QED
    BY <2>3, <2>4, QuietKeeps
<1>13. CASE WindowsWriteGoesOn
  <2> USE <1>13 DEF WindowsWriteGoesOn
  <2>1. outPipe' \in Seq(Nat) /\ writeBuf' \in Seq(Nat) /\ Len(outPipe') <= PipeCap
    BY MovesBytesType DEF PipeInv
  <2>2. TypeOK'
    BY <2>1 DEF PipeInv, TypeOK, Reading, Writing
  <2>3. PlacesOK' /\ QueueOK' /\ Quiet
    BY DEF PipeInv, PlacesOK, QueueOK, Reading, Quiet
  <2> QED
    BY <2>2, <2>3, QuietKeeps
<1>14. CASE WindowsWriteCompletes \/ WindowsWriteBroken \/ WindowsWriteCancels
  <2> USE <1>14 DEF WindowsWriteCompletes, WindowsWriteBroken, WindowsWriteCancels
  <2>0. \E value \in BOOLEAN : reports' = Append(reports, value)
    OBVIOUS
  <2>1. <<>> \in Seq(Nat) /\ reports' \in Seq(BOOLEAN)
    BY <2>0, AppendProperties DEF PipeInv, TypeOK
  <2>2. TypeOK'
    BY <2>1 DEF PipeInv, TypeOK
  <2>3. PlacesOK' /\ QueueOK' /\ Quiet
    BY DEF PipeInv, PlacesOK, QueueOK, Reading, Quiet
  <2> QED
    BY <2>2, <2>3, QuietKeeps
<1>15. CASE \E ms \in Settings : WindowsSetTimeout(ms)
  <2>1. PICK ms \in Settings : WindowsSetTimeout(ms)
    BY <1>15
  <2>2. (IF ms = INFINITE THEN NoTimeout ELSE ms) \in Nat \cup {NoTimeout}
    BY ToSecondsType
  <2> QED
    BY <2>1, <2>2, SettingStep DEF WindowsSetTimeout
<1> QED
  BY <1>1, <1>2, <1>3, <1>6, <1>7, <1>8, <1>9, <1>10, <1>11, <1>12, <1>13, <1>14, <1>15
     DEF WindowsStarts, WindowsStep

LEMMA StringsAssociative ==
  \A a, b, c \in Seq(Seq(Nat)) : (a \o b) \o c = a \o (b \o c)
BY ConcatAssociative, SMTT(30)

LEMMA NodeStepKeeps == PipeInv /\ (NodeStarts \/ NodeStep) => PipeInv'
<1> SUFFICES ASSUME PipeInv, NodeStarts \/ NodeStep PROVE PipeInv'
  OBVIOUS
<1> DEFINE Bytes == BytesOK /\ NodeOK /\ PiecesOK
<1> USE DEF program, readVars, timeVars, writeVars, browserVars, Return, Reports, ReadFails, WriteFails
<1> USE DEF LinuxReading, LinuxWriting, WindowsReading, WindowsWriting
<1>1. CASE NodeReadStarts
  BY <1>1, GoesStep DEF NodeReadStarts, Place, Goes, Reading, StartsRead
<1>2. CASE NodeWriteStarts
  BY <1>2, WriteBeginsStep DEF NodeWriteStarts, Place
<1>3. CASE \E ms \in Settings : NodeSetTimeout(ms)
  BY <1>3, SettingStep, ToSecondsType DEF NodeSetTimeout
<1>4. CASE NodeReadChunk
  <2> USE <1>4 DEF NodeReadChunk
  <2>1. port = "node" /\ Reading
    BY DEF PipeInv, PlacesOK, Reading
  <2>2. CASE Last(Chunk) = NUL
    <3> USE <2>2
    <3> DEFINE s == NodeStrings(byteBuf \o Chunk)
    <3>1. Delivers(s) /\ s = IF port = "node" THEN NodeStrings(byteBuf \o Chunk) ELSE Split(byteBuf \o Chunk)
      BY <2>1
    <3>2. /\ Bytes' /\ inPipe' \in Seq(Nat) /\ Len(inPipe') <= PipeCap
          /\ got' \in Seq(Seq(Nat)) /\ m_MessageQueue' \in Seq(Seq(Nat))
      <4> HIDE DEF s
      <4> QED
        BY <2>1, <3>1, ChunkDelivered
    <3>3. byteBuf' = <<>> /\ <<>> \in Seq(Nat) /\ pc' = "idle" /\ outcome' = "returned"
      BY <3>1 DEF Delivers
    <3>4. TypeOK'
      BY <3>2, <3>3 DEF PipeInv, TypeOK
    <3>5. PlacesOK' /\ QueueOK'
      BY <3>3 DEF PipeInv, PlacesOK, QueueOK, Reading
    <3> QED
      BY <3>2, <3>4, <3>5 DEF PipeInv
  <2>3. CASE Last(Chunk) # NUL
    <3> USE <2>3
    <3>1. Bytes' /\ byteBuf' \in Seq(Nat) /\ inPipe' \in Seq(Nat) /\ Len(inPipe') <= PipeCap
      BY ReadGoesOn
    <3>2. TypeOK'
      BY <3>1 DEF PipeInv, TypeOK, Reading, Writing
    <3>3. PlacesOK' /\ QueueOK'
      BY DEF PipeInv, PlacesOK, QueueOK, Reading
    <3> QED
      BY <3>1, <3>2, <3>3 DEF PipeInv
  <2> QED
    BY <2>2, <2>3
<1>5. CASE NodeReadNothing
  <2> USE <1>5 DEF NodeReadNothing, NodeMeetsEnd
  <2>1. UNCHANGED byteBuf /\ byteBuf \in Seq(Nat)
    BY DEF PipeInv, TypeOK
  <2>2. TypeOK'
    BY <2>1 DEF PipeInv, TypeOK
  <2>3. PlacesOK' /\ QueueOK' /\ Quiet
    BY <2>1 DEF PipeInv, PlacesOK, QueueOK, Reading, Quiet
  <2> QED
    BY <2>2, <2>3, QuietKeeps
<1>6. CASE NodeReadThrows
  <2> USE <1>6 DEF NodeReadThrows
  <2> DEFINE s == NodeStrings(byteBuf)
  <2>1. port = "node" /\ NodeMeetsEnd /\ byteBuf # <<>> /\ byteBuf' = <<>>
    BY DEF PipeInv, PlacesOK, NodeMeetsEnd, CutOff
  <2>2. s \in Seq(Seq(Nat)) /\ (got' \o m_MessageQueue' = (got \o m_MessageQueue) \o s => Bytes')
    BY <2>1, NodeMeetsEndWith
  <2> HIDE DEF s
  <2>3. got' = got /\ m_MessageQueue' = m_MessageQueue \o s
    BY DEF s
  <2>4. got \in Seq(Seq(Nat)) /\ m_MessageQueue \in Seq(Seq(Nat)) /\ m_MessageQueue' \in Seq(Seq(Nat))
    BY <2>2, <2>3, ConcatProperties DEF PipeInv, TypeOK
  <2>5. Bytes'
    <3>1. (got \o m_MessageQueue) \o s = got \o (m_MessageQueue \o s)
      BY <2>2, <2>4, StringsAssociative, ZenonT(60)
    <3> QED
      BY <2>2, <2>3, <3>1
  <2>6. <<>> \in Seq(Nat)
    OBVIOUS
  <2>7. TypeOK'
    BY <2>1, <2>4, <2>6 DEF PipeInv, TypeOK
  <2>8. PlacesOK' /\ QueueOK'
    BY <2>1 DEF PipeInv, PlacesOK, QueueOK, Reading
  <2> QED
    BY <2>5, <2>7, <2>8 DEF PipeInv
<1>7. CASE NodeReadRest
  <2> USE <1>7 DEF NodeReadRest
  <2> DEFINE s == NodeStrings(byteBuf)
  <2>1. port = "node" /\ NodeMeetsEnd /\ byteBuf # <<>> /\ byteBuf' = <<>> /\ m_MessageQueue = <<>>
    BY DEF PipeInv, PlacesOK, QueueOK, Reading, NodeMeetsEnd, Delivers
  <2>2. s \in Seq(Seq(Nat)) /\ (got' \o m_MessageQueue' = (got \o m_MessageQueue) \o s => Bytes')
    BY <2>1, NodeMeetsEndWith
  <2>3. /\ got' \in Seq(Seq(Nat)) /\ m_MessageQueue' \in Seq(Seq(Nat))
        /\ got' \o m_MessageQueue' = (got \o m_MessageQueue) \o s
    <3>1. CASE s # <<>>
      <4>1. Delivers(s)
        BY <3>1
      <4> HIDE DEF s
      <4> QED
        BY <2>1, <2>2, <3>1, <4>1, DeliversAll DEF PipeInv
    <3>2. CASE s = <<>>
      <4>1. got' = got /\ m_MessageQueue' = m_MessageQueue
        BY <3>2
      <4>2. got \in Seq(Seq(Nat)) /\ m_MessageQueue \in Seq(Seq(Nat))
        BY DEF PipeInv, TypeOK
      <4>3. got \o m_MessageQueue \in Seq(Seq(Nat))
        BY <4>2, ConcatProperties
      <4> HIDE DEF s
      <4>4. (got \o m_MessageQueue) \o s = got \o m_MessageQueue
        BY <3>2, <4>3, ConcatEmptySeq
      <4> QED
        BY <4>1, <4>2, <4>4
    <3> QED
      BY <3>1, <3>2
  <2>4. <<>> \in Seq(Nat) /\ pc' = "idle" /\ outcome' \in {"returned", "undefined"}
    BY DEF Delivers
  <2>5. TypeOK'
    BY <2>1, <2>3, <2>4 DEF PipeInv, TypeOK
  <2>6. PlacesOK' /\ QueueOK'
    BY <2>1, <2>4 DEF PipeInv, PlacesOK, QueueOK, Reading
  <2> QED
    BY <2>2, <2>3, <2>5, <2>6 DEF PipeInv
<1>8. CASE NodeWriteBytes
  <2> USE <1>8 DEF NodeWriteBytes
  <2>1. outPipe' \in Seq(Nat) /\ writeBuf' \in Seq(Nat) /\ Len(outPipe') <= PipeCap
    BY MovesBytesType DEF PipeInv
  <2>2. reports' \in Seq(BOOLEAN)
    BY AppendProperties DEF PipeInv, TypeOK
  <2>3. (pc' = "idle" /\ outcome' = "returned") \/ (pc' = pc /\ outcome' = outcome)
    OBVIOUS
  <2>4. TypeOK'
    BY <2>1, <2>2, <2>3 DEF PipeInv, TypeOK, Reading, Writing
  <2>5. PlacesOK' /\ QueueOK' /\ Quiet
    BY <2>3 DEF PipeInv, PlacesOK, QueueOK, Reading, Quiet
  <2> QED
    BY <2>4, <2>5, QuietKeeps
<1>9. CASE NodeWriteThrows
  <2> USE <1>9 DEF NodeWriteThrows
  <2>1. <<>> \in Seq(Nat) /\ reports' \in Seq(BOOLEAN)
    BY AppendProperties DEF PipeInv, TypeOK
  <2>2. TypeOK'
    BY <2>1 DEF PipeInv, TypeOK
  <2>3. PlacesOK' /\ QueueOK' /\ Quiet
    BY DEF PipeInv, PlacesOK, QueueOK, Reading, Quiet
  <2> QED
    BY <2>2, <2>3, QuietKeeps
<1> QED
  BY <1>1, <1>2, <1>3, <1>4, <1>5, <1>6, <1>7, <1>8, <1>9 DEF NodeStarts, NodeStep

LEMMA BrowserStepKeeps == PipeInv /\ BrowserStep => PipeInv'
<1> SUFFICES ASSUME PipeInv, BrowserStep PROVE PipeInv'
  OBVIOUS
<1> USE DEF program, readVars, timeVars, writeVars, browserVars
<1>1. CASE BrowserWrites
  <2>1. /\ BytesOK' /\ NodeOK' /\ PiecesOK'
        /\ inPipe' \in Seq(Nat) /\ Len(inPipe') <= PipeCap /\ written' \in 0 .. Len(Stream)
    BY <1>1, BrowserAdds
  <2>2. TypeOK'
    BY <1>1, <2>1 DEF BrowserWrites, PipeInv, TypeOK, Reading, Writing
  <2>3. PlacesOK' /\ QueueOK'
    BY <1>1 DEF BrowserWrites, PipeInv, PlacesOK, QueueOK, Reading
  <2> QED
    BY <2>1, <2>2, <2>3 DEF PipeInv
<1>2. CASE BrowserReads
  <2> USE <1>2 DEF BrowserReads
  <2>1. PICK n \in 1 .. Len(outPipe) :
          heard' = heard \o SubSeq(outPipe, 1, n) /\ outPipe' = SubSeq(outPipe, n + 1, Len(outPipe))
    OBVIOUS
  <2>2. outPipe \in Seq(Nat) /\ heard \in Seq(Nat) /\ Len(outPipe) \in Nat /\ Len(outPipe) <= PipeCap
        /\ PipeCap \in Nat
    BY BufferAssumption, LenProperties DEF PipeInv, TypeOK
  <2>3. SubSeq(outPipe, 1, n) \in Seq(Nat) /\ outPipe' \in Seq(Nat) /\ Len(outPipe') = Len(outPipe) - n
    <3>1. n \in 0 .. Len(outPipe)
      BY <2>2
    <3> QED
      BY <2>1, <2>2, <3>1, CutInTwo
  <2>4. heard' \in Seq(Nat)
    BY <2>1, <2>2, <2>3, ConcatProperties
  <2>4a. Len(outPipe') <= PipeCap
    BY <2>2, <2>3
  <2>5. TypeOK'
    BY <2>3, <2>4, <2>4a DEF PipeInv, TypeOK, Reading, Writing
  <2>6. PlacesOK' /\ QueueOK' /\ Quiet
    BY DEF PipeInv, PlacesOK, QueueOK, Reading, Quiet
  <2> QED
    BY <2>5, <2>6, QuietKeeps
<1>3. CASE BrowserDies
  <2> USE <1>3 DEF BrowserDies
  <2>1. TypeOK'
    BY DEF PipeInv, TypeOK, Reading, Writing
  <2>2. PlacesOK' /\ QueueOK' /\ Quiet
    BY DEF PipeInv, PlacesOK, QueueOK, Reading, Quiet
  <2> QED
    BY <2>1, <2>2, QuietKeeps
<1> QED
  BY <1>1, <1>2, <1>3 DEF BrowserStep

LEMMA QueueStepKeeps == PipeInv /\ ReadFromQueue => PipeInv'
<1> SUFFICES ASSUME PipeInv, ReadFromQueue PROVE PipeInv'
  OBVIOUS
<1> USE DEF ReadFromQueue, program, readVars, timeVars, writeVars, browserVars, Return
<1> DEFINE q == m_MessageQueue
<1>1. got \in Seq(Seq(Nat)) /\ q \in Seq(Seq(Nat)) /\ q # <<>>
  BY DEF PipeInv, TypeOK
<1> HIDE DEF q
<1>2. Head(q) \in Seq(Nat) /\ Tail(q) \in Seq(Seq(Nat)) /\ Len(q) > 0 /\ Len(q) \in Nat
  BY <1>1, HeadTailProperties, EmptySeq, LenProperties
<1>3. got' = Append(got, Head(q)) /\ m_MessageQueue' = Tail(q)
  BY DEF q
<1>4. got' = got \o <<Head(q)>> /\ <<Head(q)>> \in Seq(Seq(Nat)) /\ got' \in Seq(Seq(Nat))
  BY <1>1, <1>2, <1>3, AppendIsConcat, AppendProperties
<1>5. q = <<Head(q)>> \o Tail(q)
  <2>1. 1 \in 1 .. Len(q) /\ Len(q) \in 1 .. Len(q)
    BY <1>2
  <2>2. SubSeq(q, 1, Len(q)) = <<q[1]>> \o SubSeq(q, 1 + 1, Len(q))
    BY <1>1, <2>1, SubSeqRecursiveFirst
  <2>3. SubSeq(q, 1, Len(q)) = q /\ Tail(q) = SubSeq(q, 2, Len(q)) /\ Head(q) = q[1]
    BY <1>1, SubSeqFull, TailIsSubSeq
  <2> QED
    BY <2>2, <2>3
<1>6. (got \o <<Head(q)>>) \o Tail(q) = got \o (<<Head(q)>> \o Tail(q))
  BY <1>1, <1>2, <1>4, StringsAssociative
<1>7. got' \o m_MessageQueue' = got \o m_MessageQueue
  BY <1>3, <1>4, <1>5, <1>6 DEF q
<1>8. TypeOK'
  BY <1>2, <1>3, <1>4 DEF PipeInv, TypeOK
<1>9. PlacesOK' /\ QueueOK'
  BY DEF PipeInv, PlacesOK, QueueOK, Reading, LinuxReading, LinuxWriting, WindowsReading, WindowsWriting
<1>10. BytesOK' /\ NodeOK' /\ PiecesOK'
  BY <1>7, BytesKept
<1> QED
  BY <1>8, <1>9, <1>10 DEF PipeInv

LEMMA PipeInvStep == PipeInv /\ [Next]_vars => PipeInv'
<1> SUFFICES ASSUME PipeInv, [Next]_vars PROVE PipeInv'
  OBVIOUS
<1>1. CASE Next
  BY <1>1, QueueStepKeeps, LinuxStepKeeps, WindowsStepKeeps, NodeStepKeeps, BrowserStepKeeps
     DEF Next, StartCall, CallStep
<1>2. CASE UNCHANGED vars
  <2> USE <1>2 DEF vars, program, readVars, timeVars, writeVars, browserVars
  <2>1. TypeOK'
    BY DEF PipeInv, TypeOK, Reading, Writing
  <2>2. PlacesOK' /\ QueueOK' /\ Quiet
    BY DEF PipeInv, PlacesOK, QueueOK, Reading, Quiet
  <2> QED
    BY <2>1, <2>2, QuietKeeps
<1> QED
  BY <1>1, <1>2

-----------------------------------------------------------------------------
(* Theorems about reading. *)

THEOREM PipeInvHolds == Spec => []PipeInv
<1> QED
  BY PipeInvInit, PipeInvStep, PTL DEF Spec

(* Every value has its type: in particular Read never returns the head of no strings
   when a chunk ends with a NUL, and a queue or a pipe never holds more than it can. *)
THEOREM PipesTypeCorrect == Spec => []TypeOK
<1>1. PipeInv => TypeOK
  BY DEF PipeInv
<1> QED
  BY <1>1, PipeInvHolds, PTL

(* What Read returns is never glued, repeated or out of order: whatever sizes the
   messages, the reads and the pipe have, and whenever time-outs, signals, failing
   handles and the browser's death come. *)
THEOREM NeverGlued == Spec => []MessagesNeverGlued
<1>1. PipeInv => MessagesNeverGlued
  <2> SUFFICES ASSUME PipeInv PROVE MessagesNeverGlued
    OBVIOUS
  <2> DEFINE strings == got \o m_MessageQueue
  <2>1. PICK from \in [DOMAIN strings -> 1 .. Messages] : InOrder(strings, from, LastSplit)
    BY DEF PipeInv, PiecesOK
  <2>2. DOMAIN MessageSize = 1 .. Messages
    BY MessageSizes
  <2>3. \A i \in DOMAIN strings : IsSuffix(strings[i], Payload(from[i]))
    BY <2>1, PieceIsSuffix DEF InOrder
  <2>4. \A i, j \in DOMAIN strings : i < j => from[i] < from[j]
    BY <2>1 DEF InOrder
  <2> QED
    BY <2>1, <2>2, <2>3, <2>4 DEF MessagesNeverGlued
<1> QED
  BY <1>1, PipeInvHolds, PTL
=============================================================================
