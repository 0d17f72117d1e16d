-------------------------- MODULE MainSocket_proofs --------------------------
(***************************************************************************)
(* Proofs about MainSocket and the frames it sends and reads: first what   *)
(* the parser of getFrameBodyVector makes of a frame, then what the stream *)
(* from the browser holds at each step of takeScreenshot.                  *)
(***************************************************************************)
EXTENDS MainSocket, SequenceLemmas

-----------------------------------------------------------------------------
(* The widths. *)

LEMMA Widths ==
  /\ Base \in Nat /\ Base >= 8 /\ Base <= 256 /\ Bit \in Nat /\ 2 * Bit = Base
  /\ Short = Bit - 2 /\ Long = Bit - 1 /\ TextFrame = Bit + 1 /\ TextFrame \in Byte /\ Short \in Nat
  /\ ShortBytes \in Nat /\ ShortBytes >= 1 /\ LongBytes \in Nat /\ ShortBytes <= LongBytes
BY WidthAssumption DEF Bit, Short, Long, TextFrame, Byte

LEMMA TextBytes == Short \in Nat /\ Short > 6 /\ 0 \in Byte /\ \A m \in Messages : m \in Byte /\ m < Short
BY Widths, SocketAssumption DEF Messages, Capture, Byte

LEMMA PowerExists == \E f : f = [k \in 0 .. LongBytes |-> IF k = 0 THEN 1 ELSE Base * f[k - 1]]
<1> DEFINE Value(f, k) == IF k = 0 THEN 1 ELSE Base * f[k - 1]
           S == {n \in Nat : \E f : f = [k \in 0 .. n |-> Value(f, k)]}
<1>1. 0 \in S
  <2> DEFINE f == [k \in 0 .. 0 |-> 1]
  <2>1. f = [k \in 0 .. 0 |-> Value(f, k)]
    OBVIOUS
  <2> QED
    BY <2>1
<1>2. ASSUME NEW n \in Nat, n \in S  PROVE n + 1 \in S
  <2>1. PICK f : f = [k \in 0 .. n |-> Value(f, k)]
    BY <1>2
  <2> DEFINE g == [k \in 0 .. n + 1 |-> IF k = n + 1 THEN Value(f, k) ELSE f[k]]
  <2>2. \A k \in 0 .. n + 1 : g[k] = Value(g, k)
    <3> SUFFICES ASSUME NEW k \in 0 .. n + 1 PROVE g[k] = Value(g, k)
      OBVIOUS
    <3>1. g[k] = Value(f, k)
      <4>1. CASE k = n + 1
        BY <4>1
      <4>2. CASE k \in 0 .. n
        <5>1. g[k] = f[k]
          BY <4>2
        <5>2. f[k] = Value(f, k)
          <6> HIDE DEF Value
          <6> QED
            BY <2>1, <4>2
        <5> QED
          BY <5>1, <5>2
      <4> QED
        BY <4>1, <4>2
    <3>2. k # 0 => g[k - 1] = f[k - 1]
      OBVIOUS
    <3> QED
      BY <3>1, <3>2
  <2>3. g = [k \in 0 .. n + 1 |-> Value(g, k)]
    <3>1. g = [k \in 0 .. n + 1 |-> g[k]]
      OBVIOUS
    <3> HIDE DEF g, Value
    <3> QED
      BY <2>2, <3>1
  <2> QED
    <3> HIDE DEF g
    <3> QED
      BY <2>3
<1>3. LongBytes \in S
  <2> HIDE DEF S
  <2> QED
    BY <1>1, <1>2, Induction, Widths
<1> QED
  BY <1>3

LEMMA PowerIs ==
  /\ Power[0] = 1
  /\ \A k \in 0 .. LongBytes : Power[k] \in Nat /\ Power[k] > 0
  /\ \A k \in Nat : k < LongBytes => Power[k + 1] = Base * Power[k]
<1>1. Power = [k \in 0 .. LongBytes |-> IF k = 0 THEN 1 ELSE Base * Power[k - 1]]
  BY PowerExists DEF Power
<1>2. \A k \in 0 .. LongBytes : Power[k] = IF k = 0 THEN 1 ELSE Base * Power[k - 1]
  BY <1>1
<1>3. Power[0] = 1 /\ \A k \in Nat : k < LongBytes => Power[k + 1] = Base * Power[k]
  <2>1. Power[0] = 1
    BY <1>2, Widths
  <2>2. ASSUME NEW k \in Nat, k < LongBytes PROVE Power[k + 1] = Base * Power[k]
    <3>1. k + 1 \in 0 .. LongBytes /\ k + 1 # 0 /\ (k + 1) - 1 = k
      BY <2>2, Widths
    <3> QED
      BY <1>2, <3>1
  <2> QED
    BY <2>1, <2>2
<1> DEFINE S == {k \in Nat : k <= LongBytes => Power[k] \in Nat /\ Power[k] > 0}
<1>4. 0 \in S
  BY <1>3
<1>5. ASSUME NEW k \in Nat, k \in S PROVE k + 1 \in S
  <2> SUFFICES ASSUME k + 1 <= LongBytes PROVE Power[k + 1] \in Nat /\ Power[k + 1] > 0
    OBVIOUS
  <2>1. Power[k] \in Nat /\ Power[k] > 0 /\ Power[k + 1] = Base * Power[k]
    BY <1>3, <1>5, Widths
  <2>2. \A a, b \in Nat : a > 0 /\ b > 0 => a * b \in Nat /\ a * b > 0
    OBVIOUS
  <2> QED
    BY <2>1, <2>2, Widths
<1>6. \A k \in Nat : k \in S
  <2> HIDE DEF S
  <2> QED
    BY <1>4, <1>5, Induction
<1> QED
  BY <1>3, <1>6

\* A number's digits, read one after the other.
LEMMA DivideTwice ==
  ASSUME NEW n \in Nat, NEW p \in Nat, NEW b \in Nat, p > 0, b > 0
  PROVE  /\ n \div p \in Nat
         /\ (n \div (b * p)) * b + ((n \div p) % b) = n \div p
<1> DEFINE q == n \div p
           r == n % p
           a == q \div b
           c == q % b
<1>1. q \in Nat /\ r \in 0 .. p - 1 /\ n = q * p + r
  OBVIOUS
<1>2. a \in Nat /\ c \in 0 .. b - 1 /\ q = a * b + c
  BY <1>1
<1> HIDE DEF q, r, a, c
<1>3. n = a * (b * p) + (c * p + r)
  BY <1>1, <1>2
<1>4. c * p + r \in Nat /\ c * p + r < b * p
  <2>1. c <= b - 1 /\ c \in Nat /\ r \in Nat /\ r < p
    BY <1>1, <1>2
  <2>2. c * p <= (b - 1) * p /\ c * p \in Nat
    BY <2>1
  <2>3. (b - 1) * p = b * p - p
    OBVIOUS
  <2> QED
    BY <2>1, <2>2, <2>3
<1>5. b * p \in Nat /\ b * p > 0
  OBVIOUS
<1>6. n \div (b * p) = a
  <2>1. \A d \in Nat, x \in Nat, y \in Nat : d > 0 /\ y < d => (x * d + y) \div d = x
    OBVIOUS
  <2> QED
    BY <1>2, <1>3, <1>4, <1>5, <2>1
<1> QED
  BY <1>1, <1>2, <1>6 DEF q, c

-----------------------------------------------------------------------------
(* LengthBytes: one byte, or a mark and the digits. *)

\* The bytes that the length takes after the header's two.
Extra(n) == Len(LengthBytes(n)) - 1

LEMMA LengthBytesIs ==
  ASSUME NEW n \in Nat, n < Power[LongBytes]
  PROVE  /\ LengthBytes(n) \in Seq(Byte) /\ Len(LengthBytes(n)) = 1 + Extra(n)
         /\ Extra(n) \in 0 .. LongBytes /\ LengthBytes(n)[1] \in Nat /\ LengthBytes(n)[1] < Bit
         /\ n < Short => Extra(n) = 0 /\ LengthBytes(n)[1] = n
         /\ n >= Short => /\ Extra(n) = IF n <= MaxShort THEN ShortBytes ELSE LongBytes
                          /\ LengthBytes(n)[1] = IF n <= MaxShort THEN Short ELSE Long
                          /\ Extra(n) > 0 /\ n < Power[Extra(n)]
                          /\ \A i \in 1 .. Extra(n) :
                               LengthBytes(n)[1 + i] = (n \div Power[Extra(n) - i]) % Base
<1> DEFINE w == IF n < Short THEN 0 ELSE IF n <= MaxShort THEN ShortBytes ELSE LongBytes
           mark == IF n < Short THEN n ELSE IF n <= MaxShort THEN Short ELSE Long
           D == Digits(n, w)
           B == LengthBytes(n)
           e == Extra(n)
<1>1. w \in 0 .. LongBytes /\ mark \in Byte /\ mark < Bit
  BY Widths DEF Byte
<1>2. n >= Short => w > 0 /\ n < Power[w]
  BY Widths, PowerIs DEF MaxShort
<1>3. \A i \in 1 .. w : (n \div Power[w - i]) % Base \in Byte
  <2> SUFFICES ASSUME NEW i \in 1 .. w PROVE (n \div Power[w - i]) % Base \in Byte
    OBVIOUS
  <2>1. w - i \in 0 .. LongBytes
    BY <1>1, Widths
  <2>2. Power[w - i] \in Nat /\ Power[w - i] > 0
    BY <2>1, PowerIs
  <2>3. n \div Power[w - i] \in Nat
    BY <2>2
  <2> QED
    BY <2>3, Widths DEF Byte
<1>4. D \in Seq(Byte) /\ Len(D) = w /\ \A i \in 1 .. w : D[i] = (n \div Power[w - i]) % Base
  BY <1>1, <1>3 DEF Digits
<1>5. n >= Short => B = <<mark>> \o D
  BY Widths DEF LengthBytes
<1>6. n < Short => B = <<mark>> /\ w = 0
  BY Widths DEF LengthBytes
<1>e. e = Len(B) - 1
  BY DEF Extra
<1> HIDE DEF D, B, e
<1>7. B \in Seq(Byte) /\ Len(B) = 1 + w /\ B[1] = mark
  <2> HIDE DEF mark, w
  <2>1. CASE n < Short
    <3>1. B = <<mark>> /\ w = 0 /\ mark \in Byte
      BY <1>1, <1>6, <2>1
    <3>2. <<mark>> \in Seq(Byte) /\ Len(<<mark>>) = 1 /\ <<mark>>[1] = mark
      BY <3>1
    <3> QED
      BY <3>1, <3>2
  <2>2. CASE n >= Short
    <3>1. B = <<mark>> \o D /\ <<mark>> \in Seq(Byte) /\ Len(<<mark>>) = 1 /\ <<mark>>[1] = mark
      BY <1>1, <1>5, <2>2
    <3>2. Len(D) = w /\ w \in Nat /\ D \in Seq(Byte)
      BY <1>1, <1>4, Widths
    <3> QED
      BY <3>1, <3>2, ConcatProperties
  <2> QED
    BY <2>1, <2>2, Widths
<1>8. n >= Short => \A i \in 1 .. w : B[1 + i] = D[i]
  <2> SUFFICES ASSUME n >= Short, NEW i \in 1 .. w PROVE B[1 + i] = D[i]
    OBVIOUS
  <2>1. B = <<mark>> \o D
    BY <1>5
  <2> HIDE DEF mark, w
  <2>2. (<<mark>> \o D)[1 + i] = D[i]
    BY <1>1, <1>4
  <2> QED
    BY <2>1, <2>2
<1>9. e = w
  <2> HIDE DEF w
  <2> QED
    BY <1>1, <1>7, <1>e, Widths
<1> QED
  <2>1. B[1] \in Nat /\ B[1] < Bit /\ B[1] = mark
    BY <1>1, <1>7 DEF Byte
  <2>2. n >= Short => \A i \in 1 .. e : B[1 + i] = (n \div Power[e - i]) % Base
    <3> HIDE DEF w
    <3> QED
      BY <1>4, <1>8, <1>9
  <2>3. B \in Seq(Byte) /\ Len(B) = 1 + e /\ e \in 0 .. LongBytes
    <3> HIDE DEF w
    <3> QED
      BY <1>1, <1>7, <1>9
  <2>4. n < Short => e = 0 /\ B[1] = n
    BY <1>6, <1>9, <2>1
  <2>5. n >= Short => /\ e = IF n <= MaxShort THEN ShortBytes ELSE LongBytes
                      /\ B[1] = IF n <= MaxShort THEN Short ELSE Long
                      /\ e > 0 /\ n < Power[e]
    BY <1>2, <1>9, <2>1, Widths
  <2> QED
    BY <2>1, <2>2, <2>3, <2>4, <2>5 DEF B, e

-----------------------------------------------------------------------------
(* The parser, one byte at a time. *)

\* What holds of the parser between two bytes.
Sound(P) ==
  /\ P \in Parser
  /\ P.state = "length" => P.require > 0
  /\ P.state = "mask" => P.require \in 1 .. 4 /\ Len(P.mask) = 4 - P.require
  /\ P.state = "body" => /\ P.require > 0 /\ Len(P.body) = P.length - P.require
                         /\ P.masked => Len(P.mask) = 4
  /\ P.state # "body" => P.body = <<>>

LEMMA XorType == \A a, b \in Nat : Xor(a, b) \in Nat
<1> SUFFICES ASSUME NEW a \in Nat, NEW b \in Nat PROVE Xor(a, b) \in Nat
  OBVIOUS
<1>1. \A w \in Nat : w > 0 => w * ((a \div w + b \div w) % 2) \in Nat
  <2> SUFFICES ASSUME NEW w \in Nat, w > 0 PROVE w * ((a \div w + b \div w) % 2) \in Nat
    OBVIOUS
  <2>1. (a \div w + b \div w) % 2 \in Nat
    OBVIOUS
  <2> QED
    BY <2>1
<1>2. \A p, q \in Nat : p + q \in Nat
  OBVIOUS
<1> QED
  BY <1>1, <1>2, SMTT(30) DEF Xor

LEMMA XorZero == \A a \in Byte : Xor(a, 0) = a
<1> SUFFICES ASSUME NEW a \in Byte PROVE Xor(a, 0) = a
  OBVIOUS
<1>1. a \in Nat /\ a < 256
  BY Widths DEF Byte
<1>2. /\ a = 2 * (a \div 2) + (a % 2)
      /\ a \div 2 = 2 * (a \div 4) + ((a \div 2) % 2)
      /\ a \div 4 = 2 * (a \div 8) + ((a \div 4) % 2)
      /\ a \div 8 = 2 * (a \div 16) + ((a \div 8) % 2)
      /\ a \div 16 = 2 * (a \div 32) + ((a \div 16) % 2)
      /\ a \div 32 = 2 * (a \div 64) + ((a \div 32) % 2)
      /\ a \div 64 = 2 * (a \div 128) + ((a \div 64) % 2)
      /\ (a \div 128) % 2 = a \div 128
  BY <1>1
<1>3. /\ a \div 1 = a /\ 0 \div 1 = 0 /\ 0 \div 2 = 0 /\ 0 \div 4 = 0 /\ 0 \div 8 = 0 /\ 0 \div 16 = 0
      /\ 0 \div 32 = 0 /\ 0 \div 64 = 0 /\ 0 \div 128 = 0
  BY <1>1
<1> QED
  BY <1>1, <1>2, <1>3, SMTT(30) DEF Xor

LEMMA UnmaskType ==
  ASSUME NEW data \in Seq(Nat), NEW mask \in Seq(Nat), Len(mask) = 4
  PROVE  Unmask(data, mask) \in Seq(Nat) /\ Len(Unmask(data, mask)) = Len(data)
<1>1. \A i \in 1 .. Len(data) : ((i - 1) % 4) + 1 \in 1 .. 4 /\ data[i] \in Nat
  OBVIOUS
<1>2. \A i \in 1 .. Len(data) : Xor(data[i], mask[((i - 1) % 4) + 1]) \in Nat
  <2>1. \A i \in 1 .. 4 : mask[i] \in Nat
    BY ElementOfSeq
  <2> QED
    BY <1>1, <2>1, XorType
<1>3. Unmask(data, mask) = [i \in 1 .. Len(data) |-> Xor(data[i], mask[((i - 1) % 4) + 1])]
  BY LenProperties DEF Unmask
<1> DEFINE f == [i \in 1 .. Len(data) |-> Xor(data[i], mask[((i - 1) % 4) + 1])]
<1>4. f \in [1 .. Len(data) -> Nat] /\ Len(data) \in Nat
  BY <1>2, LenProperties
<1> HIDE DEF f
<1>5. f \in Seq(Nat) /\ Len(f) = Len(data)
  <2>1. \A n \in Nat : \A g \in [1 .. n -> Nat] : g \in Seq(Nat) /\ Len(g) = n
    OBVIOUS
  <2> QED
    BY <1>4, <2>1
<1> QED
  BY <1>3, <1>5 DEF f

LEMMA UnmaskZero ==
  ASSUME NEW data \in Seq(Byte), NEW mask, \A i \in 1 .. 4 : mask[i] = 0
  PROVE  Unmask(data, mask) = data
<1>1. \A i \in 1 .. Len(data) : ((i - 1) % 4) + 1 \in 1 .. 4 /\ data[i] \in Byte
  OBVIOUS
<1>2. \A i \in DOMAIN data : Xor(data[i], mask[((i - 1) % 4) + 1]) = data[i]
  BY <1>1, XorZero, LenProperties
<1> DEFINE value(i) == Xor(data[i], mask[((i - 1) % 4) + 1])
<1>3. data = [i \in DOMAIN data |-> data[i]]
  OBVIOUS
<1> HIDE DEF value
<1>4. [i \in DOMAIN data |-> value(i)] = [i \in DOMAIN data |-> data[i]]
  BY <1>2 DEF value
<1> QED
  BY <1>3, <1>4 DEF Unmask, value

LEMMA TakeByteIs ==
  ASSUME NEW P \in Parser, NEW b
  PROVE  TakeByte(b)[P] = CASE P.state = "start"  -> [P EXCEPT !.state = "head"]
                            [] P.state = "head"   -> TakeHead(P, b)
                            [] P.state = "length" -> TakeLength(P, b)
                            [] P.state = "mask"   -> TakeMask(P, b)
                            [] P.state = "body"   -> TakeBody(P, b)
BY DEF TakeByte

LEMMA ParserFields ==
  ASSUME NEW P \in Parser
  PROVE  /\ P.state \in {"start", "head", "length", "mask", "body"} /\ P.masked \in BOOLEAN
         /\ P.mask \in Seq(Nat) /\ P.length \in Nat /\ P.require \in Nat
         /\ P.body \in Seq(Nat) /\ P.bodies \in Seq(Seq(Nat))
BY DEF Parser

LEMMA Empties == <<>> \in Seq(Nat) /\ <<>> \in Seq(Seq(Nat)) /\ Len(<<>>) = 0
OBVIOUS

LEMMA NewIsSound == Sound(NewParser) /\ NewParser.state = "start" /\ NewParser.bodies = <<>>
BY Empties DEF Sound, NewParser, Parser

\* What comes after the length, with the mask there is or is not.
LEMMA LengthKnownIs ==
  ASSUME NEW P \in Parser, P.body = <<>>, NEW Q, Q = LengthKnown(P)
  PROVE  /\ Sound(Q) /\ Q.masked = P.masked /\ Q.length = P.length
         /\ Q.body = <<>> /\ Q.bodies = P.bodies
         /\ P.masked => Q.state = "mask" /\ Q.require = 4 /\ Q.mask = <<>>
         /\ ~P.masked /\ P.length > 0 => Q.state = "body" /\ Q.require = P.length
         /\ ~P.masked /\ P.length = 0 => Q.state = "start"
<1>1. P.length \in Nat /\ P.masked \in BOOLEAN
  BY ParserFields
<1>2. CASE P.masked
  <2>1. Q = [P EXCEPT !.state = "mask", !.require = 4, !.mask = <<>>]
    BY <1>2 DEF LengthKnown
  <2>2. /\ Q \in Parser /\ Q.masked = P.masked /\ Q.length = P.length /\ Q.body = P.body
        /\ Q.bodies = P.bodies /\ Q.state = "mask" /\ Q.require = 4 /\ Q.mask = <<>>
    <3>1. Q \in Parser
      <4>1. <<>> \in Seq(Nat) /\ 4 \in Nat
        OBVIOUS
      <4> QED
        BY <2>1, <4>1 DEF Parser
    <3>2. Q.masked = P.masked /\ Q.length = P.length /\ Q.body = P.body /\ Q.bodies = P.bodies
      BY <2>1 DEF Parser
    <3>3. Q.state = "mask" /\ Q.require = 4 /\ Q.mask = <<>>
      BY <2>1 DEF Parser
    <3> QED
      BY <3>1, <3>2, <3>3
  <2>3. Sound(Q)
    BY <2>2, Empties DEF Sound
  <2> QED
    BY <1>2, <2>2, <2>3
<1>3. CASE ~P.masked /\ P.length > 0
  <2>1. Q = [P EXCEPT !.state = "body", !.require = P.length]
    BY <1>3 DEF LengthKnown, BodyComes
  <2>2. /\ Q \in Parser /\ Q.masked = P.masked /\ Q.length = P.length /\ Q.body = P.body
        /\ Q.bodies = P.bodies /\ Q.state = "body" /\ Q.require = P.length
    BY <1>1, <2>1 DEF Parser
  <2>3. Sound(Q)
    BY <1>1, <1>3, <2>2, Empties DEF Sound
  <2> QED
    BY <1>3, <2>2, <2>3
<1>4. CASE ~P.masked /\ P.length = 0
  <2>1. Q = [P EXCEPT !.state = "start"]
    BY <1>4 DEF LengthKnown, BodyComes
  <2>2. /\ Q \in Parser /\ Q.masked = P.masked /\ Q.length = P.length /\ Q.body = P.body
        /\ Q.bodies = P.bodies /\ Q.state = "start"
    BY <2>1 DEF Parser
  <2>3. Sound(Q)
    BY <2>2 DEF Sound
  <2> QED
    BY <1>4, <2>2, <2>3
<1> QED
  BY <1>1, <1>2, <1>3, <1>4

LEMMA TakeStartIs ==
  ASSUME NEW P, Sound(P), P.state = "start", NEW b \in Byte, NEW Q, Q = TakeByte(b)[P]
  PROVE  Sound(Q) /\ Q.state = "head" /\ Q.body = <<>> /\ Q.bodies = P.bodies
<1>1. P \in Parser /\ P.body = <<>>
  BY DEF Sound
<1>2. Q = [P EXCEPT !.state = "head"]
  BY <1>1, TakeByteIs
<1>3. Q \in Parser /\ Q.state = "head" /\ Q.body = P.body /\ Q.bodies = P.bodies
  BY <1>1, <1>2 DEF Parser
<1> QED
  BY <1>1, <1>3 DEF Sound

LEMMA TakeHeadIs ==
  ASSUME NEW P, Sound(P), P.state = "head", NEW b \in Byte, NEW Q, Q = TakeByte(b)[P],
         NEW l, l = b % Bit
  PROVE  /\ Sound(Q) /\ l \in Nat /\ Q.masked = (b >= Bit) /\ Q.body = <<>> /\ Q.bodies = P.bodies
         /\ l >= Short => /\ Q.state = "length" /\ Q.length = 0
                          /\ Q.require = IF l = Long THEN LongBytes ELSE ShortBytes
         /\ l < Short => /\ Q.length = l
                         /\ b >= Bit => Q.state = "mask" /\ Q.require = 4 /\ Q.mask = <<>>
                         /\ b < Bit /\ l > 0 => Q.state = "body" /\ Q.require = l
                         /\ b < Bit /\ l = 0 => Q.state = "start"
<1> DEFINE x == (b >= Bit)
           R == [P EXCEPT !.masked = x]
<1>1. P \in Parser /\ P.body = <<>>
  BY DEF Sound
<1>2. l \in Nat /\ b \in Nat /\ x \in BOOLEAN
  BY Widths DEF Byte
<1>3. Q = TakeHead(P, b)
  BY <1>1, TakeByteIs
<1>4. Q = IF l >= Short
          THEN [R EXCEPT !.length = 0, !.state = "length",
                         !.require = IF l = Long THEN LongBytes ELSE ShortBytes]
          ELSE LengthKnown([R EXCEPT !.length = l])
  BY <1>3 DEF TakeHead
<1>5. x <=> b >= Bit
  OBVIOUS
<1> HIDE DEF x
<1>6. R \in Parser /\ R.masked = x /\ R.body = P.body /\ R.bodies = P.bodies
  BY <1>1, <1>2 DEF Parser
<1> HIDE DEF R
<1>7. CASE l >= Short
  <2> DEFINE r == IF l = Long THEN LongBytes ELSE ShortBytes
  <2>1. Q = [R EXCEPT !.length = 0, !.state = "length", !.require = r]
    BY <1>4, <1>7
  <2>2. r \in Nat /\ r > 0
    BY Widths
  <2> HIDE DEF r
  <2>3. /\ Q \in Parser /\ Q.masked = x /\ Q.body = P.body /\ Q.bodies = P.bodies
        /\ Q.state = "length" /\ Q.length = 0 /\ Q.require = r
    <3>1. Q \in Parser
      <4>1. R \in Parser /\ 0 \in Nat /\ r \in Nat
        BY <1>6, <2>2
      <4> QED
        BY <2>1, <4>1 DEF Parser
    <3>2. Q.masked = R.masked /\ Q.body = R.body /\ Q.bodies = R.bodies /\ Q.state = "length" /\ Q.length = 0
      BY <1>6, <2>1 DEF Parser
    <3>3. Q.require = r
      BY <1>6, <2>1 DEF Parser
    <3> QED
      BY <1>6, <3>1, <3>2, <3>3
  <2>4. Sound(Q)
    BY <1>1, <2>2, <2>3 DEF Sound
  <2>5. ~(l < Short)
    BY <1>2, <1>7, Widths
  <2> QED
    BY <1>1, <1>2, <1>7, <2>3, <2>4, <2>5 DEF r, x
<1>8. CASE l < Short
  <2> DEFINE T == [R EXCEPT !.length = l]
  <2>1. Q = LengthKnown(T)
    BY <1>2, <1>4, <1>8, Widths
  <2>2. T \in Parser /\ T.masked = x /\ T.body = P.body /\ T.bodies = P.bodies /\ T.length = l
    BY <1>2, <1>6 DEF Parser
  <2> HIDE DEF T
  <2>3. /\ Sound(Q) /\ Q.masked = x /\ Q.length = l
        /\ Q.body = <<>> /\ Q.bodies = P.bodies
        /\ x => Q.state = "mask" /\ Q.require = 4 /\ Q.mask = <<>>
        /\ ~x /\ l > 0 => Q.state = "body" /\ Q.require = l
        /\ ~x /\ l = 0 => Q.state = "start"
    BY <1>1, <2>1, <2>2, LengthKnownIs
  <2>4. ~(l >= Short) /\ (b < Bit => ~x)
    BY <1>2, <1>5, <1>8, Widths
  <2> QED
    BY <1>2, <1>5, <1>8, <2>3, <2>4 DEF x
<1> QED
  BY <1>2, <1>7, <1>8, Widths

LEMMA TakeLengthIs ==
  ASSUME NEW P, Sound(P), P.state = "length", NEW b \in Byte, NEW Q, Q = TakeByte(b)[P]
  PROVE  /\ Sound(Q) /\ Q.masked = P.masked /\ Q.body = <<>> /\ Q.bodies = P.bodies
         /\ Q.length = P.length * Base + b
         /\ P.require > 1 => Q.state = "length" /\ Q.require = P.require - 1
         /\ P.require = 1 =>
              /\ P.masked => Q.state = "mask" /\ Q.require = 4 /\ Q.mask = <<>>
              /\ ~P.masked /\ Q.length > 0 => Q.state = "body" /\ Q.require = Q.length
              /\ ~P.masked /\ Q.length = 0 => Q.state = "start"
<1> DEFINE n == P.length * Base + b
           r == P.require - 1
           R == [P EXCEPT !.length = n, !.require = r]
<1>1. P \in Parser /\ P.require \in Nat /\ P.require > 0 /\ P.length \in Nat /\ P.body = <<>>
  BY DEF Sound, Parser
<1>2. Q = IF R.require = 0 THEN LengthKnown(R) ELSE R
  BY <1>1, TakeByteIs DEF TakeLength
<1>3. n \in Nat /\ r \in Nat
  BY <1>1, Widths DEF Byte
<1> HIDE DEF n, r
<1>4. /\ R \in Parser /\ R.masked = P.masked /\ R.length = n /\ R.require = r
      /\ R.body = P.body /\ R.bodies = P.bodies /\ R.state = P.state
  BY <1>1, <1>3 DEF Parser
<1> HIDE DEF R
<1>5. CASE P.require > 1
  <2>1. Q = R /\ r > 0
    BY <1>1, <1>2, <1>4, <1>5 DEF r
  <2>2. Sound(Q)
    BY <1>1, <1>4, <2>1 DEF Sound
  <2> QED
    BY <1>1, <1>4, <1>5, <2>1, <2>2 DEF n, r
<1>6. CASE P.require = 1
  <2>1. Q = LengthKnown(R)
    BY <1>1, <1>2, <1>4, <1>6 DEF r
  <2>2. /\ Sound(Q) /\ Q.masked = P.masked /\ Q.length = n
        /\ Q.body = <<>> /\ Q.bodies = P.bodies
        /\ P.masked => Q.state = "mask" /\ Q.require = 4 /\ Q.mask = <<>>
        /\ ~P.masked /\ n > 0 => Q.state = "body" /\ Q.require = n
        /\ ~P.masked /\ n = 0 => Q.state = "start"
    BY <1>1, <1>4, <2>1, LengthKnownIs
  <2> QED
    BY <1>6, <2>2 DEF n
<1> QED
  BY <1>1, <1>5, <1>6

LEMMA TakeMaskIs ==
  ASSUME NEW P, Sound(P), P.state = "mask", NEW b \in Byte, NEW Q, Q = TakeByte(b)[P]
  PROVE  /\ Sound(Q) /\ Q.masked = P.masked /\ Q.body = <<>> /\ Q.bodies = P.bodies
         /\ Q.mask = Append(P.mask, b) /\ Q.length = P.length
         /\ P.require > 1 => Q.state = "mask" /\ Q.require = P.require - 1
         /\ P.require = 1 => /\ Q.length > 0 => Q.state = "body" /\ Q.require = Q.length
                             /\ Q.length = 0 => Q.state = "start"
<1> DEFINE k == Append(P.mask, b)
           r == P.require - 1
           R == [P EXCEPT !.mask = k, !.require = r]
<1>1. /\ P \in Parser /\ P.require \in 1 .. 4 /\ P.length \in Nat /\ P.body = <<>> /\ P.mask \in Seq(Nat)
      /\ Len(P.mask) = 4 - P.require /\ b \in Nat
  BY Widths DEF Sound, Parser, Byte
<1>2. Q = IF R.require = 0 THEN BodyComes(R) ELSE R
  BY <1>1, TakeByteIs DEF TakeMask
<1>3. k \in Seq(Nat) /\ r \in Nat /\ Len(k) = 4 - r
  BY <1>1, AppendProperties
<1> HIDE DEF k, r
<1>4. /\ R \in Parser /\ R.masked = P.masked /\ R.length = P.length /\ R.require = r
      /\ R.body = P.body /\ R.bodies = P.bodies /\ R.state = P.state /\ R.mask = k
  BY <1>1, <1>3 DEF Parser
<1> HIDE DEF R
<1>5. CASE P.require > 1
  <2>1. Q = R /\ r \in 1 .. 4
    BY <1>1, <1>2, <1>4, <1>5 DEF r
  <2>2. Sound(Q)
    BY <1>1, <1>3, <1>4, <2>1 DEF Sound
  <2> QED
    BY <1>1, <1>4, <1>5, <2>1, <2>2 DEF k, r
<1>6. CASE P.require = 1 /\ P.length > 0
  <2>1. Q = [R EXCEPT !.state = "body", !.require = R.length] /\ r = 0
    BY <1>1, <1>2, <1>4, <1>6 DEF r, BodyComes
  <2>2. /\ Q \in Parser /\ Q.masked = P.masked /\ Q.length = P.length /\ Q.body = P.body
        /\ Q.bodies = P.bodies /\ Q.state = "body" /\ Q.require = P.length /\ Q.mask = k
    BY <1>1, <1>4, <2>1 DEF Parser
  <2>3. Sound(Q)
    BY <1>1, <1>3, <1>6, <2>1, <2>2, Empties DEF Sound
  <2> QED
    BY <1>1, <1>6, <2>2, <2>3 DEF k
<1>7. CASE P.require = 1 /\ P.length = 0
  <2>1. Q = [R EXCEPT !.state = "start"]
    BY <1>1, <1>2, <1>4, <1>7 DEF r, BodyComes
  <2>2. /\ Q \in Parser /\ Q.masked = P.masked /\ Q.length = P.length /\ Q.body = P.body
        /\ Q.bodies = P.bodies /\ Q.state = "start" /\ Q.mask = k
    BY <1>4, <2>1 DEF Parser
  <2>3. Sound(Q)
    BY <1>1, <2>2 DEF Sound
  <2> QED
    BY <1>1, <1>7, <2>2, <2>3 DEF k
<1> QED
  BY <1>1, <1>5, <1>6, <1>7

\* What _onFrameBody is given, with the mask taken off.
Shown(P, body) == IF P.masked THEN Unmask(body, P.mask) ELSE body

LEMMA TakeBodyIs ==
  ASSUME NEW P, Sound(P), P.state = "body", NEW b \in Byte, NEW Q, Q = TakeByte(b)[P]
  PROVE  /\ Sound(Q) /\ P.body \in Seq(Nat) /\ Append(P.body, b) \in Seq(Nat)
         /\ P.require > 1 => /\ Q.state = "body" /\ Q.require = P.require - 1 /\ Q.masked = P.masked
                             /\ Q.mask = P.mask /\ Q.length = P.length /\ Q.body = Append(P.body, b)
                             /\ Q.bodies = P.bodies
         /\ P.require = 1 => /\ Q.state = "start" /\ Q.body = <<>>
                             /\ Q.bodies = Append(P.bodies, Shown(P, Append(P.body, b)))
                             /\ Len(Shown(P, Append(P.body, b))) = P.length
<1> DEFINE d == Append(P.body, b)
           r == P.require - 1
           R == [P EXCEPT !.body = d, !.require = r]
<1>1. /\ P \in Parser /\ P.require \in Nat /\ P.require > 0 /\ P.length \in Nat /\ P.body \in Seq(Nat)
      /\ Len(P.body) = P.length - P.require /\ b \in Nat /\ P.mask \in Seq(Nat) /\ P.bodies \in Seq(Seq(Nat))
      /\ P.masked => Len(P.mask) = 4
  BY Widths DEF Sound, Parser, Byte
<1>2. Q = IF R.require = 0 THEN [Pushed(R) EXCEPT !.state = "start"] ELSE R
  BY <1>1, TakeByteIs DEF TakeBody
<1>3. d \in Seq(Nat) /\ r \in Nat /\ Len(d) = P.length - r
  <2>1. d \in Seq(Nat) /\ Len(d) = Len(P.body) + 1
    BY <1>1, AppendProperties
  <2> QED
    BY <1>1, <2>1
<1>4. r = P.require - 1
  OBVIOUS
<1> HIDE DEF d, r
<1>5. /\ R \in Parser /\ R.masked = P.masked /\ R.length = P.length /\ R.require = r
      /\ R.body = d /\ R.bodies = P.bodies /\ R.state = P.state /\ R.mask = P.mask
  BY <1>1, <1>3 DEF Parser
<1> HIDE DEF R
<1>6. CASE P.require > 1
  <2>1. Q = R /\ r > 0
    BY <1>1, <1>2, <1>4, <1>5, <1>6
  <2>2. Sound(Q)
    BY <1>1, <1>3, <1>5, <2>1 DEF Sound
  <2> QED
    BY <1>1, <1>3, <1>4, <1>5, <1>6, <2>1, <2>2 DEF d
<1>7. CASE P.require = 1
  <2> DEFINE s == Shown(P, d)
  <2>1. s \in Seq(Nat) /\ Len(s) = P.length
    BY <1>1, <1>3, <1>4, <1>7, UnmaskType DEF Shown
  <2> HIDE DEF s
  <2>2. Append(P.bodies, s) \in Seq(Seq(Nat))
    BY <1>1, <2>1, AppendProperties
  <2>3. Q = [[R EXCEPT !.bodies = Append(R.bodies, IF R.masked THEN Unmask(R.body, R.mask) ELSE R.body),
                       !.body = <<>>] EXCEPT !.state = "start"]
    BY <1>1, <1>2, <1>4, <1>5, <1>7 DEF Pushed
  <2>4. Q = [[R EXCEPT !.bodies = Append(P.bodies, s), !.body = <<>>] EXCEPT !.state = "start"]
    BY <1>5, <2>3 DEF s, Shown
  <2>5. Q \in Parser /\ Q.state = "start" /\ Q.body = <<>> /\ Q.bodies = Append(P.bodies, s)
    BY <1>5, <2>2, <2>4, Empties DEF Parser
  <2>6. Sound(Q)
    BY <2>5 DEF Sound
  <2> QED
    BY <1>1, <1>3, <1>7, <2>1, <2>5, <2>6 DEF s, d
<1> QED
  BY <1>1, <1>6, <1>7

\* A byte that the frame does not end with.
LEMMA BodyGoesOn ==
  ASSUME NEW P, Sound(P), P.state = "body", P.require > 1, NEW b \in Byte, NEW Q, Q = TakeByte(b)[P]
  PROVE  /\ Q.state = "body" /\ Q.require = P.require - 1 /\ Q.masked = P.masked
         /\ Q.mask = P.mask /\ Q.length = P.length /\ Q.body = Append(P.body, b)
         /\ Q.bodies = P.bodies
BY TakeBodyIs

LEMMA MaskGoesOn ==
  ASSUME NEW P, Sound(P), P.state = "mask", NEW b \in Byte, NEW Q, Q = TakeByte(b)[P]
  PROVE  /\ Q.masked = P.masked /\ Q.body = <<>> /\ Q.bodies = P.bodies
         /\ Q.mask = Append(P.mask, b) /\ Q.length = P.length
         /\ P.require > 1 => Q.state = "mask" /\ Q.require = P.require - 1
         /\ P.require = 1 /\ Q.length > 0 => Q.state = "body" /\ Q.require = Q.length
BY TakeMaskIs

LEMMA TakeByteSound ==
  ASSUME NEW P, Sound(P), NEW b \in Byte
  PROVE  Sound(TakeByte(b)[P])
<1>1. P.state \in {"start", "head", "length", "mask", "body"}
  BY ParserFields DEF Sound
<1> QED
  BY <1>1, TakeStartIs, TakeHeadIs, TakeLengthIs, TakeMaskIs, TakeBodyIs

-----------------------------------------------------------------------------
(* Execute, from data that grows at its end. *)

\* The function that Execute is defined by.
Executes(g, data) ==
  g = [n \in 0 .. Len(data) |-> IF n = 0 THEN NewParser ELSE TakeByte(data[n])[g[n - 1]]]

LEMMA ExecuteExists ==
  ASSUME NEW data, Len(data) \in Nat
  PROVE  \E g : Executes(g, data)
<1> DEFINE Value(g, i) == IF i = 0 THEN NewParser ELSE TakeByte(data[i])[g[i - 1]]
           Fits(g, n) == g = [i \in 0 .. n |-> Value(g, i)]
           S == {n \in Nat : \E g : Fits(g, n)}
<1>1. 0 \in S
  <2> DEFINE g == [i \in 0 .. 0 |-> NewParser]
  <2>1. Fits(g, 0)
    OBVIOUS
  <2> QED
    BY <2>1
<1>2. ASSUME NEW n \in Nat, n \in S  PROVE n + 1 \in S
  <2>1. PICK g : Fits(g, n)
    BY <1>2
  <2> DEFINE h == [i \in 0 .. n + 1 |-> IF i = n + 1 THEN Value(g, i) ELSE g[i]]
  <2>2. \A i \in 0 .. n + 1 : h[i] = Value(h, i)
    <3> SUFFICES ASSUME NEW i \in 0 .. n + 1 PROVE h[i] = Value(h, i)
      OBVIOUS
    <3>1. h[i] = Value(g, i)
      <4>1. CASE i = n + 1
        BY <4>1
      <4>2. CASE i \in 0 .. n
        <5>1. h[i] = g[i]
          BY <4>2
        <5>2. g[i] = Value(g, i)
          <6> HIDE DEF Value
          <6> QED
            BY <2>1, <4>2
        <5> QED
          BY <5>1, <5>2
      <4> QED
        BY <4>1, <4>2
    <3>2. i # 0 => h[i - 1] = g[i - 1]
      OBVIOUS
    <3> QED
      BY <3>1, <3>2
  <2>3. Fits(h, n + 1)
    <3>1. h = [i \in 0 .. n + 1 |-> h[i]]
      OBVIOUS
    <3> HIDE DEF h, Value
    <3> QED
      BY <2>2, <3>1
  <2> QED
    <3> HIDE DEF Fits, h
    <3> QED
      BY <2>3
<1>3. Len(data) \in S
  <2> HIDE DEF S
  <2> QED
    BY <1>1, <1>2, Induction
<1> QED
  BY <1>3 DEF Executes

LEMMA ExecuteIs ==
  ASSUME NEW data, Len(data) \in Nat
  PROVE  \E g : Executes(g, data) /\ Execute(data) = g[Len(data)]
<1> DEFINE g == CHOOSE f : Executes(f, data)
<1>1. Executes(g, data)
  BY ExecuteExists
<1>2. Execute(data) = g[Len(data)]
  BY DEF Execute, Executes
<1> HIDE DEF g
<1> QED
  BY <1>1, <1>2

LEMMA ExecuteEmpty == Execute(<<>>) = NewParser
<1>1. PICK g : Executes(g, <<>>) /\ Execute(<<>>) = g[0]
  BY ExecuteIs, Empties
<1> QED
  BY <1>1, Empties DEF Executes

LEMMA ExecuteAppend ==
  ASSUME NEW data \in Seq(Byte), NEW b \in Byte
  PROVE  Execute(Append(data, b)) = TakeByte(b)[Execute(data)]
<1> DEFINE n == Len(data)
           longer == Append(data, b)
<1>1. /\ n \in Nat /\ Len(longer) = n + 1 /\ n + 1 \in Nat /\ longer[n + 1] = b
      /\ \A i \in 1 .. n : longer[i] = data[i]
  BY LenProperties, AppendProperties
<1> HIDE DEF n, longer
<1>2. PICK h : Executes(h, longer) /\ Execute(longer) = h[n + 1]
  BY <1>1, ExecuteIs
<1>3. PICK g : Executes(g, data) /\ Execute(data) = g[n]
  BY <1>1, ExecuteIs DEF n
<1>4. \A i \in 0 .. n + 1 : h[i] = IF i = 0 THEN NewParser ELSE TakeByte(longer[i])[h[i - 1]]
  BY <1>1, <1>2 DEF Executes
<1>5. \A i \in 0 .. n : g[i] = IF i = 0 THEN NewParser ELSE TakeByte(data[i])[g[i - 1]]
  BY <1>3 DEF Executes, n
<1> DEFINE S == {k \in Nat : k <= n => h[k] = g[k]}
<1>6. 0 \in S
  BY <1>1, <1>4, <1>5
<1>7. ASSUME NEW k \in Nat, k \in S  PROVE k + 1 \in S
  <2> SUFFICES ASSUME k + 1 <= n PROVE h[k + 1] = g[k + 1]
    OBVIOUS
  <2>1. h[k] = g[k] /\ longer[k + 1] = data[k + 1]
    BY <1>1, <1>7
  <2>2. k + 1 \in 0 .. n + 1 /\ k + 1 \in 0 .. n /\ k + 1 # 0 /\ (k + 1) - 1 = k
    BY <1>1
  <2>3. h[k + 1] = TakeByte(longer[k + 1])[h[k]] /\ g[k + 1] = TakeByte(data[k + 1])[g[k]]
    BY <1>4, <1>5, <2>2
  <2> QED
    BY <2>1, <2>3
<1>8. n \in S
  <2> HIDE DEF S
  <2> QED
    BY <1>1, <1>6, <1>7, Induction
<1>9. h[n + 1] = TakeByte(longer[n + 1])[h[n]]
  <2>1. n + 1 \in 0 .. n + 1 /\ n + 1 # 0 /\ (n + 1) - 1 = n
    BY <1>1
  <2> QED
    BY <1>4, <2>1
<1> QED
  BY <1>1, <1>2, <1>3, <1>8, <1>9 DEF longer

LEMMA ExecuteSound == \A data \in Seq(Byte) : Sound(Execute(data))
<1> DEFINE S == {data \in Seq(Byte) : Sound(Execute(data))}
<1>1. <<>> \in S
  <2>1. <<>> \in Seq(Byte)
    OBVIOUS
  <2> QED
    BY <2>1, ExecuteEmpty, NewIsSound
<1>2. ASSUME NEW data \in Seq(Byte), NEW b \in Byte, data \in S  PROVE Append(data, b) \in S
  <2>1. Append(data, b) \in Seq(Byte)
    BY AppendProperties
  <2> QED
    BY <1>2, <2>1, ExecuteAppend, TakeByteSound
<1>3. \A data \in Seq(Byte) : data \in S
  <2> HIDE DEF S
  <2> QED
    BY <1>1, <1>2, BytesInduction
<1> QED
  BY <1>3

-----------------------------------------------------------------------------
(* The parser in the middle of bytes F that follow bytes d. *)

After(d, F, n) == Execute(d \o SubSeq(F, 1, n))

LEMMA AfterStarts ==
  ASSUME NEW d \in Seq(Byte), NEW F
  PROVE  After(d, F, 0) = Execute(d)
<1>1. SubSeq(F, 1, 0) = <<>>
  <2>1. 1 \in Int /\ 0 \in Int /\ 0 < 1
    OBVIOUS
  <2> QED
    BY <2>1, SubSeqEmpty
<1>2. d \o <<>> = d
  BY ConcatEmptySeq
<1> QED
  BY <1>1, <1>2 DEF After

LEMMA AfterWhole ==
  ASSUME NEW d, NEW F \in Seq(Byte)
  PROVE  After(d, F, Len(F)) = Execute(d \o F)
BY SubSeqFull DEF After

LEMMA Beginning ==
  ASSUME NEW F \in Seq(Byte), NEW n \in 0 .. Len(F)
  PROVE  /\ n \in Nat /\ SubSeq(F, 1, n) \in Seq(Byte) /\ Len(SubSeq(F, 1, n)) = n
         /\ \A i \in 1 .. n : SubSeq(F, 1, n)[i] = F[i]
<1>1. \A i \in 1 .. n : F[i] \in Byte
  BY ElementOfSeq, LenProperties
<1>2. 1 \in Int /\ n \in Int
  BY LenProperties
<1> QED
  BY <1>1, <1>2, SubSeqProperties

LEMMA AfterSound ==
  ASSUME NEW d \in Seq(Byte), NEW F \in Seq(Byte), NEW n \in 0 .. Len(F)
  PROVE  Sound(After(d, F, n))
BY Beginning, ConcatProperties, ExecuteSound DEF After

LEMMA AfterStep ==
  ASSUME NEW d \in Seq(Byte), NEW F \in Seq(Byte), NEW n \in Nat, n < Len(F)
  PROVE  F[n + 1] \in Byte /\ After(d, F, n + 1) = TakeByte(F[n + 1])[After(d, F, n)]
<1>1. Len(F) \in Nat /\ n + 1 \in 1 .. Len(F) /\ n \in 0 .. Len(F)
  BY LenProperties
<1>2. F[n + 1] \in Byte
  BY <1>1, ElementOfSeq
<1>3. SubSeq(F, 1, n + 1) = Append(SubSeq(F, 1, n), F[n + 1])
  <2>1. SubSeq(F, 1, n + 1) = SubSeq(F, 1, (n + 1) - 1) \o <<F[n + 1]>>
    <3>1. 1 \in 1 .. Len(F)
      BY <1>1
    <3> QED
      BY <1>1, <3>1, SubSeqRecursiveSecond
  <2>2. (n + 1) - 1 = n
    OBVIOUS
  <2> QED
    BY <1>1, <1>2, <2>1, <2>2, Beginning, AppendIsConcat
<1>4. d \o Append(SubSeq(F, 1, n), F[n + 1]) = Append(d \o SubSeq(F, 1, n), F[n + 1])
  <2> DEFINE s == SubSeq(F, 1, n)
  <2>1. s \in Seq(Byte) /\ <<F[n + 1]>> \in Seq(Byte) /\ d \o s \in Seq(Byte)
    BY <1>1, <1>2, Beginning, ConcatProperties
  <2>2. Append(s, F[n + 1]) = s \o <<F[n + 1]>> /\ Append(d \o s, F[n + 1]) = (d \o s) \o <<F[n + 1]>>
    BY <1>2, <2>1, AppendIsConcat
  <2> HIDE DEF s
  <2> QED
    <3>1. Associates(d, s, <<F[n + 1]>>)
      BY <1>1, <2>1, Regroup
    <3> QED
      BY <2>2, <3>1 DEF s, Associates
<1>5. d \o SubSeq(F, 1, n) \in Seq(Byte)
  BY <1>1, Beginning, ConcatProperties
<1> QED
  BY <1>2, <1>3, <1>4, <1>5, ExecuteAppend DEF After

LEMMA StepAt ==
  ASSUME NEW d \in Seq(Byte), NEW x \in Seq(Byte), NEW k \in Nat, NEW i \in Nat, k + i < Len(x)
  PROVE  /\ x[(k + i) + 1] \in Byte
         /\ After(d, x, k + (i + 1)) = TakeByte(x[(k + i) + 1])[After(d, x, k + i)]
<1>2. PICK n \in Nat : n = k + i
  OBVIOUS
<1>3. n < Len(x) /\ k + (i + 1) = n + 1
  BY <1>2
<1>4. x[n + 1] \in Byte /\ After(d, x, n + 1) = TakeByte(x[n + 1])[After(d, x, n)]
  BY <1>3, AfterStep
<1> QED
  BY <1>2, <1>3, <1>4

-----------------------------------------------------------------------------
(* A frame. *)

MaskBytes(masked) == IF masked THEN 4 ELSE 0
HeaderOf(data, masked) == 2 + Extra(Len(data)) + MaskBytes(masked)

\* F is the frame around data; its first byte may be any, as the parser passes over it.
IsFrame(F, data, masked) ==
  LET B == LengthBytes(Len(data))
  IN  /\ F \in Seq(Byte) /\ data \in Seq(Byte) /\ masked \in BOOLEAN
      /\ Len(data) > 0 /\ Len(data) < Power[LongBytes]
      /\ Len(F) = HeaderOf(data, masked) + Len(data)
      /\ F[2] = B[1] + (IF masked THEN Bit ELSE 0)
      /\ \A i \in 2 .. Len(B) : F[1 + i] = B[i]
      /\ masked => \A i \in 1 .. 4 : F[1 + Len(B) + i] = 0
      /\ \A i \in 1 .. Len(data) : F[HeaderOf(data, masked) + i] = data[i]

LEMMA FrameFacts ==
  ASSUME NEW F, NEW data, NEW masked, IsFrame(F, data, masked)
  PROVE  /\ F \in Seq(Byte) /\ masked \in BOOLEAN
         /\ Len(data) \in Nat /\ Len(data) > 0 /\ Len(data) < Power[LongBytes]
         /\ Extra(Len(data)) \in 0 .. LongBytes
         /\ LengthBytes(Len(data))[1] \in Nat /\ LengthBytes(Len(data))[1] < Bit
         /\ HeaderOf(data, masked) = 2 + Extra(Len(data)) + MaskBytes(masked) /\ MaskBytes(masked) \in Nat
         /\ Len(F) = HeaderOf(data, masked) + Len(data)
         /\ F[2] = LengthBytes(Len(data))[1] + (IF masked THEN Bit ELSE 0)
         /\ \A i \in 2 .. 1 + Extra(Len(data)) : F[1 + i] = LengthBytes(Len(data))[i]
<1>1. Len(data) \in Nat /\ Len(data) > 0 /\ Len(data) < Power[LongBytes]
  BY LenProperties DEF IsFrame
<1>2. MaskBytes(masked) \in Nat
  BY DEF MaskBytes
<1> QED
  BY <1>1, <1>2, LengthBytesIs DEF IsFrame, HeaderOf

\* The length has been read.
AfterLength(Q, n, masked) ==
  /\ Q.length = n
  /\ masked => Q.state = "mask" /\ Q.require = 4 /\ Q.mask = <<>>
  /\ ~masked => Q.state = "body" /\ Q.require = n

InHeader(Q, masked, bodies) == Q.masked = masked /\ Q.body = <<>> /\ Q.bodies = bodies

LEMMA FrameHead ==
  ASSUME NEW d \in Seq(Byte), NEW F, NEW data, NEW masked, IsFrame(F, data, masked),
         Execute(d).state = "start"
  PROVE  /\ After(d, F, 1).body = <<>> /\ After(d, F, 1).bodies = Execute(d).bodies
         /\ InHeader(After(d, F, 2), masked, Execute(d).bodies)
         /\ Extra(Len(data)) = 0 => AfterLength(After(d, F, 2), Len(data), masked)
         /\ Extra(Len(data)) > 0 => /\ After(d, F, 2).state = "length"
                                    /\ After(d, F, 2).length = Len(data) \div Power[Extra(Len(data))]
                                    /\ After(d, F, 2).require = Extra(Len(data))
<1> DEFINE n == Len(data)
           e == Extra(n)
           B == LengthBytes(n)
           P0 == Execute(d)
           P1 == After(d, F, 1)
           Q == After(d, F, 2)
<1>1. /\ n \in Nat /\ n > 0 /\ n < Power[LongBytes] /\ masked \in BOOLEAN /\ F \in Seq(Byte)
      /\ F[2] = B[1] + (IF masked THEN Bit ELSE 0) /\ B[1] \in Nat /\ B[1] < Bit /\ e \in 0 .. LongBytes
      /\ Len(F) > 2
  <2> DEFINE h == HeaderOf(data, masked)
  <2>1. /\ n \in Nat /\ n > 0 /\ n < Power[LongBytes] /\ masked \in BOOLEAN /\ F \in Seq(Byte)
        /\ F[2] = B[1] + (IF masked THEN Bit ELSE 0) /\ B[1] \in Nat /\ B[1] < Bit /\ e \in 0 .. LongBytes
        /\ h = 2 + e + MaskBytes(masked) /\ MaskBytes(masked) \in Nat /\ Len(F) = h + n
    BY FrameFacts
  <2> HIDE DEF h, B, n, e
  <2> QED
    BY <2>1
<1>2. Sound(P0)
  BY ExecuteSound
<1>3. F[1] \in Byte /\ P1 = TakeByte(F[1])[P0] /\ F[2] \in Byte /\ Q = TakeByte(F[2])[P1]
  <2>1. 0 \in Nat /\ 1 \in Nat /\ 0 < Len(F) /\ 1 < Len(F)
    BY <1>1, LenProperties
  <2>2. F[0 + 1] \in Byte /\ After(d, F, 0 + 1) = TakeByte(F[0 + 1])[After(d, F, 0)]
    BY <1>1, <2>1, AfterStep
  <2>3. F[1 + 1] \in Byte /\ After(d, F, 1 + 1) = TakeByte(F[1 + 1])[After(d, F, 1)]
    BY <1>1, <2>1, AfterStep
  <2>4. 0 + 1 = 1 /\ 1 + 1 = 2
    OBVIOUS
  <2>5. After(d, F, 0) = P0
    BY AfterStarts
  <2> QED
    BY <2>2, <2>3, <2>4, <2>5
<1>4. /\ n < Short => e = 0 /\ B[1] = n
      /\ n >= Short => /\ e = IF n <= MaxShort THEN ShortBytes ELSE LongBytes
                       /\ B[1] = IF n <= MaxShort THEN Short ELSE Long
                       /\ n < Power[e] /\ e > 0
  BY <1>1, LengthBytesIs
<1> HIDE DEF B, P1, n, e, P0, Q
<1>5. Sound(P1) /\ P1.state = "head" /\ P1.body = <<>> /\ P1.bodies = P0.bodies
  <2>1. P0.state = "start"
    BY DEF P0
  <2> QED
    BY <1>2, <1>3, <2>1, TakeStartIs
<1> DEFINE l == F[2] % Bit
<1>6. l = B[1] /\ (F[2] >= Bit <=> masked) /\ (F[2] < Bit <=> ~masked)
  <2>1. \A b, v \in Nat : v < b => v % b = v /\ (v + b) % b = v
    OBVIOUS
  <2>a. B[1] % Bit = B[1] /\ (B[1] + Bit) % Bit = B[1]
    BY <1>1, <2>1, Widths
  <2>2. CASE masked
    <3>1. F[2] = B[1] + Bit
      BY <1>1, <2>2
    <3>2. F[2] >= Bit /\ ~(F[2] < Bit)
      BY <1>1, <3>1, Widths
    <3> QED
      BY <2>a, <2>2, <3>1, <3>2
  <2>3. CASE ~masked
    <3>1. F[2] = B[1]
      BY <1>1, <2>3, Widths
    <3>2. F[2] < Bit /\ ~(F[2] >= Bit)
      BY <1>1, <3>1, Widths
    <3> QED
      BY <2>a, <2>3, <3>1, <3>2
  <2> QED
    BY <2>2, <2>3
<1> HIDE DEF l
<1>7. /\ Sound(Q) /\ Q.masked = (F[2] >= Bit) /\ Q.body = <<>> /\ Q.bodies = P1.bodies
      /\ l >= Short => /\ Q.state = "length" /\ Q.length = 0
                       /\ Q.require = IF l = Long THEN LongBytes ELSE ShortBytes
      /\ l < Short => /\ Q.length = l
                      /\ F[2] >= Bit => Q.state = "mask" /\ Q.require = 4 /\ Q.mask = <<>>
                      /\ F[2] < Bit /\ l > 0 => Q.state = "body" /\ Q.require = l
  BY <1>3, <1>5, TakeHeadIs DEF l
<1>8. InHeader(Q, masked, P0.bodies)
  <2>1. Q.masked = (F[2] >= Bit) /\ Q.body = <<>> /\ Q.bodies = P0.bodies
    BY <1>5, <1>7
  <2>2. Q.masked = masked
    <3>1. CASE masked = TRUE
      <4>1. F[2] >= Bit
        BY <1>6, <3>1
      <4>2. (F[2] >= Bit) = TRUE
        BY <4>1
      <4> QED
        BY <2>1, <3>1, <4>2
    <3>2. CASE masked = FALSE
      <4>1. ~(F[2] >= Bit)
        BY <1>6, <3>2
      <4>2. (F[2] >= Bit) = FALSE
        BY <4>1
      <4> QED
        BY <2>1, <3>2, <4>2
    <3> QED
      BY <1>1, <3>1, <3>2
  <2> QED
    BY <2>1, <2>2 DEF InHeader
<1>9. CASE n < Short
  <2>1. e = 0 /\ l = n /\ l < Short /\ l > 0
    BY <1>1, <1>4, <1>6, <1>9
  <2>2. AfterLength(Q, n, masked)
    BY <1>6, <1>7, <2>1 DEF AfterLength
  <2> QED
    BY <1>5, <1>8, <2>1, <2>2 DEF P1, P0, Q, n, e
<1>10. CASE n >= Short
  <2>1. e > 0 /\ l >= Short /\ (l = Long => e = LongBytes) /\ (l # Long => e = ShortBytes)
    BY <1>1, <1>4, <1>6, <1>10, Widths
  <2>2. n \div Power[e] = 0
    <3>1. Power[e] \in Nat /\ n < Power[e]
      BY <1>1, <1>4, <1>10, PowerIs
    <3>2. \A a, b \in Nat : a < b => a \div b = 0
      OBVIOUS
    <3> QED
      BY <1>1, <3>1, <3>2
  <2>3. Q.state = "length" /\ Q.length = 0 /\ Q.require = e
    BY <1>7, <2>1
  <2>4. e # 0
    BY <1>1, <2>1
  <2> QED
    BY <1>5, <1>8, <2>1, <2>2, <2>3, <2>4 DEF P1, P0, Q, n, e
<1> QED
  BY <1>1, <1>9, <1>10, Widths

LEMMA FrameLength ==
  ASSUME NEW d \in Seq(Byte), NEW F, NEW data, NEW masked, IsFrame(F, data, masked),
         Execute(d).state = "start"
  PROVE  /\ \A i \in 0 .. Extra(Len(data)) : InHeader(After(d, F, 2 + i), masked, Execute(d).bodies)
         /\ AfterLength(After(d, F, 2 + Extra(Len(data))), Len(data), masked)
<1> DEFINE n == Len(data)
           e == Extra(n)
           B == LengthBytes(n)
           P0 == Execute(d)
           Q(i) == After(d, F, 2 + i)
           Read(i) == /\ InHeader(Q(i), masked, P0.bodies)
                      /\ i = e => AfterLength(Q(i), n, masked)
                      /\ i < e => Q(i).state = "length" /\ Q(i).length = n \div Power[e - i] /\ Q(i).require = e - i
           S == {i \in Nat : i <= e => Read(i)}
<1>1. /\ n \in Nat /\ n > 0 /\ n < Power[LongBytes] /\ Len(F) \in Nat /\ masked \in BOOLEAN
      /\ F \in Seq(Byte) /\ B \in Seq(Byte) /\ Len(B) = 1 + e /\ e \in Nat /\ e <= LongBytes
      /\ 2 + e < Len(F) /\ \A i \in 2 .. 1 + e : F[1 + i] = B[i]
  <2> DEFINE h == HeaderOf(data, masked)
  <2>1. /\ n \in Nat /\ n > 0 /\ n < Power[LongBytes] /\ masked \in BOOLEAN
        /\ F \in Seq(Byte) /\ B \in Seq(Byte) /\ Len(B) = 1 + e /\ e \in 0 .. LongBytes
        /\ h = 2 + e + MaskBytes(masked) /\ MaskBytes(masked) \in Nat /\ Len(F) = h + n
        /\ \A i \in 2 .. 1 + e : F[1 + i] = B[i]
    BY FrameFacts, LengthBytesIs
  <2> HIDE DEF h, B, n, e
  <2>2. Len(F) = 2 + e + MaskBytes(masked) + n /\ e \in Nat /\ e <= LongBytes
    BY <2>1, Widths
  <2>3. Len(F) \in Nat /\ 2 + e < Len(F)
    BY <2>1, <2>2
  <2> QED
    BY <2>1, <2>2, <2>3
<1>2. e > 0 => \A i \in 1 .. e : B[1 + i] = (n \div Power[e - i]) % Base
  <2>1. n < Short => e = 0
    BY <1>1, LengthBytesIs
  <2>2. n >= Short => \A i \in 1 .. e : B[1 + i] = (n \div Power[e - i]) % Base
    BY <1>1, LengthBytesIs
  <2> HIDE DEF n, e, B
  <2> QED
    BY <1>1, <2>1, <2>2, Widths
<1>h. /\ InHeader(After(d, F, 2), masked, P0.bodies)
      /\ e = 0 => AfterLength(After(d, F, 2), n, masked)
      /\ e > 0 => /\ After(d, F, 2).state = "length" /\ After(d, F, 2).length = n \div Power[e]
                  /\ After(d, F, 2).require = e
  BY FrameHead
<1> HIDE DEF B, n, e, P0
<1>3. 0 \in S
  <2>1. 2 + 0 = 2 /\ e - 0 = e /\ (0 = e <=> e = 0) /\ (0 < e <=> e > 0)
    BY <1>1
  <2>3. Read(0)
    BY <1>h, <2>1
  <2> HIDE DEF Read
  <2> QED
    BY <2>3
<1>4. ASSUME NEW i \in Nat, i \in S PROVE i + 1 \in S
  <2> SUFFICES ASSUME i + 1 <= e PROVE Read(i + 1)
    OBVIOUS
  <2>1. i < e /\ i \in 0 .. e - 1 /\ Read(i)
    <3> HIDE DEF Read
    <3> QED
      BY <1>1, <1>4
  <2> DEFINE k == e - (i + 1)
             b == F[2 + i + 1]
  <2>2. k \in Nat /\ k < LongBytes /\ e - i = k + 1 /\ k \in 0 .. LongBytes
    BY <1>1, <2>1, Widths
  <2>3. b \in Byte /\ Q(i + 1) = TakeByte(b)[Q(i)] /\ Sound(Q(i))
    <3>1. 2 + i \in Nat /\ 2 + i < Len(F) /\ 2 + (i + 1) = (2 + i) + 1 /\ 2 + i \in 0 .. Len(F)
      BY <1>1, <2>1
    <3>2. b \in Byte /\ Q(i + 1) = TakeByte(b)[Q(i)]
      BY <1>1, <3>1, StepAt
    <3>3. Sound(Q(i))
      BY <1>1, <3>1, AfterSound
    <3> QED
      BY <3>2, <3>3
  <2>4. b = (n \div Power[k]) % Base
    <3>1. 2 + i \in 2 .. 1 + e /\ 2 + i + 1 = 1 + (2 + i) /\ i + 1 \in 1 .. e /\ 2 + i = 1 + (i + 1) /\ e > 0
      BY <1>1, <2>1
    <3>2. b = B[2 + i]
      BY <1>1, <3>1
    <3>3. B[1 + (i + 1)] = (n \div Power[e - (i + 1)]) % Base
      BY <1>2, <3>1
    <3> QED
      BY <3>1, <3>2, <3>3
  <2>5. Power[k] \in Nat /\ Power[k] > 0 /\ Power[k + 1] = Base * Power[k]
    BY <2>2, PowerIs
  <2>7. /\ InHeader(Q(i), masked, P0.bodies) /\ Q(i).state = "length"
        /\ Q(i).length = n \div Power[k + 1] /\ Q(i).require = k + 1
    BY <2>1, <2>2
  <2>8. i + 1 = e <=> k = 0
    BY <1>1
  <2> HIDE DEF Q, k, b
  <2>6. (n \div Power[k + 1]) * Base + b = n \div Power[k]
    <3>1. Base \in Nat /\ Base > 0
      BY Widths
    <3>2. \A p \in Nat : p > 0 => (n \div (Base * p)) * Base + ((n \div p) % Base) = n \div p
      BY <1>1, <3>1, DivideTwice
    <3> QED
      BY <2>4, <2>5, <3>2
  <2> DEFINE R == Q(i + 1)
  <2>9. /\ R.masked = Q(i).masked /\ R.body = <<>> /\ R.bodies = Q(i).bodies
        /\ R.length = Q(i).length * Base + b
        /\ Q(i).require > 1 => R.state = "length" /\ R.require = Q(i).require - 1
        /\ Q(i).require = 1 =>
             /\ Q(i).masked => R.state = "mask" /\ R.require = 4 /\ R.mask = <<>>
             /\ ~Q(i).masked /\ R.length > 0 => R.state = "body" /\ R.require = R.length
    BY <2>3, <2>7, TakeLengthIs
  <2> HIDE DEF R
  <2>10. R.length = n \div Power[k]
    BY <2>6, <2>7, <2>9
  <2>11. InHeader(R, masked, P0.bodies)
    BY <2>7, <2>9 DEF InHeader
  <2>12. CASE k = 0
    <3>1. R.length = n /\ Q(i).require = 1
      BY <1>1, <2>7, <2>10, <2>12, PowerIs
    <3>2. AfterLength(R, n, masked)
      BY <1>1, <2>7, <2>9, <3>1 DEF AfterLength, InHeader
    <3>3. i + 1 = e
      BY <2>8, <2>12
    <3> QED
      BY <1>1, <2>11, <3>2, <3>3 DEF R
  <2>13. CASE k > 0
    <3>1. R.state = "length" /\ R.require = k
      BY <2>2, <2>7, <2>9, <2>13
    <3>2. i + 1 # e
      BY <2>2, <2>8, <2>13
    <3> QED
      BY <2>10, <2>11, <3>1, <3>2 DEF R, k
  <2> QED
    BY <2>2, <2>12, <2>13
<1>5. \A i \in Nat : i \in S
  <2> HIDE DEF S
  <2> QED
    BY <1>3, <1>4, Induction
<1>6. \A i \in 0 .. e : Read(i)
  <2> HIDE DEF Read
  <2> QED
    BY <1>1, <1>5
<1> QED
  <2>1. e \in 0 .. e
    BY <1>1
  <2> HIDE DEF Q
  <2>2. AfterLength(Q(e), n, masked) /\ \A i \in 0 .. e : InHeader(Q(i), masked, P0.bodies)
    BY <1>6, <2>1
  <2> QED
    BY <2>2 DEF Q, n, e, P0

\* The body comes next.
AtBody(Q, n, masked, bodies) ==
  /\ InHeader(Q, masked, bodies) /\ Q.state = "body" /\ Q.length = n /\ Q.require = n
  /\ masked => \A j \in 1 .. 4 : Q.mask[j] = 0

LEMMA MaskStep ==
  ASSUME NEW P, Sound(P), P.state = "mask", P.body = <<>>, NEW i \in 0 .. 3, P.require = 4 - i,
         \A j \in 1 .. i : P.mask[j] = 0, 0 \in Byte, NEW Q, Q = TakeByte(0)[P], P.length > 0
  PROVE  /\ Q.masked = P.masked /\ Q.length = P.length /\ Q.body = <<>> /\ Q.bodies = P.bodies
         /\ \A j \in 1 .. i + 1 : Q.mask[j] = 0
         /\ i < 3 => Q.state = "mask" /\ Q.require = 4 - (i + 1)
         /\ i = 3 => Q.state = "body" /\ Q.require = P.length
<1>1. P.mask \in Seq(Nat) /\ Len(P.mask) = i
  <2>1. P.mask \in Seq(Nat)
    BY ParserFields DEF Sound
  <2>2. Len(P.mask) = 4 - P.require
    BY DEF Sound
  <2> QED
    BY <2>1, <2>2
<1>2. /\ Q.masked = P.masked /\ Q.body = <<>> /\ Q.bodies = P.bodies
      /\ Q.mask = Append(P.mask, 0) /\ Q.length = P.length
      /\ P.require > 1 => Q.state = "mask" /\ Q.require = P.require - 1
      /\ P.require = 1 /\ Q.length > 0 => Q.state = "body" /\ Q.require = Q.length
  <2> DEFINE z == 0
  <2>1. z \in Byte /\ Q = TakeByte(z)[P] /\ Append(P.mask, 0) = Append(P.mask, z)
    OBVIOUS
  <2> HIDE DEF z
  <2>2. /\ Q.masked = P.masked /\ Q.body = <<>> /\ Q.bodies = P.bodies
        /\ Q.mask = Append(P.mask, z) /\ Q.length = P.length
        /\ P.require > 1 => Q.state = "mask" /\ Q.require = P.require - 1
        /\ P.require = 1 /\ Q.length > 0 => Q.state = "body" /\ Q.require = Q.length
    BY <2>1, MaskGoesOn
  <2> QED
    BY <2>1, <2>2
<1>3. \A j \in 1 .. i + 1 : Q.mask[j] = 0
  <2> DEFINE k == P.mask
  <2>1. \A j \in 1 .. i : k[j] = 0
    OBVIOUS
  <2>2. k \in Seq(Nat) /\ Len(k) = i /\ 0 \in Nat /\ i \in Nat
    BY <1>1
  <2> HIDE DEF k
  <2>3. \A j \in 1 .. i + 1 : Append(k, 0)[j] = 0
    BY <2>1, <2>2, AppendProperties
  <2> QED
    BY <1>2, <2>3 DEF k
<1> QED
  BY <1>2, <1>3

LEMMA FrameBodyStarts ==
  ASSUME NEW d \in Seq(Byte), NEW F, NEW data, NEW masked, IsFrame(F, data, masked),
         Execute(d).state = "start"
  PROVE  /\ AtBody(After(d, F, HeaderOf(data, masked)), Len(data), masked, Execute(d).bodies)
         /\ \A i \in 1 .. HeaderOf(data, masked) :
              After(d, F, i).body = <<>> /\ After(d, F, i).bodies = Execute(d).bodies
<1> DEFINE n == Len(data)
           e == Extra(n)
           h == HeaderOf(data, masked)
           B == Execute(d).bodies
           Q(i) == After(d, F, 2 + e + i)
<1>1. /\ n \in Nat /\ n > 0 /\ masked \in BOOLEAN /\ F \in Seq(Byte) /\ e \in Nat
      /\ Len(F) = h + n /\ h = 2 + e + MaskBytes(masked)
  BY FrameFacts, Widths
<1>2. After(d, F, 1).body = <<>> /\ After(d, F, 1).bodies = B
  BY FrameHead
<1>3. \A i \in 0 .. e : InHeader(After(d, F, 2 + i), masked, B)
  BY FrameLength
<1>4. AfterLength(After(d, F, 2 + e), n, masked)
  BY FrameLength
<1>5. masked => \A i \in 1 .. 4 : F[2 + e + i] = 0
  <2>1. n < Power[LongBytes]
    BY FrameFacts
  <2>2. Len(LengthBytes(n)) = 1 + e
    BY <1>1, <2>1, LengthBytesIs
  <2>3. masked => \A i \in 1 .. 4 : F[1 + Len(LengthBytes(n)) + i] = 0
    BY DEF IsFrame
  <2> HIDE DEF n, e
  <2>4. \A i \in 1 .. 4 : 1 + (1 + e) + i = 2 + e + i
    BY <1>1
  <2> QED
    BY <2>2, <2>3, <2>4
<1> HIDE DEF n, e, h, B
<1>6. InHeader(Q(0), masked, B) /\ AfterLength(Q(0), n, masked)
  BY <1>1, <1>3, <1>4
<1>7. CASE ~masked
  <2>1. h = 2 + e
    BY <1>1, <1>7 DEF MaskBytes
  <2>2. AtBody(After(d, F, h), n, masked, B)
    BY <1>1, <1>6, <1>7, <2>1 DEF AtBody, AfterLength
  <2>3. \A i \in 1 .. h : After(d, F, i).body = <<>> /\ After(d, F, i).bodies = B
    <3> SUFFICES ASSUME NEW i \in 1 .. h PROVE After(d, F, i).body = <<>> /\ After(d, F, i).bodies = B
      OBVIOUS
    <3>1. i = 1 \/ (i - 2 \in 0 .. e /\ 2 + (i - 2) = i)
      BY <1>1, <2>1
    <3> QED
      BY <1>2, <1>3, <3>1 DEF InHeader
  <2> QED
    BY <2>2, <2>3 DEF n, e, h, B
<1>8. CASE masked
  <2> DEFINE Some(i) == /\ InHeader(Q(i), masked, B) /\ Q(i).length = n
                        /\ \A j \in 1 .. i : Q(i).mask[j] = 0
             Masks(i) == Some(i) /\ Q(i).state = "mask" /\ Q(i).require = 4 - i
  <2>1. h = 2 + e + 4
    BY <1>1, <1>8 DEF MaskBytes
  <2>2. Masks(0)
    <3>1. \A j \in 1 .. 0 : Q(0).mask[j] = 0
      OBVIOUS
    <3>2. Q(0).length = n /\ Q(0).state = "mask" /\ Q(0).require = 4 /\ InHeader(Q(0), masked, B)
      BY <1>6, <1>8 DEF AfterLength
    <3> HIDE DEF Q
    <3> QED
      BY <3>1, <3>2
  <2>3. ASSUME NEW i \in 0 .. 3, Masks(i)
        PROVE  Some(i + 1) /\ (i < 3 => Masks(i + 1)) /\ (i = 3 => Q(i + 1).state = "body" /\ Q(i + 1).require = n)
    <3> DEFINE P == Q(i)
               R == Q(i + 1)
    <3>1. Sound(P) /\ R = TakeByte(0)[P] /\ 0 \in Byte
      <4>1. 2 + e + i \in Nat /\ 2 + e + i < Len(F) /\ 2 + e + (i + 1) = (2 + e + i) + 1 /\ 2 + e + i \in 0 .. Len(F)
        BY <1>1, <2>1
      <4>2. F[(2 + e + i) + 1] \in Byte /\ After(d, F, (2 + e + i) + 1) = TakeByte(F[(2 + e + i) + 1])[After(d, F, 2 + e + i)]
        BY <1>1, <4>1, AfterStep
      <4>3. F[(2 + e + i) + 1] = 0
        <5>1. i + 1 \in 1 .. 4 /\ (2 + e + i) + 1 = 2 + e + (i + 1)
          BY <1>1
        <5> QED
          BY <1>5, <1>8, <5>1
      <4>4. Sound(After(d, F, 2 + e + i))
        BY <1>1, <4>1, AfterSound
      <4> QED
        BY <4>1, <4>2, <4>3, <4>4
    <3>2. /\ P.state = "mask" /\ P.masked = TRUE /\ P.body = <<>> /\ P.bodies = B /\ P.require = 4 - i /\ P.length = n
          /\ \A j \in 1 .. i : P.mask[j] = 0
      BY <1>8, <2>3 DEF InHeader
    <3>a. P.length > 0
      BY <1>1, <3>2
    <3> HIDE DEF Q, P, R
    <3>3. /\ R.masked = TRUE /\ R.length = P.length /\ R.body = <<>> /\ R.bodies = P.bodies
          /\ \A j \in 1 .. i + 1 : R.mask[j] = 0
          /\ i < 3 => R.state = "mask" /\ R.require = 4 - (i + 1)
          /\ i = 3 => R.state = "body" /\ R.require = P.length
      <4>1. /\ P.state = "mask" /\ P.body = <<>> /\ P.require = 4 - i
            /\ \A j \in 1 .. i : P.mask[j] = 0
        BY <3>2
      <4>2. P.masked = TRUE
        BY <3>2
      <4>3. R.masked = P.masked /\ R.length = P.length /\ R.body = <<>> /\ R.bodies = P.bodies
        BY <3>1, <3>a, <4>1, MaskStep
      <4>4. \A j \in 1 .. i + 1 : R.mask[j] = 0
        BY <3>1, <3>a, <4>1, MaskStep
      <4>5. i < 3 => R.state = "mask" /\ R.require = 4 - (i + 1)
        BY <3>1, <3>a, <4>1, MaskStep
      <4>6. i = 3 => R.state = "body" /\ R.require = P.length
        BY <3>1, <3>a, <4>1, MaskStep
      <4> QED
        BY <4>2, <4>3, <4>4, <4>5, <4>6
    <3>4. Some(i + 1)
      BY <1>8, <3>2, <3>3 DEF R, InHeader
    <3> HIDE DEF Some
    <3> QED
      BY <3>2, <3>3, <3>4 DEF R
  <2> HIDE DEF Q, Some
  <2>4. Some(0) /\ Some(0 + 1) /\ Masks(0 + 1)
    BY <2>2, <2>3
  <2>5. Masks(1)
    BY <2>4
  <2>6. Some(1 + 1) /\ Masks(1 + 1)
    BY <2>3, <2>5
  <2>7. Masks(2)
    BY <2>6
  <2>8. Some(2 + 1) /\ Masks(2 + 1)
    BY <2>3, <2>7
  <2>9. Masks(3)
    BY <2>8
  <2>10. Some(3 + 1) /\ Q(3 + 1).state = "body" /\ Q(3 + 1).require = n
    BY <2>3, <2>9
  <2>11. Some(4) /\ Q(4).state = "body" /\ Q(4).require = n
    BY <2>10
  <2>12. \A i \in 0 .. 4 : Some(i)
    <3> SUFFICES ASSUME NEW i \in 0 .. 4 PROVE Some(i)
      OBVIOUS
    <3>1. i = 0 \/ i = 1 \/ i = 2 \/ i = 3 \/ i = 4
      OBVIOUS
    <3> QED
      BY <2>4, <2>5, <2>7, <2>9, <2>11, <3>1
  <2>13. AtBody(After(d, F, h), n, masked, B)
    BY <1>1, <2>1, <2>11 DEF AtBody, Some, Q
  <2>14. \A i \in 1 .. h : After(d, F, i).body = <<>> /\ After(d, F, i).bodies = B
    <3> SUFFICES ASSUME NEW i \in 1 .. h PROVE After(d, F, i).body = <<>> /\ After(d, F, i).bodies = B
      OBVIOUS
    <3>1. \/ i = 1
          \/ i - 2 \in 0 .. e /\ 2 + (i - 2) = i
          \/ i - (2 + e) \in 0 .. 4 /\ 2 + e + (i - (2 + e)) = i
      BY <1>1, <2>1
    <3>2. CASE i - (2 + e) \in 0 .. 4 /\ 2 + e + (i - (2 + e)) = i
      <4>1. Some(i - (2 + e))
        BY <2>12, <3>2
      <4>2. InHeader(After(d, F, 2 + e + (i - (2 + e))), masked, B)
        BY <4>1 DEF Some, Q
      <4> QED
        BY <3>2, <4>2 DEF InHeader
    <3> QED
      BY <1>2, <1>3, <3>1, <3>2 DEF InHeader
  <2> QED
    BY <2>13, <2>14 DEF n, e, h, B
<1> QED
  BY <1>1, <1>7, <1>8

\* In the body, and after it.
InBody(Q, data, masked, bodies, i) ==
  /\ Q.state = "body" /\ Q.length = Len(data) /\ Q.require = Len(data) - i
  /\ Q.masked = masked /\ (masked => \A j \in 1 .. 4 : Q.mask[j] = 0)
  /\ Q.body = SubSeq(data, 1, i) /\ Q.bodies = bodies

LEMMA FrameBodyGoesOn ==
  ASSUME NEW d \in Seq(Byte), NEW F, NEW data, NEW masked, IsFrame(F, data, masked),
         Execute(d).state = "start", NEW i \in Nat, i < Len(data)
  PROVE  InBody(After(d, F, HeaderOf(data, masked) + i), data, masked, Execute(d).bodies, i)
<1> DEFINE n == Len(data)
           h == HeaderOf(data, masked)
           B == Execute(d).bodies
           Q(k) == After(d, F, h + k)
           Holds(k) == /\ Q(k).state = "body" /\ Q(k).length = n /\ Q(k).require = n - k
                       /\ Q(k).masked = masked /\ (masked => \A j \in 1 .. 4 : Q(k).mask[j] = 0)
                       /\ Q(k).body = SubSeq(data, 1, k) /\ Q(k).bodies = B
           S == {k \in Nat : k < n => Holds(k)}
<1>1. /\ n \in Nat /\ n > 0 /\ masked \in BOOLEAN /\ F \in Seq(Byte) /\ h \in Nat
      /\ Len(F) = h + n /\ data \in Seq(Byte)
  <2>1. Extra(n) \in 0 .. LongBytes /\ MaskBytes(masked) \in Nat /\ h = 2 + Extra(n) + MaskBytes(masked)
    BY FrameFacts
  <2>2. h \in Nat
    <3> HIDE DEF n, h
    <3> QED
      BY <2>1, Widths
  <2> QED
    BY <2>2, FrameFacts DEF IsFrame
<1>2. AtBody(After(d, F, h), n, masked, B)
  BY FrameBodyStarts
<1>3. \A k \in 1 .. n : F[h + k] = data[k]
  BY DEF IsFrame
<1> HIDE DEF n, h, B
<1>4. 0 \in S
  <2>1. SubSeq(data, 1, 0) = <<>>
    <3>1. 1 \in Int /\ 0 \in Int /\ 0 < 1
      OBVIOUS
    <3> QED
      BY <3>1, SubSeqEmpty
  <2>2. h + 0 = h /\ n - 0 = n
    BY <1>1
  <2>3. Holds(0)
    BY <1>2, <2>1, <2>2 DEF AtBody, InHeader
  <2> HIDE DEF Holds
  <2> QED
    BY <2>3
<1>5. ASSUME NEW k \in Nat, k \in S PROVE k + 1 \in S
  <2> SUFFICES ASSUME k + 1 < n PROVE Holds(k + 1)
    OBVIOUS
  <2>1. Holds(k)
    <3> HIDE DEF Holds
    <3> QED
      BY <1>1, <1>5
  <2> DEFINE P == Q(k)
             R == Q(k + 1)
             b == data[k + 1]
  <2>2. b \in Byte /\ R = TakeByte(b)[P] /\ Sound(P)
    <3>1. h + k \in Nat /\ h + k < Len(F) /\ h + (k + 1) = (h + k) + 1 /\ h + k \in 0 .. Len(F) /\ k + 1 \in 1 .. n
      BY <1>1
    <3>2. F[(h + k) + 1] \in Byte /\ After(d, F, (h + k) + 1) = TakeByte(F[(h + k) + 1])[After(d, F, h + k)]
      BY <1>1, <3>1, AfterStep
    <3>3. F[h + (k + 1)] = b
      BY <1>3, <3>1
    <3>4. Sound(After(d, F, h + k))
      BY <1>1, <3>1, AfterSound
    <3> QED
      BY <3>1, <3>2, <3>3, <3>4
  <2>3. Append(SubSeq(data, 1, k), b) = SubSeq(data, 1, k + 1)
    <3>1. k + 1 \in 1 .. Len(data) /\ 1 \in 1 .. Len(data) /\ (k + 1) - 1 = k /\ k \in 0 .. Len(data)
      BY <1>1 DEF n
    <3>2. SubSeq(data, 1, k + 1) = SubSeq(data, 1, (k + 1) - 1) \o <<data[k + 1]>>
      BY <1>1, <3>1, SubSeqRecursiveSecond
    <3> QED
      BY <1>1, <2>2, <3>1, <3>2, Beginning, AppendIsConcat
  <2>4. /\ P.state = "body" /\ P.length = n /\ P.require = n - k
        /\ P.masked = masked /\ (masked => \A j \in 1 .. 4 : P.mask[j] = 0)
        /\ P.body = SubSeq(data, 1, k) /\ P.bodies = B
    BY <2>1
  <2> HIDE DEF Q, P, R, b
  <2>5. P.require > 1 /\ P.require - 1 = n - (k + 1)
    BY <1>1, <2>4
  <2>a. P.state = "body"
    BY <2>4
  <2>6. /\ R.state = "body" /\ R.require = P.require - 1 /\ R.masked = P.masked
        /\ R.mask = P.mask /\ R.length = P.length /\ R.body = Append(P.body, b)
        /\ R.bodies = P.bodies
    <3>1. P.require > 1
      BY <2>5
    <3>2. R.masked = P.masked
      BY <2>2, <2>a, <3>1, BodyGoesOn
    <3>3. R.state = "body" /\ R.require = P.require - 1
      BY <2>2, <2>a, <3>1, BodyGoesOn
    <3>4. R.mask = P.mask /\ R.length = P.length
      BY <2>2, <2>a, <3>1, BodyGoesOn
    <3>5. R.body = Append(P.body, b) /\ R.bodies = P.bodies
      BY <2>2, <2>a, <3>1, BodyGoesOn
    <3> QED
      BY <3>2, <3>3, <3>4, <3>5
  <2> QED
    BY <2>3, <2>4, <2>5, <2>6 DEF R
<1>6. \A k \in Nat : k \in S
  <2> HIDE DEF S
  <2> QED
    BY <1>4, <1>5, Induction
<1>7. i < n
  BY DEF n
<1>8. Holds(i)
  <2> HIDE DEF Holds
  <2> QED
    BY <1>6, <1>7
<1> QED
  BY <1>8 DEF n, h, B, InBody

LEMMA FrameEnds ==
  ASSUME NEW d \in Seq(Byte), NEW F, NEW data, NEW masked, IsFrame(F, data, masked),
         Execute(d).state = "start"
  PROVE  /\ Execute(d \o F).state = "start" /\ Execute(d \o F).body = <<>>
         /\ Execute(d \o F).bodies = Append(Execute(d).bodies, data)
<1> DEFINE n == Len(data)
           h == HeaderOf(data, masked)
           P == After(d, F, h + (n - 1))
           R == After(d, F, Len(F))
           b == data[n]
<1>1. /\ n \in Nat /\ n > 0 /\ masked \in BOOLEAN /\ F \in Seq(Byte) /\ h \in Nat
      /\ Len(F) = h + n /\ data \in Seq(Byte)
  <2>1. Extra(n) \in 0 .. LongBytes /\ MaskBytes(masked) \in Nat /\ h = 2 + Extra(n) + MaskBytes(masked)
    BY FrameFacts
  <2>2. h \in Nat
    <3> HIDE DEF n, h
    <3> QED
      BY <2>1, Widths
  <2> QED
    BY <2>2, FrameFacts DEF IsFrame
<1>2. n - 1 \in Nat /\ n - 1 < n
  BY <1>1
<1>3. /\ P.state = "body" /\ P.length = n /\ P.require = n - (n - 1)
      /\ P.masked = masked /\ (masked => \A j \in 1 .. 4 : P.mask[j] = 0)
      /\ P.body = SubSeq(data, 1, n - 1) /\ P.bodies = Execute(d).bodies
  BY <1>2, FrameBodyGoesOn DEF InBody
<1>4. b \in Byte /\ R = TakeByte(b)[P] /\ Sound(P)
  <2>1. /\ h + (n - 1) \in Nat /\ h + (n - 1) < Len(F) /\ (h + (n - 1)) + 1 = Len(F)
        /\ h + (n - 1) \in 0 .. Len(F) /\ n \in 1 .. n /\ h + n = Len(F)
    BY <1>1
  <2>2. F[(h + (n - 1)) + 1] \in Byte /\ After(d, F, (h + (n - 1)) + 1) = TakeByte(F[(h + (n - 1)) + 1])[P]
    BY <1>1, <2>1, AfterStep
  <2>3. F[h + n] = b
    BY <2>1 DEF IsFrame
  <2>4. Sound(P)
    BY <1>1, <2>1, AfterSound
  <2> QED
    BY <2>1, <2>2, <2>3, <2>4
<1>5. Append(SubSeq(data, 1, n - 1), b) = data
  <2>1. n \in 1 .. Len(data) /\ 1 \in 1 .. Len(data) /\ n - 1 \in 0 .. Len(data)
    BY <1>1
  <2>2. SubSeq(data, 1, n) = SubSeq(data, 1, n - 1) \o <<data[n]>>
    BY <1>1, <2>1, SubSeqRecursiveSecond
  <2>3. SubSeq(data, 1, n) = data
    BY <1>1, SubSeqFull
  <2> DEFINE s == SubSeq(data, 1, n - 1)
  <2>4. s \in Seq(Byte)
    BY <1>1, <2>1, Beginning
  <2>5. data = s \o <<b>>
    BY <2>2, <2>3
  <2> HIDE DEF s, b
  <2>6. Append(s, b) = s \o <<b>>
    BY <1>4, <2>4, AppendIsConcat
  <2> QED
    BY <2>5, <2>6 DEF s
<1>6. R = Execute(d \o F)
  BY <1>1, AfterWhole
<1> HIDE DEF n, h, P, R, b
<1>7. P.require = 1 /\ P.state = "body"
  BY <1>1, <1>3
<1>8. R.state = "start" /\ R.body = <<>> /\ R.bodies = Append(P.bodies, Shown(P, Append(P.body, b)))
  BY <1>4, <1>7, TakeBodyIs
<1>9. Shown(P, Append(P.body, b)) = data
  BY <1>1, <1>3, <1>5, UnmaskZero DEF Shown
<1> QED
  BY <1>3, <1>6, <1>8, <1>9

-----------------------------------------------------------------------------
(* getFrameBodyVector, of a frame's first bytes. *)

LEMMA BodiesIs ==
  ASSUME NEW P \in Parser
  PROVE  Bodies[P] = IF P.body = <<>> THEN P.bodies ELSE Append(P.bodies, Shown(P, P.body))
<1> DEFINE x == Shown(P, P.body)
<1>1. Pushed(P) = [P EXCEPT !.bodies = Append(P.bodies, x), !.body = <<>>]
  BY DEF Pushed, Shown
<1> HIDE DEF x
<1>2. Pushed(P).bodies = Append(P.bodies, x)
  BY <1>1 DEF Parser
<1> QED
  BY <1>2 DEF Bodies, x

\* The part of the body that is among the first n bytes.
Part(data, masked, n) ==
  IF n > HeaderOf(data, masked) THEN <<SubSeq(data, 1, n - HeaderOf(data, masked))>> ELSE <<>>

LEMMA FramePart ==
  ASSUME NEW d \in Seq(Byte), NEW F, NEW data, NEW masked, IsFrame(F, data, masked),
         Execute(d).state = "start", NEW n \in 0 .. Len(F)
  PROVE  Bodies[After(d, F, n)] = Execute(d).bodies \o Part(data, masked, n)
<1> DEFINE L == Len(data)
           h == HeaderOf(data, masked)
           P == After(d, F, n)
           B == Execute(d).bodies
<1>1. /\ L \in Nat /\ L > 0 /\ masked \in BOOLEAN /\ F \in Seq(Byte) /\ h \in Nat /\ h > 0
      /\ Len(F) = h + L /\ data \in Seq(Byte)
  <2>1. Extra(L) \in 0 .. LongBytes /\ MaskBytes(masked) \in Nat /\ h = 2 + Extra(L) + MaskBytes(masked)
    BY FrameFacts
  <2>2. h \in Nat /\ h > 0
    <3> HIDE DEF L, h
    <3> QED
      BY <2>1, Widths
  <2> QED
    BY <2>2, FrameFacts DEF IsFrame
<1>2. Sound(P) /\ P \in Parser /\ B \in Seq(Seq(Nat)) /\ Execute(d).body = <<>>
  <2>1. Sound(P) /\ Sound(Execute(d))
    BY <1>1, AfterSound, ExecuteSound
  <2> QED
    BY <2>1, ParserFields DEF Sound
<1>3. Bodies[P] = IF P.body = <<>> THEN P.bodies ELSE Append(P.bodies, Shown(P, P.body))
  BY <1>2, BodiesIs
<1>4. CASE n <= h
  <2>1. P.body = <<>> /\ P.bodies = B
    <3>1. CASE n = 0
      BY <1>2, <3>1, AfterStarts
    <3>2. CASE n # 0
      <4>1. n \in 1 .. h
        BY <1>1, <1>4, <3>2
      <4> QED
        BY <4>1, FrameBodyStarts
    <3> QED
      BY <3>1, <3>2
  <2>2. Part(data, masked, n) = <<>>
    BY <1>1, <1>4 DEF Part
  <2>3. B \o <<>> = B
    BY <1>2, ConcatEmptySeq
  <2> HIDE DEF P, B
  <2> QED
    BY <1>3, <2>1, <2>2, <2>3 DEF P, B
<1>5. CASE n > h /\ n < h + L
  <2> DEFINE i == n - h
             s == SubSeq(data, 1, i)
  <2>1. i \in Nat /\ i > 0 /\ i < L /\ h + i = n /\ i \in 0 .. L
    BY <1>1, <1>5
  <2>2. P.body = s /\ P.bodies = B /\ P.masked = masked /\ (masked => \A j \in 1 .. 4 : P.mask[j] = 0)
    BY <2>1, FrameBodyGoesOn DEF InBody
  <2>3. s \in Seq(Byte) /\ Len(s) = i
    BY <1>1, <2>1, Beginning
  <2>4. s # <<>>
    BY <2>1, <2>3
  <2>5. Shown(P, s) = s
    BY <1>1, <2>2, <2>3, UnmaskZero DEF Shown
  <2>6. Part(data, masked, n) = <<s>>
    BY <1>5 DEF Part
  <2>7. Append(B, s) = B \o <<s>>
    <3>1. s \in Seq(Nat)
      <4>1. \A t \in Seq(Byte) : t \in Seq(Nat)
        BY Widths DEF Byte
      <4> QED
        BY <2>3, <4>1
    <3> HIDE DEF s, B
    <3> QED
      BY <1>2, <3>1, AppendIsConcat
  <2> HIDE DEF s, P, B
  <2> QED
    BY <1>3, <2>2, <2>4, <2>5, <2>6, <2>7 DEF P, B
<1>6. CASE n = h + L
  <2>1. P.body = <<>> /\ P.bodies = Append(B, data)
    BY <1>1, <1>6, FrameEnds, AfterWhole
  <2>2. Part(data, masked, n) = <<data>>
    <3>1. n > h /\ n - h = L
      BY <1>1, <1>6
    <3>2. SubSeq(data, 1, L) = data
      BY <1>1, SubSeqFull
    <3> HIDE DEF h
    <3> QED
      BY <3>1, <3>2 DEF Part, h
  <2>3. Append(B, data) = B \o <<data>>
    <3>1. data \in Seq(Nat)
      <4>1. \A t \in Seq(Byte) : t \in Seq(Nat)
        BY Widths DEF Byte
      <4> QED
        BY <1>1, <4>1
    <3> HIDE DEF B
    <3> QED
      BY <1>2, <3>1, AppendIsConcat
  <2> HIDE DEF P, B
  <2> QED
    BY <1>3, <2>1, <2>2, <2>3 DEF P, B
<1> QED
  BY <1>1, <1>4, <1>5, <1>6

-----------------------------------------------------------------------------
(* The frames of this program: the browser's and the commands'. *)

LEMMA SizeFacts ==
  ASSUME size \in Sizes, NEW m \in Messages
  PROVE  /\ size[m] \in Nat /\ size[m] > 0 /\ size[m] + 1 < Power[LongBytes]
         /\ Payload(m) \in Seq(Byte) /\ Len(Payload(m)) = size[m]
         /\ \A i \in 1 .. size[m] : Payload(m)[i] = m
<1>1. size[m] \in Nat /\ size[m] > 0 /\ size[m] + 1 < Power[LongBytes]
  BY SocketAssumption
<1>2. m \in Byte
  BY TextBytes
<1> QED
  BY <1>1, <1>2 DEF Payload

\* Not masked.
Plain == FALSE

\* The browser's frames are frames, and as long as their header and their payload.
LEMMA WireIsFrame ==
  ASSUME size \in Sizes, NEW m \in Framed
  PROVE  /\ IsFrame(Wire(m), Payload(m), Plain) /\ m \in Messages
         /\ HeaderOf(Payload(m), Plain) = 2 + Extra(size[m]) /\ Extra(size[m]) \in Nat
         /\ Wire(m) \in Seq(Byte) /\ Len(Wire(m)) = 2 + Extra(size[m]) + size[m]
<1> DEFINE n == size[m]
           a == <<TextFrame>>
           B == LengthBytes(n)
           c == Payload(m)
           F == Three(a, B, c)
           e == Extra(n)
<1>1. m \in Messages
  BY DEF Framed, Messages, Targets, Capture
<1>2. n \in Nat /\ n > 0 /\ n < Power[LongBytes] /\ c \in Seq(Byte) /\ Len(c) = n
  <2>1. \A x, y \in Nat : x + 1 < y => x < y
    OBVIOUS
  <2> QED
    BY <1>1, <2>1, SizeFacts, PowerIs, Widths
<1>3. B \in Seq(Byte) /\ Len(B) = 1 + e /\ e \in Nat /\ B[1] \in Nat
  BY <1>2, LengthBytesIs, Widths
<1>4. a \in Seq(Byte) /\ Len(a) = 1
  BY Widths
<1>5. Wire(m) = F
  BY DEF Wire, Three
<1>6. HeaderOf(c, Plain) = 2 + e
  BY <1>2, <1>3 DEF HeaderOf, MaskBytes, Plain
<1> HIDE DEF a, B, e, c, n
<1>7. /\ F \in Seq(Byte) /\ Len(F) = Len(a) + Len(B) + Len(c)
      /\ \A i \in 1 .. Len(B) : F[Len(a) + i] = B[i]
      /\ \A i \in 1 .. Len(c) : F[Len(a) + Len(B) + i] = c[i]
  <2>1. a \in Seq(Byte) /\ B \in Seq(Byte) /\ c \in Seq(Byte)
    BY <1>2, <1>3, <1>4
  <2>2. F \in Seq(Byte) /\ Len(F) = Len(a) + Len(B) + Len(c)
    BY <2>1, ThreeParts
  <2>3. \A i \in 1 .. Len(B) : F[Len(a) + i] = B[i]
    BY <2>1, ThreeParts
  <2>4. \A i \in 1 .. Len(c) : F[Len(a) + Len(B) + i] = c[i]
    BY <2>1, ThreeParts
  <2> QED
    BY <2>2, <2>3, <2>4
<1> HIDE DEF F
<1>8. Len(F) = 2 + e + n
  BY <1>2, <1>3, <1>4, <1>7
<1>9. F[2] = B[1] /\ \A i \in 2 .. Len(B) : F[1 + i] = B[i]
  BY <1>3, <1>4, <1>7
<1>10. \A i \in 1 .. Len(c) : F[(2 + e) + i] = c[i]
  BY <1>2, <1>3, <1>4, <1>7
<1>11. IsFrame(F, c, Plain)
  <2>1. B = LengthBytes(Len(c))
    BY <1>2 DEF B
  <2>2. F[2] = B[1] + 0 /\ 0 = IF Plain THEN Bit ELSE 0
    BY <1>3, <1>9 DEF Plain
  <2>3. Plain \in BOOLEAN /\ ~Plain
    BY DEF Plain
  <2> QED
    BY <1>2, <1>6, <1>7, <1>8, <1>9, <1>10, <2>1, <2>2, <2>3 DEF IsFrame
<1> QED
  BY <1>1, <1>3, <1>5, <1>6, <1>7, <1>8, <1>11 DEF c, e, n

\* What takeScreenshot sends fills the buffer that was calculated for it.
LEMMA CommandIsFrame ==
  ASSUME NEW data \in Seq(Byte), Len(data) > 0, Len(data) < Power[LongBytes]
  PROVE  IsFrame(CreateWebSocketBuffer(data), data, TRUE)
<1> DEFINE n == Len(data)
           B == LengthBytes(n)
           e == Extra(n)
           a == <<TextFrame, Bit + Head(B)>>
           t == Tail(B)
           b == Two(t, Mask)
           c == Unmask(data, Mask)
           F == BuildFrame(data)
<1>1. n \in Nat /\ n > 0 /\ n < Power[LongBytes]
  BY LenProperties
<1>2. /\ B \in Seq(Byte) /\ Len(B) = 1 + e /\ e \in Nat /\ B[1] \in Nat /\ B[1] < Bit
      /\ n < Short => e = 0
      /\ n >= Short => e = IF n <= MaxShort THEN ShortBytes ELSE LongBytes
  BY <1>1, LengthBytesIs, Widths
<1>3. c = data
  <2>1. \A i \in 1 .. 4 : Mask[i] = 0
    BY DEF Mask
  <2> QED
    BY <2>1, UnmaskZero
<1>4. a \in Seq(Byte) /\ Len(a) = 2 /\ a[2] = B[1] + Bit
  <2>1. Head(B) = B[1]
    OBVIOUS
  <2> HIDE DEF B
  <2>2. Bit + Head(B) \in Byte /\ Bit + Head(B) = B[1] + Bit
    BY <1>2, <2>1, Widths DEF Byte
  <2> QED
    BY <2>2, Widths
<1>5. t \in Seq(Byte) /\ Len(t) = e /\ \A i \in 1 .. e : t[i] = B[i + 1]
  <2> HIDE DEF B, e
  <2>1. B # <<>>
    BY <1>2
  <2>2. t \in Seq(Byte) /\ Len(t) = Len(B) - 1 /\ \A i \in 1 .. Len(t) : t[i] = B[i + 1]
    BY <1>2, <2>1, HeadTailProperties
  <2> HIDE DEF t
  <2> QED
    BY <1>2, <2>2
<1>6. Mask \in Seq(Byte) /\ Len(Mask) = 4 /\ \A i \in 1 .. 4 : Mask[i] = 0
  BY TextBytes DEF Mask
<1>7. F = Four(a, t, Mask, c)
  BY DEF BuildFrame, Four
<1> HIDE DEF B, e, a, t, c, F, n
<1>8. /\ b \in Seq(Byte) /\ Len(b) = e + 4
      /\ \A i \in 1 .. e : b[i] = t[i]
      /\ \A i \in 1 .. 4 : b[e + i] = 0
  <2>1. /\ b \in Seq(Byte) /\ Len(b) = Len(t) + Len(Mask)
        /\ \A i \in 1 .. Len(t) + Len(Mask) : b[i] = IF i <= Len(t) THEN t[i] ELSE Mask[i - Len(t)]
    BY <1>5, <1>6, ConcatProperties DEF Two
  <2> HIDE DEF b
  <2>2. \A i \in 1 .. 4 : e + i \in 1 .. e + 4 /\ ~(e + i <= e) /\ (e + i) - e = i
    BY <1>2
  <2> QED
    BY <1>2, <1>5, <1>6, <2>1, <2>2
<1>9. F = Three(a, b, c)
  <2>1. a \in Seq(Byte) /\ t \in Seq(Byte) /\ Mask \in Seq(Byte)
    BY <1>4, <1>5, <1>6
  <2>2. Four(a, t, Mask, c) = Three(a, Two(t, Mask), c)
    BY <2>1, FourAreThree
  <2> QED
    BY <1>7, <2>2 DEF b
<1> HIDE DEF b
<1>10. /\ F \in Seq(Byte) /\ Len(F) = Len(a) + Len(b) + Len(c)
       /\ \A i \in 1 .. Len(a) : F[i] = a[i]
       /\ \A i \in 1 .. Len(b) : F[Len(a) + i] = b[i]
       /\ \A i \in 1 .. Len(c) : F[Len(a) + Len(b) + i] = c[i]
  <2>1. a \in Seq(Byte) /\ b \in Seq(Byte) /\ c \in Seq(Byte)
    BY <1>3, <1>4, <1>8
  <2>2. Three(a, b, c) \in Seq(Byte) /\ Len(Three(a, b, c)) = Len(a) + Len(b) + Len(c)
    BY <2>1, ThreeParts
  <2>3. \A i \in 1 .. Len(a) : Three(a, b, c)[i] = a[i]
    BY <2>1, ThreeParts
  <2>4. \A i \in 1 .. Len(b) : Three(a, b, c)[Len(a) + i] = b[i]
    BY <2>1, ThreeParts
  <2>5. \A i \in 1 .. Len(c) : Three(a, b, c)[Len(a) + Len(b) + i] = c[i]
    BY <2>1, ThreeParts
  <2> QED
    BY <1>9, <2>2, <2>3, <2>4, <2>5
<1>11. Len(c) = n /\ Len(F) = (2 + e + 4) + n
  BY <1>1, <1>2, <1>3, <1>4, <1>8, <1>10 DEF n
<1>12. CalcFrameSize(n) = Len(F)
  <2>1. (IF n < Short THEN 0 ELSE IF n > MaxShort THEN LongBytes ELSE ShortBytes) = e
    <3>1. MaxShort \in Int
      BY Widths, PowerIs DEF MaxShort
    <3> QED
      BY <1>1, <1>2, <3>1, Widths
  <2>2. CalcFrameSize(n) = n + 2 + e + 4
    BY <1>6, <2>1 DEF CalcFrameSize
  <2> QED
    BY <1>1, <1>2, <1>11, <2>2
<1>13. CreateWebSocketBuffer(data) = F
  <2>1. CreateWebSocketBuffer(data) = [i \in 1 .. Len(F) |-> IF i \in DOMAIN F THEN F[i] ELSE 0]
    BY <1>12 DEF CreateWebSocketBuffer, F, n
  <2>2. DOMAIN F = 1 .. Len(F) /\ F = [i \in 1 .. Len(F) |-> F[i]]
    BY <1>10
  <2> QED
    BY <2>1, <2>2
<1>14. HeaderOf(data, TRUE) = 2 + e + 4
  BY DEF HeaderOf, MaskBytes, e, n
<1>15. F[2] = B[1] + Bit /\ \A i \in 2 .. Len(B) : F[1 + i] = B[i]
  <2>1. F[2] = a[2]
    BY <1>4, <1>10
  <2>2. ASSUME NEW i \in 2 .. Len(B) PROVE F[1 + i] = B[i]
    <3>1. i - 1 \in 1 .. e /\ i - 1 \in 1 .. Len(b) /\ Len(a) + (i - 1) = 1 + i /\ (i - 1) + 1 = i
      BY <1>2, <1>4, <1>8
    <3>2. F[Len(a) + (i - 1)] = b[i - 1] /\ b[i - 1] = t[i - 1] /\ t[i - 1] = B[(i - 1) + 1]
      BY <1>5, <1>8, <1>10, <3>1
    <3> QED
      BY <3>1, <3>2
  <2> QED
    BY <1>4, <2>1, <2>2
<1>16. \A i \in 1 .. 4 : F[1 + Len(B) + i] = 0
  <2> SUFFICES ASSUME NEW i \in 1 .. 4 PROVE F[1 + Len(B) + i] = 0
    OBVIOUS
  <2>1. e + i \in 1 .. Len(b) /\ Len(a) + (e + i) = 1 + Len(B) + i
    BY <1>2, <1>4, <1>8
  <2>2. F[Len(a) + (e + i)] = b[e + i]
    BY <1>10, <2>1
  <2> QED
    BY <1>8, <2>1, <2>2
<1>17. \A i \in 1 .. Len(data) : F[(2 + e + 4) + i] = data[i]
  <2>1. Len(a) + Len(b) = 2 + e + 4
    BY <1>2, <1>4, <1>8
  <2> QED
    BY <1>3, <1>10, <2>1
<1>18. IsFrame(F, data, TRUE)
  BY <1>1, <1>10, <1>11, <1>14, <1>15, <1>16, <1>17 DEF IsFrame, B, n
<1> QED
  BY <1>13, <1>18

-----------------------------------------------------------------------------
(* PiecesOfFrames *)

LEMMA FramesAre == \A k \in 1 .. 4 : Frames[k] \in Framed
BY DEF Frames, Framed, Targets, Attached, Session, Capture

LEMMA NoFrames == FirstFrames(0) = <<>>
<1>1. [i \in 1 .. 0 |-> Wire(Frames[i])] = <<>>
  OBVIOUS
<1> QED
  BY <1>1, FlattenEmpty DEF FirstFrames

LEMMA NextFrame ==
  ASSUME size \in Sizes, NEW k \in 0 .. 3
  PROVE  FirstFrames(k + 1) = FirstFrames(k) \o Wire(Frames[k + 1])
<1> DEFINE f == [i \in 1 .. k + 1 |-> Wire(Frames[i])]
<1>1. k \in Nat /\ k + 1 \in 1 .. k + 1
  OBVIOUS
<1>2. \A i \in 1 .. k + 1 : Wire(Frames[i]) \in Seq(Byte)
  <2>1. \A i \in 1 .. k + 1 : i \in 1 .. 4
    OBVIOUS
  <2> QED
    BY <2>1, FramesAre, WireIsFrame
<1>3. f \in [1 .. k + 1 -> Seq(Byte)]
  BY <1>2
<1>4. /\ [i \in 1 .. k |-> f[i]] = [i \in 1 .. k |-> Wire(Frames[i])]
      /\ [i \in 1 .. k + 1 |-> f[i]] = [i \in 1 .. k + 1 |-> Wire(Frames[i])]
      /\ f[k + 1] = Wire(Frames[k + 1])
  BY <1>1
<1> HIDE DEF f
<1>5. FlattenSeq([i \in 1 .. k + 1 |-> f[i]]) = FlattenSeq([i \in 1 .. k |-> f[i]]) \o f[k + 1]
  BY <1>1, <1>3, FlattenStep
<1> QED
  BY <1>4, <1>5 DEF FirstFrames

\* The parser after whole frames.
WholeFrames(k) ==
  /\ FirstFrames(k) \in Seq(Byte) /\ Execute(FirstFrames(k)).state = "start"
  /\ Execute(FirstFrames(k)).bodies = [i \in 1 .. k |-> Payload(Frames[i])]

LEMMA WholeFramesAreRead ==
  ASSUME size \in Sizes, NEW k \in 0 .. 4
  PROVE  WholeFrames(k)
<1>1. WholeFrames(0)
  <2>1. [i \in 1 .. 0 |-> Payload(Frames[i])] = <<>> /\ <<>> \in Seq(Byte)
    OBVIOUS
  <2> QED
    BY <2>1, NoFrames, ExecuteEmpty, NewIsSound DEF WholeFrames
<1>2. ASSUME NEW j \in 0 .. 3, WholeFrames(j) PROVE WholeFrames(j + 1)
  <2> DEFINE d == FirstFrames(j)
             m == Frames[j + 1]
             F == Wire(m)
             p == [i \in 1 .. j + 1 |-> Payload(Frames[i])]
  <2>1. m \in Framed /\ j \in Nat
    <3>1. j + 1 \in 1 .. 4 /\ j \in Nat
      OBVIOUS
    <3> QED
      BY <3>1, FramesAre
  <2>2. FirstFrames(j + 1) = d \o F
    BY NextFrame
  <2>3. IsFrame(F, Payload(m), Plain) /\ F \in Seq(Byte)
    BY <2>1, WireIsFrame
  <2>4. /\ d \in Seq(Byte) /\ Execute(d).state = "start"
        /\ Execute(d).bodies = [i \in 1 .. j |-> Payload(Frames[i])]
    BY <1>2 DEF WholeFrames
  <2>5. p \in [1 .. j + 1 -> Seq(Byte)]
    <3>1. \A i \in 1 .. j + 1 : i \in 1 .. 4
      OBVIOUS
    <3>2. \A i \in 1 .. j + 1 : Frames[i] \in Messages
      BY <3>1, FramesAre, WireIsFrame
    <3>3. \A i \in 1 .. j + 1 : Payload(Frames[i]) \in Seq(Byte)
      BY <3>2, SizeFacts
    <3> QED
      BY <3>3
  <2>6. /\ [i \in 1 .. j |-> p[i]] = [i \in 1 .. j |-> Payload(Frames[i])]
        /\ [i \in 1 .. j + 1 |-> p[i]] = [i \in 1 .. j + 1 |-> Payload(Frames[i])]
        /\ p[j + 1] = Payload(m)
    <3>1. \A i \in 1 .. j : i \in 1 .. j + 1
      OBVIOUS
    <3>2. j + 1 \in 1 .. j + 1
      OBVIOUS
    <3> QED
      BY <3>1, <3>2
  <2> HIDE DEF p
  <2>7. [i \in 1 .. j + 1 |-> p[i]] = Append([i \in 1 .. j |-> p[i]], p[j + 1])
    BY <2>1, <2>5, OneMore
  <2> HIDE DEF d, F, m
  <2>8. /\ Execute(d \o F).state = "start"
        /\ Execute(d \o F).bodies = Append(Execute(d).bodies, Payload(m))
    BY <2>3, <2>4, FrameEnds
  <2>9. d \o F \in Seq(Byte)
    BY <2>3, <2>4, ConcatProperties
  <2> QED
    BY <2>2, <2>4, <2>6, <2>7, <2>8, <2>9 DEF WholeFrames
<1>3. WholeFrames(0 + 1)
  BY <1>1, <1>2
<1>4. WholeFrames(1 + 1)
  BY <1>2, <1>3
<1>5. WholeFrames(2 + 1)
  BY <1>2, <1>4
<1>6. WholeFrames(3 + 1)
  BY <1>2, <1>5
<1>7. k = 0 \/ k = 0 + 1 \/ k = 1 + 1 \/ k = 2 + 1 \/ k = 3 + 1
  OBVIOUS
<1> QED
  BY <1>1, <1>3, <1>4, <1>5, <1>6, <1>7

LEMMA FramesInPieces ==
  ASSUME size \in Sizes
  PROVE  PiecesOfFrames
<1> SUFFICES ASSUME NEW k \in 1 .. 4, NEW n \in 0 .. Len(Wire(Frames[k]))
    PROVE  LET header == 1 + Len(LengthBytes(size[Frames[k]]))
               part == SubSeq(Payload(Frames[k]), 1, n - header)
           IN  GetFrameBodyVector(FirstFrames(k - 1) \o SubSeq(Wire(Frames[k]), 1, n)) =
                 [i \in 1 .. k - 1 |-> Payload(Frames[i])] \o (IF part = <<>> THEN <<>> ELSE <<part>>)
  BY DEF PiecesOfFrames
<1> DEFINE m == Frames[k]
           F == Wire(m)
           d == FirstFrames(k - 1)
           data == Payload(m)
           header == 1 + Len(LengthBytes(size[m]))
           part == SubSeq(data, 1, n - header)
           before == [i \in 1 .. k - 1 |-> Payload(Frames[i])]
<1>1. m \in Framed /\ k - 1 \in 0 .. 4
  BY FramesAre
<1>2. /\ IsFrame(F, data, Plain) /\ m \in Messages /\ HeaderOf(data, Plain) = 2 + Extra(size[m])
      /\ Extra(size[m]) \in Nat /\ Len(F) = 2 + Extra(size[m]) + size[m]
  BY <1>1, WireIsFrame
<1>3. data \in Seq(Byte) /\ Len(data) = size[m] /\ size[m] \in Nat /\ size[m] > 0 /\ size[m] + 1 < Power[LongBytes]
  BY <1>2, SizeFacts
<1>4. header = HeaderOf(data, Plain) /\ header \in Nat
  <2>1. size[m] < Power[LongBytes]
    <3>1. Power[LongBytes] \in Nat
      BY PowerIs, Widths
    <3> QED
      BY <1>3, <3>1
  <2>2. Len(LengthBytes(size[m])) = 1 + Extra(size[m])
    BY <1>3, <2>1, LengthBytesIs
  <2>3. header = 1 + (1 + Extra(size[m])) /\ HeaderOf(data, Plain) = 2 + Extra(size[m]) /\ Extra(size[m]) \in Nat
    BY <1>2, <2>2
  <2> HIDE DEF header, data, m
  <2> QED
    BY <2>3
<1>5. d \in Seq(Byte) /\ Execute(d).state = "start" /\ Execute(d).bodies = before
  BY <1>1, WholeFramesAreRead DEF WholeFrames
<1> HIDE DEF m, F, d, data, header, before
<1>6. n \in 0 .. Len(F)
  BY DEF F, m
<1>7. Bodies[After(d, F, n)] = Execute(d).bodies \o Part(data, Plain, n)
  <2>1. IsFrame(F, data, Plain)
    BY <1>2
  <2>2. d \in Seq(Byte) /\ Execute(d).state = "start"
    BY <1>5
  <2> QED
    BY <2>1, <2>2, <1>6, FramePart
<1>a. n \in Nat /\ header \in Nat /\ Len(data) \in Nat /\ n <= header + Len(data)
  <2>1. Len(F) = header + Len(data)
    BY <1>2, <1>3, <1>4
  <2> QED
    BY <1>3, <1>4, <1>6, <2>1
<1>8. Part(data, Plain, n) = IF part = <<>> THEN <<>> ELSE <<part>>
  <2>1. CASE n > header
    <3>1. n - header \in 0 .. Len(data) /\ n - header > 0
      BY <1>a, <2>1
    <3>2. Len(part) = n - header
      BY <1>3, <3>1, Beginning
    <3>3. part # <<>>
      BY <3>1, <3>2
    <3> QED
      BY <1>4, <2>1, <3>3 DEF Part
  <2>2. CASE n <= header
    <3>1. 1 \in Int /\ n - header \in Int /\ n - header < 1 /\ ~(n > header)
      BY <1>a, <2>2
    <3>2. part = <<>>
      BY <3>1, SubSeqEmpty
    <3> QED
      BY <1>4, <3>1, <3>2 DEF Part
  <2> HIDE DEF part
  <2> QED
    BY <1>a, <2>1, <2>2
<1>9. GetFrameBodyVector(d \o SubSeq(F, 1, n)) = before \o (IF part = <<>> THEN <<>> ELSE <<part>>)
  BY <1>5, <1>7, <1>8 DEF GetFrameBodyVector, After
<1> QED
  BY <1>9 DEF m, F, d, data, header, before

-----------------------------------------------------------------------------
(* A whole body needs its header: bytes that are fewer than a frame of length n *)
(* do not begin with a body of that length, whatever they are.                  *)

\* With r bytes to come, the first body stays shorter than n.
Safe(P, r, n) ==
  /\ r \in Nat /\ r <= n + Extra(n) + 1
  /\ P.bodies # <<>> => Len(P.bodies[1]) < n
  /\ P.bodies = <<>> =>
       /\ P.state = "head" => r <= n + Extra(n)
       /\ P.state = "length" => \/ r < P.require + n
                                \/ /\ P.require <= ShortBytes /\ n >= Power[ShortBytes]
                                   /\ P.length < Power[ShortBytes - P.require]
       /\ P.state = "mask" => P.length < n \/ r < P.require + n
       /\ P.state = "body" => P.length < n \/ Len(P.body) + r < n

\* The length, or what comes after it.
LEMMA SafeAfterLength ==
  ASSUME NEW P, Sound(P), P.body = <<>>, NEW r \in Nat, NEW n \in Nat, n > 0, r <= n + Extra(n) + 1,
         \/ P.state = "mask" /\ P.require = 4
         \/ P.state = "body" /\ P.require = P.length
         \/ P.state = "start",
         P.length < n \/ r < n,
         P.bodies = <<>>
  PROVE  Safe(P, r, n)
<1>1. Len(P.body) = 0
  BY Empties
<1>2. P.length \in Nat
  BY ParserFields DEF Sound
<1>3. P.state = "mask" => P.length < n \/ r < P.require + n
  OBVIOUS
<1>4. P.state = "body" => P.length < n \/ Len(P.body) + r < n
  BY <1>1
<1>5. P.state \in {"mask", "body", "start"}
  OBVIOUS
<1> QED
  BY <1>3, <1>4, <1>5 DEF Safe

LEMMA FirstBodyStays ==
  ASSUME NEW X, NEW s \in Seq(X), s # <<>>, NEW x \in X
  PROVE  Append(s, x) # <<>> /\ Append(s, x)[1] = s[1]
<1>1. Len(s) \in Nat /\ Len(s) > 0
  BY LenProperties, EmptySeq
<1> QED
  BY <1>1, AppendProperties

LEMMA BodiesGrow ==
  ASSUME NEW P, Sound(P), P.bodies # <<>>, NEW b \in Byte
  PROVE  TakeByte(b)[P].bodies # <<>> /\ TakeByte(b)[P].bodies[1] = P.bodies[1]
<1> DEFINE Q == TakeByte(b)[P]
<1>1. P.state \in {"start", "head", "length", "mask", "body"} /\ P.bodies \in Seq(Seq(Nat)) /\ P.require \in Nat
  BY ParserFields DEF Sound
<1>2. Sound(Q) /\ Q.bodies \in Seq(Seq(Nat))
  BY TakeByteSound, ParserFields DEF Sound
<1>q. Q = TakeByte(b)[P]
  OBVIOUS
<1> HIDE DEF Q
<1>3. CASE P.state # "body"
  <2>1. Q.bodies = P.bodies
    BY <1>1, <1>3, <1>q, TakeStartIs, TakeHeadIs, TakeLengthIs, TakeMaskIs
  <2> QED
    BY <1>q, <2>1
<1>4. CASE P.state = "body" /\ P.require > 1
  <2>1. Q.bodies = P.bodies
    BY <1>4, <1>q, TakeBodyIs
  <2> QED
    BY <1>q, <2>1
<1>5. CASE P.state = "body" /\ P.require = 1
  <2> DEFINE s == Shown(P, Append(P.body, b))
  <2>1. Q.bodies = Append(P.bodies, s)
    BY <1>5, <1>q, TakeBodyIs
  <2>2. s \in Seq(Nat)
    <3>1. Append(P.body, b) \in Seq(Nat) /\ P.mask \in Seq(Nat)
      BY <1>5, TakeBodyIs, ParserFields DEF Sound
    <3>2. P.masked => Len(P.mask) = 4
      BY <1>5 DEF Sound
    <3> QED
      BY <3>1, <3>2, UnmaskType DEF Shown
  <2> DEFINE B == P.bodies
  <2>3. B \in Seq(Seq(Nat)) /\ B # <<>> /\ Q.bodies = Append(B, s)
    BY <1>1, <2>1
  <2> HIDE DEF s, B
  <2>4. Append(B, s) # <<>> /\ Append(B, s)[1] = B[1]
    BY <2>2, <2>3, FirstBodyStays
  <2> QED
    BY <1>q, <2>3, <2>4 DEF B
<1>6. P.state = "body" => P.require > 0
  BY DEF Sound
<1> QED
  BY <1>1, <1>3, <1>4, <1>5, <1>6

LEMMA SafeStart ==
  ASSUME NEW P, Sound(P), P.state = "start", P.bodies = <<>>, NEW r \in Nat, NEW n \in Nat,
         Extra(n) \in Nat, Safe(P, r + 1, n), NEW b \in Byte
  PROVE  Safe(TakeByte(b)[P], r, n)
<1> DEFINE Q == TakeByte(b)[P]
<1>q. Q = TakeByte(b)[P]
  OBVIOUS
<1>1. r + 1 <= n + Extra(n) + 1
  BY DEF Safe
<1> HIDE DEF Q
<1>2. Q.state = "head" /\ Q.bodies = <<>>
  BY <1>q, TakeStartIs
<1>3. r <= n + Extra(n) /\ r <= n + Extra(n) + 1
  BY <1>1
<1> QED
  BY <1>q, <1>2, <1>3 DEF Safe

\* Which form a length has.
LEMMA FormOf ==
  ASSUME NEW n \in Nat, n < Power[LongBytes]
  PROVE  /\ Extra(n) \in Nat /\ MaxShort \in Int
         /\ n < Short => Extra(n) = 0
         /\ n >= Short /\ n <= MaxShort => Extra(n) = ShortBytes
         /\ n >= Short /\ n > MaxShort => Extra(n) = LongBytes /\ n >= Power[ShortBytes]
<1>1. MaxShort \in Int /\ Power[ShortBytes] \in Nat /\ MaxShort = Power[ShortBytes] - 1
  BY Widths, PowerIs DEF MaxShort
<1>3. Extra(n) \in Nat
  BY LengthBytesIs, Widths
<1>4. n < Short => Extra(n) = 0
  BY LengthBytesIs
<1>5. n >= Short => Extra(n) = IF n <= MaxShort THEN ShortBytes ELSE LongBytes
  BY LengthBytesIs
<1>6. ~(n <= MaxShort) => n >= Power[ShortBytes]
  BY <1>1
<1>7. n > MaxShort => ~(n <= MaxShort)
  BY <1>1
<1> QED
  BY <1>1, <1>3, <1>4, <1>5, <1>6, <1>7

LEMMA SafeHead ==
  ASSUME NEW P, Sound(P), P.state = "head", P.bodies = <<>>, NEW r \in Nat, NEW n \in Nat, n > 0,
         n < Power[LongBytes], Safe(P, r + 1, n), NEW b \in Byte
  PROVE  Safe(TakeByte(b)[P], r, n)
<1> DEFINE Q == TakeByte(b)[P]
           l == b % Bit
           e == Extra(n)
<1>q. Q = TakeByte(b)[P] /\ l = b % Bit
  OBVIOUS
<1>0. r + 1 <= n + e
  BY DEF Safe
<1>f. /\ e \in Nat /\ MaxShort \in Int
      /\ n < Short => e = 0
      /\ n >= Short /\ n <= MaxShort => e = ShortBytes
      /\ n >= Short /\ n > MaxShort => e = LongBytes /\ n >= Power[ShortBytes]
  BY FormOf
<1> HIDE DEF Q, l, e
<1>1. Sound(Q) /\ l \in Nat /\ Q.body = <<>> /\ Q.bodies = <<>>
  BY <1>q, TakeHeadIs
<1>2. b \in Nat
  BY Widths DEF Byte
<1>3. CASE l >= Short
  <2>1. Q.state = "length" /\ Q.length = 0 /\ Q.require = IF l = Long THEN LongBytes ELSE ShortBytes
    BY <1>3, <1>q, TakeHeadIs
  <2>2. \/ r < Q.require + n
        \/ Q.require <= ShortBytes /\ n >= Power[ShortBytes] /\ Q.length < Power[ShortBytes - Q.require]
    <3>1. CASE n < Short
      <4>1. e = 0 /\ Q.require \in Nat /\ Q.require >= 1
        BY <1>f, <2>1, <3>1, Widths
      <4> QED
        BY <1>0, <4>1
    <3>2. CASE n >= Short /\ n <= MaxShort
      <4>1. e = ShortBytes /\ Q.require \in Nat /\ Q.require >= ShortBytes
        BY <1>f, <2>1, <3>2, Widths
      <4> QED
        BY <1>0, <4>1, Widths
    <3>3. CASE n >= Short /\ n > MaxShort
      <4>1. e = LongBytes /\ n >= Power[ShortBytes]
        BY <1>f, <3>3
      <4>2. CASE Q.require = LongBytes
        BY <1>0, <4>1, <4>2, Widths
      <4>3. CASE Q.require = ShortBytes
        <5>1. ShortBytes - Q.require = 0 /\ Q.require <= ShortBytes
          BY <4>3, Widths
        <5>2. Q.length < Power[ShortBytes - Q.require]
          BY <2>1, <5>1, PowerIs
        <5> QED
          BY <4>1, <5>1, <5>2
      <4> QED
        BY <2>1, <4>2, <4>3
    <3> QED
      BY <1>f, <3>1, <3>2, <3>3, Widths
  <2>3. r <= n + Extra(n) + 1
    BY <1>0, <1>f DEF e
  <2> QED
    BY <1>q, <1>1, <2>1, <2>2, <2>3 DEF Safe
<1>4. CASE l < Short
  <2>1. /\ Q.length = l
        /\ \/ Q.state = "mask" /\ Q.require = 4
           \/ Q.state = "body" /\ Q.require = Q.length
           \/ Q.state = "start"
    <3>1. /\ Q.length = l
          /\ b >= Bit => Q.state = "mask" /\ Q.require = 4 /\ Q.mask = <<>>
          /\ b < Bit /\ l > 0 => Q.state = "body" /\ Q.require = l
          /\ b < Bit /\ l = 0 => Q.state = "start"
      BY <1>4, <1>q, TakeHeadIs
    <3>2. (b >= Bit \/ b < Bit) /\ (l > 0 \/ l = 0)
      BY <1>1, <1>2, Widths
    <3> QED
      BY <3>1, <3>2
  <2>2. Q.length < n \/ r < n
    <3>1. CASE n < Short
      BY <1>0, <1>f, <3>1
    <3>2. CASE n >= Short
      BY <1>1, <1>4, <2>1, <3>2, Widths
    <3> QED
      BY <3>1, <3>2, Widths
  <2>3. r <= n + Extra(n) + 1
    BY <1>0, <1>f DEF e
  <2>4. Safe(Q, r, n)
    BY <1>1, <2>1, <2>2, <2>3, SafeAfterLength
  <2> QED
    BY <1>q, <2>4
<1> QED
  BY <1>1, <1>3, <1>4, Widths

LEMMA SafeLength ==
  ASSUME NEW P, Sound(P), P.state = "length", P.bodies = <<>>, NEW r \in Nat, NEW n \in Nat, n > 0,
         n < Power[LongBytes], Safe(P, r + 1, n), NEW b \in Byte
  PROVE  Safe(TakeByte(b)[P], r, n)
<1> DEFINE Q == TakeByte(b)[P]
           e == Extra(n)
<1>q. Q = TakeByte(b)[P]
  OBVIOUS
<1>r. r <= n + Extra(n) + 1
  <2>1. r + 1 <= n + Extra(n) + 1 /\ Extra(n) \in Nat
    BY FormOf DEF Safe
  <2> QED
    BY <2>1
<1>0. \/ r + 1 < P.require + n
      \/ P.require <= ShortBytes /\ n >= Power[ShortBytes] /\ P.length < Power[ShortBytes - P.require]
  BY DEF Safe
<1>1. P.require \in Nat /\ P.require > 0 /\ P.length \in Nat
  BY ParserFields DEF Sound
<1> HIDE DEF Q, e
<1>2. /\ Sound(Q) /\ Q.body = <<>> /\ Q.bodies = <<>>
      /\ Q.length = P.length * Base + b
  BY <1>q, TakeLengthIs
<1>3. b \in Nat /\ b < Base /\ Base \in Nat /\ Base > 0
  BY Widths DEF Byte
<1>4. ASSUME P.require <= ShortBytes, P.length < Power[ShortBytes - P.require]
      PROVE  Q.length < Power[ShortBytes - (P.require - 1)]
  <2> DEFINE k == ShortBytes - P.require
             p == Power[k]
  <2>1. k \in Nat /\ k < LongBytes /\ ShortBytes - (P.require - 1) = k + 1 /\ k \in 0 .. LongBytes
    BY <1>1, <1>4, Widths
  <2>2. Power[k + 1] = Base * p /\ p \in Nat
    <3>1. Power[k] \in Nat
      BY <2>1, PowerIs
    <3>2. Power[k + 1] = Base * Power[k]
      BY <2>1, PowerIs
    <3> QED
      BY <3>1, <3>2
  <2>3. P.length <= p - 1
    BY <1>1, <1>4, <2>2
  <2> HIDE DEF p, k
  <2>4. \A x, y \in Nat : x <= y - 1 => x * Base + b < Base * y
    <3> SUFFICES ASSUME NEW x \in Nat, NEW y \in Nat, x <= y - 1 PROVE x * Base + b < Base * y
      OBVIOUS
    <3>1. x * Base <= (y - 1) * Base
      BY <1>3
    <3>2. (y - 1) * Base = Base * y - Base
      BY <1>3
    <3>3. x * Base \in Nat /\ Base * y \in Nat
      BY <1>3
    <3> QED
      BY <1>3, <3>1, <3>2, <3>3
  <2>5. P.length * Base + b < Base * p
    BY <1>1, <2>2, <2>3, <2>4
  <2> QED
    BY <1>2, <2>1, <2>2, <2>5
<1>5. CASE P.require > 1
  <2>1. Q.state = "length" /\ Q.require = P.require - 1
    BY <1>5, <1>q, TakeLengthIs
  <2>2. \/ r < Q.require + n
        \/ Q.require <= ShortBytes /\ n >= Power[ShortBytes] /\ Q.length < Power[ShortBytes - Q.require]
    <3>1. CASE r + 1 < P.require + n
      BY <1>1, <2>1, <3>1
    <3>2. CASE P.require <= ShortBytes /\ n >= Power[ShortBytes] /\ P.length < Power[ShortBytes - P.require]
      BY <1>1, <1>4, <2>1, <3>2, Widths
    <3> QED
      BY <1>0, <3>1, <3>2
  <2> QED
    BY <1>q, <1>r, <1>2, <2>1, <2>2 DEF Safe
<1>6. CASE P.require = 1
  <2>1. \/ Q.state = "mask" /\ Q.require = 4
        \/ Q.state = "body" /\ Q.require = Q.length
        \/ Q.state = "start"
    <3>1. /\ P.masked => Q.state = "mask" /\ Q.require = 4 /\ Q.mask = <<>>
          /\ ~P.masked /\ Q.length > 0 => Q.state = "body" /\ Q.require = Q.length
          /\ ~P.masked /\ Q.length = 0 => Q.state = "start"
      BY <1>6, <1>q, TakeLengthIs
    <3>2. Q.length \in Nat
      BY <1>2, ParserFields DEF Sound
    <3> QED
      BY <3>1, <3>2
  <2>2. Q.length < n \/ r < n
    <3>1. CASE r + 1 < P.require + n
      BY <1>6, <3>1
    <3>2. CASE P.require <= ShortBytes /\ n >= Power[ShortBytes] /\ P.length < Power[ShortBytes - P.require]
      <4>1. Q.length < Power[ShortBytes - (P.require - 1)]
        BY <1>4, <3>2
      <4>2. ShortBytes - (P.require - 1) = ShortBytes /\ Power[ShortBytes] \in Nat
        BY <1>6, Widths, PowerIs
      <4>3. Q.length \in Nat
        BY <1>2, ParserFields DEF Sound
      <4> QED
        BY <3>2, <4>1, <4>2, <4>3
    <3> QED
      BY <1>0, <3>1, <3>2
  <2>3. Safe(Q, r, n)
    BY <1>2, <1>r, <2>1, <2>2, SafeAfterLength
  <2> QED
    BY <1>q, <2>3
<1> QED
  BY <1>1, <1>5, <1>6

LEMMA SafeMask ==
  ASSUME NEW P, Sound(P), P.state = "mask", P.bodies = <<>>, NEW r \in Nat, NEW n \in Nat, n > 0,
         n < Power[LongBytes], Safe(P, r + 1, n), NEW b \in Byte
  PROVE  Safe(TakeByte(b)[P], r, n)
<1> DEFINE Q == TakeByte(b)[P]
<1>q. Q = TakeByte(b)[P]
  OBVIOUS
<1>r. r <= n + Extra(n) + 1
  <2>1. r + 1 <= n + Extra(n) + 1 /\ Extra(n) \in Nat
    BY FormOf DEF Safe
  <2> QED
    BY <2>1
<1>0. P.length < n \/ r + 1 < P.require + n
  BY DEF Safe
<1>1. P.require \in Nat /\ P.require > 0 /\ P.length \in Nat
  BY ParserFields DEF Sound
<1> HIDE DEF Q
<1>2. Sound(Q) /\ Q.body = <<>> /\ Q.bodies = <<>> /\ Q.length = P.length
  BY <1>q, TakeMaskIs
<1>3. CASE P.require > 1
  <2>1. Q.state = "mask" /\ Q.require = P.require - 1
    BY <1>3, <1>q, TakeMaskIs
  <2>2. Q.length < n \/ r < Q.require + n
    BY <1>0, <1>1, <1>2, <2>1
  <2> QED
    BY <1>q, <1>r, <1>2, <2>1, <2>2 DEF Safe
<1>4. CASE P.require = 1
  <2>1. \/ Q.state = "body" /\ Q.require = Q.length
        \/ Q.state = "start"
    <3>1. /\ Q.length > 0 => Q.state = "body" /\ Q.require = Q.length
          /\ Q.length = 0 => Q.state = "start"
      BY <1>4, <1>q, TakeMaskIs
    <3> QED
      BY <1>1, <1>2, <3>1
  <2>2. Q.length < n \/ r < n
    BY <1>0, <1>1, <1>2, <1>4
  <2>3. Safe(Q, r, n)
    BY <1>2, <1>r, <2>1, <2>2, SafeAfterLength
  <2> QED
    BY <1>q, <2>3
<1> QED
  BY <1>1, <1>3, <1>4

LEMMA SafeBody ==
  ASSUME NEW P, Sound(P), P.state = "body", P.bodies = <<>>, NEW r \in Nat, NEW n \in Nat, n > 0,
         n < Power[LongBytes], Safe(P, r + 1, n), NEW b \in Byte
  PROVE  Safe(TakeByte(b)[P], r, n)
<1> DEFINE Q == TakeByte(b)[P]
           s == Shown(P, Append(P.body, b))
<1>q. Q = TakeByte(b)[P]
  OBVIOUS
<1>r. r <= n + Extra(n) + 1
  <2>1. r + 1 <= n + Extra(n) + 1 /\ Extra(n) \in Nat
    BY FormOf DEF Safe
  <2> QED
    BY <2>1
<1>0. P.length < n \/ Len(P.body) + (r + 1) < n
  BY DEF Safe
<1>1. P.require \in Nat /\ P.require > 0 /\ P.length \in Nat /\ Len(P.body) = P.length - P.require
  BY ParserFields DEF Sound
<1> HIDE DEF Q
<1>3. CASE P.require > 1
  <2>1. Q.state = "body" /\ Q.length = P.length /\ Q.body = Append(P.body, b) /\ Q.bodies = <<>>
    BY <1>3, <1>q, TakeBodyIs
  <2>2. Len(Q.body) = Len(P.body) + 1
    <3>1. P.body \in Seq(Nat) /\ b \in Nat
      BY ParserFields, Widths DEF Sound, Byte
    <3> QED
      BY <2>1, <3>1, AppendProperties
  <2>3. Q.length < n \/ Len(Q.body) + r < n
    BY <1>0, <1>1, <2>1, <2>2
  <2> QED
    BY <1>q, <1>r, <2>1, <2>3 DEF Safe
<1>4. CASE P.require = 1
  <2>1. Q.state = "start" /\ Q.bodies = Append(P.bodies, s) /\ Len(s) = P.length
    BY <1>4, <1>q, TakeBodyIs
  <2>2. Len(s) < n
    BY <1>0, <1>1, <1>4, <2>1
  <2> HIDE DEF s
  <2>3. Q.bodies = <<s>>
    BY <2>1
  <2>4. <<s>> # <<>> /\ <<s>>[1] = s
    OBVIOUS
  <2> QED
    BY <1>q, <1>r, <2>1, <2>2, <2>3, <2>4 DEF Safe
<1> QED
  BY <1>1, <1>3, <1>4

LEMMA SafeStep ==
  ASSUME NEW P, Sound(P), NEW r \in Nat, NEW n \in Nat, n > 0,
         n < Power[LongBytes], Safe(P, r + 1, n), NEW b \in Byte
  PROVE  Safe(TakeByte(b)[P], r, n)
<1>1. P.state \in {"start", "head", "length", "mask", "body"}
  BY ParserFields DEF Sound
<1>2. Extra(n) \in Nat
  BY FormOf
<1>3. CASE P.bodies # <<>>
  <2>1. TakeByte(b)[P].bodies # <<>> /\ TakeByte(b)[P].bodies[1] = P.bodies[1]
    BY <1>3, BodiesGrow
  <2>2. Len(P.bodies[1]) < n /\ r <= n + Extra(n) + 1
    BY <1>2, <1>3 DEF Safe
  <2> QED
    BY <2>1, <2>2 DEF Safe
<1>4. CASE P.bodies = <<>>
  BY <1>1, <1>2, <1>4, SafeStart, SafeHead, SafeLength, SafeMask, SafeBody
<1> QED
  BY <1>3, <1>4

\* What getFrameBodyVector makes of it.
LEMMA SafeBodies ==
  ASSUME NEW P, Sound(P), NEW r, NEW n \in Nat, Safe(P, r, n), Bodies[P] # <<>>
  PROVE  Len(Bodies[P][1]) < n
<1>1. /\ P \in Parser /\ P.body \in Seq(Nat) /\ P.bodies \in Seq(Seq(Nat)) /\ P.length \in Nat
      /\ P.require \in Nat /\ P.mask \in Seq(Nat)
  BY ParserFields DEF Sound
<1>2. Bodies[P] = IF P.body = <<>> THEN P.bodies ELSE Append(P.bodies, Shown(P, P.body))
  BY <1>1, BodiesIs
<1>3. CASE P.body = <<>>
  BY <1>2, <1>3 DEF Safe
<1>4. CASE P.body # <<>>
  <2> DEFINE s == Shown(P, P.body)
  <2>1. P.state = "body" /\ P.require > 0 /\ Len(P.body) = P.length - P.require
    BY <1>4 DEF Sound
  <2>2. s \in Seq(Nat) /\ Len(s) = Len(P.body)
    <3>1. P.masked => Len(P.mask) = 4
      BY <2>1 DEF Sound
    <3> QED
      BY <1>1, <3>1, UnmaskType DEF Shown
  <2> HIDE DEF s
  <2>3. Bodies[P] = Append(P.bodies, s)
    BY <1>2, <1>4 DEF s
  <2>4. CASE P.bodies = <<>>
    <3>1. Bodies[P][1] = s
      BY <2>3, <2>4
    <3>2. r \in Nat /\ (P.length < n \/ Len(P.body) + r < n)
      BY <2>1, <2>4 DEF Safe
    <3>3. Len(P.body) \in Nat
      BY <1>1, LenProperties
    <3>4. Len(P.body) < n
      BY <1>1, <2>1, <3>2, <3>3
    <3> QED
      BY <2>2, <3>1, <3>4
  <2>5. CASE P.bodies # <<>>
    <3>1. Bodies[P][1] = P.bodies[1]
      BY <1>1, <2>2, <2>3, <2>5, FirstBodyStays
    <3> QED
      BY <2>5, <3>1 DEF Safe
  <2> QED
    BY <2>4, <2>5
<1> QED
  BY <1>3, <1>4

LEMMA RunStep ==
  ASSUME NEW x \in Seq(Byte), NEW k \in Nat, NEW i \in Nat, k + i < Len(x)
  PROVE  /\ x[(k + i) + 1] \in Byte
         /\ After(<<>>, x, k + (i + 1)) = TakeByte(x[(k + i) + 1])[After(<<>>, x, k + i)]
<1>1. <<>> \in Seq(Byte)
  OBVIOUS
<1> QED
  BY <1>1, StepAt

\* Bytes x, read from the k-th on.
LEMMA SafeRun ==
  ASSUME NEW x \in Seq(Byte), NEW k \in 0 .. Len(x), NEW r \in Nat, NEW n \in Nat, n > 0,
         n < Power[LongBytes], Safe(After(<<>>, x, k), r, n), Len(x) - k <= r,
         GetFrameBodyVector(x) # <<>>
  PROVE  Len(GetFrameBodyVector(x)[1]) < n
<1> DEFINE P(i) == After(<<>>, x, k + i)
           S == {i \in Nat : k + i <= Len(x) => Safe(P(i), r - i, n)}
<1>1. Len(x) \in Nat /\ k \in Nat /\ k <= Len(x) /\ <<>> \in Seq(Byte)
  BY LenProperties
<1>2. 0 \in S
  <2>1. k + 0 = k /\ r - 0 = r
    BY <1>1
  <2> QED
    BY <2>1
<1>3. ASSUME NEW i \in Nat, i \in S PROVE i + 1 \in S
  <2> SUFFICES ASSUME k + (i + 1) <= Len(x) PROVE Safe(P(i + 1), r - (i + 1), n)
    OBVIOUS
  <2>1. /\ k + i \in Nat /\ k + i < Len(x) /\ k + (i + 1) = (k + i) + 1 /\ k + i \in 0 .. Len(x)
        /\ r - (i + 1) \in Nat /\ r - i = (r - (i + 1)) + 1 /\ k + i <= Len(x)
    BY <1>1
  <2>2. x[(k + i) + 1] \in Byte /\ P(i + 1) = TakeByte(x[(k + i) + 1])[P(i)]
    BY <1>1, <2>1, RunStep
  <2>3. Sound(P(i))
    BY <1>1, <2>1, AfterSound
  <2>4. Safe(P(i), (r - (i + 1)) + 1, n)
    BY <1>3, <2>1
  <2> HIDE DEF P
  <2> QED
    BY <2>1, <2>2, <2>3, <2>4, SafeStep
<1>4. \A i \in Nat : i \in S
  <2> HIDE DEF S
  <2> QED
    BY <1>2, <1>3, Induction
<1>5. Safe(P(Len(x) - k), r - (Len(x) - k), n)
  <2>1. Len(x) - k \in Nat /\ k + (Len(x) - k) <= Len(x)
    BY <1>1
  <2> HIDE DEF P
  <2> QED
    BY <1>4, <2>1
<1>6. P(Len(x) - k) = Execute(x)
  <2>1. k + (Len(x) - k) = Len(x)
    BY <1>1
  <2>2. <<>> \o x = x
    BY ConcatEmptySeq
  <2> QED
    BY <2>1, <2>2, AfterWhole
<1>7. Sound(Execute(x))
  BY ExecuteSound
<1> HIDE DEF P
<1> QED
  BY <1>5, <1>6, <1>7, SafeBodies DEF GetFrameBodyVector

LEMMA FewBytes ==
  ASSUME NEW x \in Seq(Byte), NEW n \in Nat, n > 0, n < Power[LongBytes], Len(x) <= n + Extra(n) + 1,
         GetFrameBodyVector(x) # <<>>
  PROVE  Len(GetFrameBodyVector(x)[1]) < n
<1> DEFINE r == n + Extra(n) + 1
<1>1. r \in Nat /\ Len(x) \in Nat /\ 0 \in 0 .. Len(x) /\ Len(x) - 0 <= r /\ <<>> \in Seq(Byte)
  BY FormOf, LenProperties
<1>2. After(<<>>, x, 0) = NewParser
  BY <1>1, AfterStarts, ExecuteEmpty
<1>3. Safe(NewParser, r, n)
  BY <1>1, NewIsSound DEF Safe
<1> HIDE DEF r
<1> QED
  BY <1>1, <1>2, <1>3, SafeRun

-----------------------------------------------------------------------------
(* An answer that is read from its beginning. *)

LEMMA ReadPart ==
  ASSUME NEW d \in Seq(Byte), NEW F, NEW data, IsFrame(F, data, Plain), Execute(d).state = "start",
         NEW x \in Seq(Byte), NEW v \in Seq(Byte), Splits(F, x, v)
  PROVE  /\ GetFrameBodyVector(d \o x) = Execute(d).bodies \o Part(data, Plain, Len(x))
         /\ Len(x) \in 0 .. Len(F)
<1>1. SubSeq(F, 1, Len(x)) = x
  BY FirstOfConcat DEF Splits
<1>2. Len(x) \in 0 .. Len(F)
  <2>1. Len(F) = Len(x) + Len(v) /\ Len(x) \in Nat /\ Len(v) \in Nat
    BY ConcatProperties, LenProperties DEF Splits
  <2> QED
    BY <2>1
<1>3. Bodies[After(d, F, Len(x))] = Execute(d).bodies \o Part(data, Plain, Len(x))
  <2> DEFINE n == Len(x)
  <2>1. n \in 0 .. Len(F)
    BY <1>2
  <2> HIDE DEF n
  <2>2. Bodies[After(d, F, n)] = Execute(d).bodies \o Part(data, Plain, n)
    BY <2>1, FramePart
  <2> QED
    BY <2>2 DEF n
<1> QED
  BY <1>1, <1>2, <1>3 DEF GetFrameBodyVector, After

\* The part of a payload of the browser's, which is the payload only at the frame's end.
LEMMA PartOfWire ==
  ASSUME size \in Sizes, NEW m \in Framed, NEW n \in 0 .. Len(Wire(m)),
         Part(Payload(m), Plain, n) # <<>>
  PROVE  /\ Part(Payload(m), Plain, n) = <<Part(Payload(m), Plain, n)[1]>>
         /\ Part(Payload(m), Plain, n)[1][1] = m
         /\ Part(Payload(m), Plain, n)[1] = Payload(m) => n = Len(Wire(m))
<1> DEFINE data == Payload(m)
           h == HeaderOf(data, Plain)
           i == n - h
           s == SubSeq(data, 1, i)
           F == Wire(m)
<1>1. m \in Messages /\ h = 2 + Extra(size[m]) /\ Extra(size[m]) \in Nat /\ Len(F) = 2 + Extra(size[m]) + size[m]
  BY WireIsFrame
<1>2. /\ data \in Seq(Byte) /\ Len(data) = size[m] /\ size[m] \in Nat /\ size[m] > 0
      /\ \A j \in 1 .. size[m] : data[j] = m
  BY <1>1, SizeFacts
<1>3. n > h /\ Part(data, Plain, n) = <<s>>
  BY DEF Part
<1> HIDE DEF data, h, F
<1>4. Len(F) = h + size[m] /\ h \in Nat /\ n \in 0 .. Len(F)
  BY <1>1, <1>2 DEF F
<1>5. i \in 0 .. Len(data) /\ i > 0 /\ (i = Len(data) => n = Len(F))
  BY <1>2, <1>3, <1>4
<1> HIDE DEF i
<1>6. Len(s) = i /\ \A j \in 1 .. i : s[j] = data[j]
  BY <1>2, <1>5, Beginning
<1> HIDE DEF s
<1>7. <<s>>[1] = s
  OBVIOUS
<1>8. s[1] = m
  <2>1. 1 \in 1 .. i /\ 1 \in 1 .. size[m]
    BY <1>2, <1>5
  <2> QED
    BY <1>2, <1>6, <2>1
<1>9. s = data => n = Len(F)
  BY <1>5, <1>6
<1> QED
  BY <1>3, <1>7, <1>8, <1>9 DEF data, F

LEMMA FromStart ==
  ASSUME size \in Sizes, NEW m \in Framed, NEW x \in Seq(Byte), NEW v \in Seq(Byte), Splits(Wire(m), x, v)
  PROVE  GetFrameBodyVector(x) = Part(Payload(m), Plain, Len(x)) /\ Len(x) \in 0 .. Len(Wire(m))
<1> DEFINE n == Len(x)
           F == Wire(m)
           data == Payload(m)
           d == <<>>
<1>1. IsFrame(F, data, Plain)
  BY WireIsFrame
<1>2. d \in Seq(Byte) /\ Execute(d).state = "start" /\ Execute(d).bodies = <<>> /\ d \o x = x
  BY ExecuteEmpty, NewIsSound, ConcatEmptySeq
<1>3. Splits(F, x, v)
  OBVIOUS
<1> HIDE DEF F, data, d, n
<1>4. GetFrameBodyVector(d \o x) = Execute(d).bodies \o Part(data, Plain, n) /\ n \in 0 .. Len(F)
  <2>1. d \in Seq(Byte) /\ Execute(d).state = "start"
    BY <1>2
  <2> QED
    BY <1>1, <2>1, <1>3, ReadPart DEF n
<1>5. Part(data, Plain, n) = <<>> \/ Part(data, Plain, n) = <<SubSeq(data, 1, n - HeaderOf(data, Plain))>>
  BY DEF Part
<1>6. GetFrameBodyVector(x) = Part(data, Plain, n)
  <2>1. <<>> \o <<>> = <<>>
    BY ConcatEmptySeq, Empties
  <2>2. \A s : <<>> \o <<s>> = <<s>>
    OBVIOUS
  <2> QED
    BY <1>2, <1>4, <1>5, <2>1, <2>2
<1> QED
  BY <1>4, <1>6 DEF F, data, n

\* The whole payload comes with the last byte.
LEMMA AlignedAnswer ==
  ASSUME size \in Sizes, NEW m \in Framed, NEW x \in Seq(Byte), NEW v \in Seq(Byte), Splits(Wire(m), x, v),
         GetFrameBodyVector(x) # <<>>, GetFrameBodyVector(x)[1] = Payload(m)
  PROVE  v = <<>>
<1>1. GetFrameBodyVector(x) = Part(Payload(m), Plain, Len(x)) /\ Len(x) \in 0 .. Len(Wire(m))
  BY FromStart
<1>2. Len(x) = Len(Wire(m))
  BY <1>1, PartOfWire
<1>3. Len(Wire(m)) = Len(x) + Len(v) /\ Len(x) \in Nat /\ Len(v) \in Nat
  BY ConcatProperties, LenProperties DEF Splits
<1> QED
  <2>1. Len(v) = 0
    BY <1>2, <1>3
  <2> QED
    BY <2>1, EmptySeq

\* An answer whose first bytes are missing is too short for what is expected.
LEMMA SessionInStep ==
  ASSUME size \in Sizes, NEW p \in Seq(Byte), NEW S \in Seq(Byte), Splits(Wire(Session), p, S),
         NEW x \in Seq(Byte), NEW v \in Seq(Byte), Splits(S, x, v),
         GetFrameBodyVector(x) # <<>>, GetFrameBodyVector(x)[1] = Payload(Session)
  PROVE  v = <<>>
<1>1. Session \in Framed
  BY DEF Framed, Targets, Capture, Session
<1>2. CASE p = <<>>
  <2>1. S = Wire(Session)
    BY <1>2, ConcatEmptySeq DEF Splits
  <2> QED
    BY <1>1, <2>1, AlignedAnswer
<1>3. CASE p # <<>>
  <2> DEFINE n == size[Session]
             e == Extra(n)
  <2>1. Len(Wire(Session)) = 2 + e + n /\ e \in Nat /\ Session \in Messages
    BY <1>1, WireIsFrame
  <2>2. n \in Nat /\ n > 0 /\ n + 1 < Power[LongBytes] /\ Len(Payload(Session)) = n
    BY <2>1, SizeFacts
  <2>3. n < Power[LongBytes]
    <3>1. Power[LongBytes] \in Nat
      BY PowerIs, Widths
    <3> QED
      BY <2>2, <3>1
  <2>4. /\ Len(Wire(Session)) = Len(p) + Len(S) /\ Len(S) = Len(x) + Len(v)
        /\ Len(p) \in Nat /\ Len(x) \in Nat /\ Len(v) \in Nat /\ Len(p) # 0
    BY <1>3, ConcatProperties, LenProperties, EmptySeq DEF Splits
  <2> HIDE DEF e, n
  <2>5. Len(x) <= n + e + 1
    BY <2>1, <2>2, <2>4
  <2>6. Len(GetFrameBodyVector(x)[1]) < n
    BY <2>2, <2>3, <2>5, FewBytes DEF e
  <2>7. ~(n < n)
    BY <2>2
  <2> QED
    BY <2>2, <2>6, <2>7
<1> QED
  BY <1>2, <1>3

-----------------------------------------------------------------------------
(* The answer about the targets, behind bytes of the handshake. *)

\* The first body begins with a byte of another message.
Other(P) ==
  /\ P.bodies # <<>> => P.bodies[1][1] # Targets
  /\ P.bodies = <<>> => P.state = "body" /\ P.masked = Plain /\ P.body # <<>> /\ P.body[1] # Targets

LEMMA OtherStep ==
  ASSUME NEW P, Sound(P), Other(P), NEW b \in Byte
  PROVE  Other(TakeByte(b)[P])
<1> DEFINE Q == TakeByte(b)[P]
           c == Append(P.body, b)
<1>q. Q = TakeByte(b)[P]
  OBVIOUS
<1>1. CASE P.bodies # <<>>
  <2>1. Q.bodies # <<>> /\ Q.bodies[1] = P.bodies[1]
    BY <1>1, BodiesGrow
  <2> HIDE DEF Q
  <2> QED
    BY <1>1, <1>q, <2>1 DEF Other
<1>2. CASE P.bodies = <<>>
  <2>1. P.state = "body" /\ P.body # <<>> /\ P.body[1] # Targets
    BY <1>2 DEF Other
  <2>m. P.masked = Plain
    BY <1>2 DEF Other
  <2>2. P.require \in Nat /\ P.require > 0 /\ P.body \in Seq(Nat) /\ b \in Nat
    BY <2>1, ParserFields, Widths DEF Sound, Byte
  <2>3. c # <<>> /\ c[1] = P.body[1]
    BY <2>1, <2>2, FirstBodyStays
  <2> HIDE DEF Q, c
  <2>4. CASE P.require > 1
    <3>1. Q.state = "body" /\ Q.bodies = <<>> /\ Q.body = c
      BY <1>2, <1>q, <2>1, <2>4, TakeBodyIs DEF c
    <3>2. Q.masked = P.masked
      BY <1>q, <2>1, <2>4, TakeBodyIs
    <3> QED
      BY <1>q, <2>1, <2>m, <2>3, <3>1, <3>2 DEF Other
  <2>5. CASE P.require = 1
    <3>1. Q.bodies = Append(P.bodies, Shown(P, c))
      BY <1>q, <2>1, <2>5, TakeBodyIs DEF c
    <3>2. Shown(P, c) = c
      BY <2>m DEF Shown, Plain
    <3>3. Q.bodies = <<c>>
      BY <1>2, <3>1, <3>2
    <3>4. <<c>> # <<>> /\ <<c>>[1] = c
      OBVIOUS
    <3> QED
      BY <1>q, <2>1, <2>3, <3>3, <3>4 DEF Other
  <2> QED
    BY <2>2, <2>4, <2>5
<1> QED
  BY <1>1, <1>2

LEMMA OtherBodies ==
  ASSUME NEW P, Sound(P), Other(P)
  PROVE  Bodies[P][1][1] # Targets
<1>1. P \in Parser /\ P.body \in Seq(Nat) /\ P.bodies \in Seq(Seq(Nat)) /\ P.mask \in Seq(Nat)
  BY ParserFields DEF Sound
<1>2. Bodies[P] = IF P.body = <<>> THEN P.bodies ELSE Append(P.bodies, Shown(P, P.body))
  BY <1>1, BodiesIs
<1>3. CASE P.bodies = <<>>
  <2>1. P.body # <<>> /\ P.body[1] # Targets
    BY <1>3 DEF Other
  <2>2. Shown(P, P.body) = P.body
    BY <1>3 DEF Other, Shown, Plain
  <2>3. Bodies[P] = <<P.body>>
    BY <1>2, <1>3, <2>1, <2>2
  <2> QED
    BY <2>1, <2>3
<1>4. CASE P.bodies # <<>> /\ P.body = <<>>
  BY <1>2, <1>4 DEF Other
<1>5. CASE P.bodies # <<>> /\ P.body # <<>>
  <2> DEFINE s == Shown(P, P.body)
             B == P.bodies
  <2>1. P.state = "body"
    BY <1>5 DEF Sound
  <2>2. s \in Seq(Nat)
    <3>1. P.masked => Len(P.mask) = 4
      BY <2>1 DEF Sound
    <3> QED
      BY <1>1, <3>1, UnmaskType DEF Shown
  <2>3. Bodies[P] = Append(B, s) /\ B \in Seq(Seq(Nat)) /\ B # <<>>
    BY <1>1, <1>2, <1>5
  <2> HIDE DEF s, B
  <2>4. Append(B, s)[1] = B[1]
    BY <2>2, <2>3, FirstBodyStays
  <2>5. B[1][1] # Targets
    BY <1>5 DEF Other, B
  <2> QED
    BY <2>3, <2>4, <2>5
<1> QED
  BY <1>3, <1>4, <1>5

LEMMA OtherRun ==
  ASSUME NEW x \in Seq(Byte), NEW k \in 0 .. Len(x), Other(After(<<>>, x, k))
  PROVE  GetFrameBodyVector(x)[1][1] # Targets
<1> DEFINE P(i) == After(<<>>, x, k + i)
           S == {i \in Nat : k + i <= Len(x) => Other(P(i))}
<1>1. Len(x) \in Nat /\ k \in Nat /\ k <= Len(x) /\ <<>> \in Seq(Byte)
  BY LenProperties
<1>2. 0 \in S
  <2>1. k + 0 = k
    BY <1>1
  <2> QED
    BY <2>1
<1>3. ASSUME NEW i \in Nat, i \in S PROVE i + 1 \in S
  <2> SUFFICES ASSUME k + (i + 1) <= Len(x) PROVE Other(P(i + 1))
    OBVIOUS
  <2>1. /\ k + i \in Nat /\ k + i < Len(x) /\ k + (i + 1) = (k + i) + 1 /\ k + i \in 0 .. Len(x)
        /\ k + i <= Len(x)
    BY <1>1
  <2>2. x[(k + i) + 1] \in Byte /\ P(i + 1) = TakeByte(x[(k + i) + 1])[P(i)]
    BY <1>1, <2>1, RunStep
  <2>3. Sound(P(i))
    BY <1>1, <2>1, AfterSound
  <2>4. Other(P(i))
    BY <1>3, <2>1
  <2> HIDE DEF P
  <2> QED
    BY <2>2, <2>3, <2>4, OtherStep
<1>4. \A i \in Nat : i \in S
  <2> HIDE DEF S
  <2> QED
    BY <1>2, <1>3, Induction
<1>5. Other(P(Len(x) - k))
  <2>1. Len(x) - k \in Nat /\ k + (Len(x) - k) <= Len(x)
    BY <1>1
  <2> HIDE DEF P
  <2> QED
    BY <1>4, <2>1
<1>6. P(Len(x) - k) = Execute(x)
  <2>1. k + (Len(x) - k) = Len(x)
    BY <1>1
  <2>2. <<>> \o x = x
    BY ConcatEmptySeq
  <2> QED
    BY <2>1, <2>2, AfterWhole
<1>7. Sound(Execute(x))
  BY ExecuteSound
<1> HIDE DEF P
<1> QED
  BY <1>5, <1>6, <1>7, OtherBodies DEF GetFrameBodyVector

\* The second byte is the one with the length.
LEMMA SecondByte ==
  ASSUME NEW x \in Seq(Byte), Len(x) >= 2
  PROVE  /\ x[2] \in Byte /\ Sound(After(<<>>, x, 1)) /\ After(<<>>, x, 1).state = "head"
         /\ After(<<>>, x, 1).bodies = <<>> /\ After(<<>>, x, 2) = TakeByte(x[2])[After(<<>>, x, 1)]
<1> DEFINE d == <<>>
           P0 == After(d, x, 0)
           P1 == After(d, x, 1)
<1>1. d \in Seq(Byte) /\ Len(x) \in Nat /\ 0 < Len(x) /\ 1 < Len(x)
  BY LenProperties
<1>2. P0 = NewParser
  BY <1>1, AfterStarts, ExecuteEmpty
<1>3. x[1] \in Byte /\ P1 = TakeByte(x[1])[P0]
  <2>1. x[0 + 1] \in Byte /\ After(d, x, 0 + 1) = TakeByte(x[0 + 1])[After(d, x, 0)]
    BY <1>1, AfterStep
  <2>2. 0 + 1 = 1
    OBVIOUS
  <2> QED
    BY <2>1, <2>2
<1>4. x[2] \in Byte /\ After(d, x, 2) = TakeByte(x[2])[P1]
  <2>1. x[1 + 1] \in Byte /\ After(d, x, 1 + 1) = TakeByte(x[1 + 1])[After(d, x, 1)]
    BY <1>1, AfterStep
  <2>2. 1 + 1 = 2
    OBVIOUS
  <2> QED
    BY <2>1, <2>2
<1> HIDE DEF P0, P1
<1>5. Sound(P0) /\ P0.state = "start" /\ P0.bodies = <<>>
  BY <1>2, NewIsSound
<1>6. Sound(P1) /\ P1.state = "head" /\ P1.bodies = <<>>
  BY <1>3, <1>5, TakeStartIs
<1> QED
  BY <1>4, <1>6 DEF P1, d

\* Behind one byte: the frame's first byte is taken for a length of one, masked.
LEMMA BehindOneByte ==
  ASSUME NEW x \in Seq(Byte), Len(x) >= 2, x[2] = TextFrame, NEW n \in Nat, n > 0, n < Power[LongBytes],
         Len(x) <= n + Extra(n) + 3, GetFrameBodyVector(x) # <<>>
  PROVE  Len(GetFrameBodyVector(x)[1]) < n
<1> DEFINE P == After(<<>>, x, 1)
           Q == After(<<>>, x, 2)
           b == x[2]
           e == Extra(n)
           r == n + e + 1
<1>1. b \in Byte /\ Sound(P) /\ P.state = "head" /\ P.bodies = <<>> /\ Q = TakeByte(b)[P]
  BY SecondByte
<1>2. b = Bit + 1
  BY Widths
<1>f. e \in Nat /\ (n < Short => e = 0)
  BY FormOf
<1>r. r = n + e + 1 /\ e = Extra(n)
  OBVIOUS
<1> HIDE DEF P, Q, b, e, r
<1>3. b % Bit = 1 /\ b >= Bit
  <2>1. \A c \in Nat : c > 1 => (c + 1) % c = 1 /\ c + 1 >= c
    OBVIOUS
  <2>2. Bit \in Nat /\ Bit > 1
    BY Widths
  <2> QED
    BY <1>2, <2>1, <2>2
<1> DEFINE l == b % Bit
<1>4. l = 1 /\ l < Short /\ l = b % Bit
  BY <1>3, TextBytes
<1> HIDE DEF l
<1>5. /\ Sound(Q) /\ Q.bodies = <<>> /\ Q.length = l
      /\ b >= Bit => Q.state = "mask" /\ Q.require = 4
  BY <1>1, <1>4, TakeHeadIs
<1>6. Q.length < n \/ r < Q.require + n
  <2>1. CASE n > 1
    BY <1>4, <1>5, <2>1
  <2>2. CASE n = 1
    <3>1. n < Short
      BY <2>2, TextBytes
    <3> QED
      BY <1>3, <1>5, <1>f, <1>r, <2>2, <3>1
  <2> QED
    BY <2>1, <2>2
<1>7. r \in Nat /\ r <= n + e + 1
  BY <1>f, <1>r
<1>8. Safe(Q, r, n)
  BY <1>3, <1>5, <1>6, <1>7, <1>r DEF Safe
<1>9. 2 \in 0 .. Len(x) /\ Len(x) - 2 <= r
  <2>1. Len(x) \in Nat
    BY LenProperties
  <2> QED
    BY <2>1, <1>f, <1>r
<1> QED
  BY <1>7, <1>8, <1>9, SafeRun DEF Q

\* Behind more: a byte of the handshake is taken for the length, two.
LEMMA BehindMoreBytes ==
  ASSUME NEW x \in Seq(Byte), Len(x) >= 3, x[2] = Handshake, x[3] # Targets
  PROVE  GetFrameBodyVector(x)[1][1] # Targets
<1> DEFINE P == After(<<>>, x, 1)
           Q == After(<<>>, x, 2)
           R == After(<<>>, x, 3)
           b == x[2]
           c == x[3]
<1>0. Len(x) \in Nat /\ Len(x) >= 2 /\ 2 < Len(x) /\ 3 \in 0 .. Len(x) /\ <<>> \in Seq(Byte)
  BY LenProperties
<1>1. b \in Byte /\ Sound(P) /\ P.state = "head" /\ P.bodies = <<>> /\ Q = TakeByte(b)[P]
  BY <1>0, SecondByte
<1>2. c \in Byte /\ R = TakeByte(c)[Q]
  <2>1. x[2 + 1] \in Byte /\ After(<<>>, x, 2 + 1) = TakeByte(x[2 + 1])[After(<<>>, x, 2)]
    BY <1>0, AfterStep
  <2>2. 2 + 1 = 3
    OBVIOUS
  <2> QED
    BY <2>1, <2>2
<1>3. b = 2
  BY DEF Handshake
<1>c. c # Targets
  OBVIOUS
<1> HIDE DEF P, Q, R, b, c
<1> DEFINE l == b % Bit
<1>4. l = 2 /\ l < Short /\ l > 0 /\ b < Bit /\ l = b % Bit
  <2>1. \A d \in Nat : d > 2 => 2 % d = 2
    OBVIOUS
  <2>2. Bit \in Nat /\ Bit > 2
    BY Widths
  <2> QED
    BY <1>3, <2>1, <2>2, TextBytes
<1> HIDE DEF l
<1>5. Sound(Q) /\ Q.bodies = <<>> /\ Q.body = <<>>
  BY <1>1, <1>4, TakeHeadIs
<1>6. b < Bit /\ l > 0 => Q.state = "body" /\ Q.require = l
  BY <1>1, <1>4, TakeHeadIs
<1>7. Q.masked = (b >= Bit)
  BY <1>1, <1>4, TakeHeadIs
<1>8. Q.masked = Plain
  <2>1. (b >= Bit) = FALSE
    BY <1>3, <1>4, Widths
  <2> QED
    BY <1>7, <2>1 DEF Plain
<1>9. Q.state = "body" /\ Q.require > 1
  BY <1>4, <1>6
<1>10. R.state = "body" /\ R.bodies = <<>> /\ R.body = Append(Q.body, c)
  BY <1>2, <1>5, <1>9, TakeBodyIs
<1>11. R.masked = Q.masked
  BY <1>2, <1>5, <1>9, TakeBodyIs
<1>12. R.body # <<>> /\ R.body[1] = c
  <2>1. Append(<<>>, c) = <<c>>
    OBVIOUS
  <2> QED
    BY <1>5, <1>10, <2>1
<1>13. Other(R)
  BY <1>c, <1>8, <1>10, <1>11, <1>12 DEF Other
<1> QED
  BY <1>0, <1>13, OtherRun DEF R

\* The bytes of a sequence in two parts.
Parts(s, x, v) ==
  /\ s \in Seq(Byte) /\ Len(s) = Len(x) + Len(v) /\ Len(x) \in Nat /\ Len(v) \in Nat
  /\ \A i \in 1 .. Len(x) : s[i] = x[i]
  /\ \A i \in 1 .. Len(v) : s[Len(x) + i] = v[i]

LEMMA SplitParts ==
  ASSUME NEW s, NEW x \in Seq(Byte), NEW v \in Seq(Byte), Splits(s, x, v)
  PROVE  Parts(s, x, v)
<1>1. /\ s \in Seq(Byte) /\ Len(s) = Len(x) + Len(v) /\ Len(x) \in Nat /\ Len(v) \in Nat
      /\ \A i \in 1 .. Len(x) + Len(v) : s[i] = IF i <= Len(x) THEN x[i] ELSE v[i - Len(x)]
  BY ConcatProperties, LenProperties DEF Splits
<1>2. \A i \in 1 .. Len(x) : i \in 1 .. Len(x) + Len(v) /\ i <= Len(x)
  BY <1>1
<1>3. \A i \in 1 .. Len(v) : /\ Len(x) + i \in 1 .. Len(x) + Len(v) /\ ~(Len(x) + i <= Len(x))
                             /\ (Len(x) + i) - Len(x) = i
  BY <1>1
<1> QED
  BY <1>1, <1>2, <1>3 DEF Parts

LEMMA FirstByte ==
  ASSUME size \in Sizes, NEW m \in Framed
  PROVE  Wire(m)[1] = TextFrame
<1> DEFINE a == <<TextFrame>>
           B == LengthBytes(size[m])
           c == Payload(m)
<1>1. a \in Seq(Byte) /\ Len(a) = 1 /\ a[1] = TextFrame
  BY Widths
<1>2. m \in Messages
  BY WireIsFrame
<1>3. size[m] \in Nat /\ size[m] < Power[LongBytes] /\ c \in Seq(Byte)
  <2>1. \A x, y \in Nat : x + 1 < y => x < y
    OBVIOUS
  <2> QED
    BY <1>2, <2>1, SizeFacts, PowerIs, Widths
<1>4. B \in Seq(Byte)
  BY <1>3, LengthBytesIs
<1>5. Wire(m) = Three(a, B, c)
  BY DEF Wire, Three
<1> HIDE DEF a, B, c
<1>6. \A i \in 1 .. Len(a) : Three(a, B, c)[i] = a[i]
  <2>1. a \in Seq(Byte) /\ B \in Seq(Byte) /\ c \in Seq(Byte)
    BY <1>1, <1>3, <1>4
  <2> QED
    BY <2>1, ThreeBegins
<1>7. 1 \in 1 .. Len(a)
  BY <1>1
<1>8. Three(a, B, c)[1] = a[1]
  BY <1>6, <1>7
<1> QED
  BY <1>1, <1>5, <1>8

\* The targets are understood only when the whole of their frame has been read, and
\* nothing before it.
LEMMA TargetsInStep ==
  ASSUME size \in Sizes, NEW p \in Seq(Byte), NEW h \in Seq(Byte), Splits(Payload(Handshake), p, h),
         NEW S, Splits(S, h, Wire(Targets)), NEW x \in Seq(Byte), NEW v \in Seq(Byte), Splits(S, x, v),
         GetFrameBodyVector(x) # <<>>, GetFrameBodyVector(x)[1] = Payload(Targets)
  PROVE  v = <<>>
<1> DEFINE W == Wire(Targets)
           n == size[Targets]
           e == Extra(n)
           first == GetFrameBodyVector(x)[1]
<1>1. Targets \in Framed /\ Targets \in Messages /\ Handshake \in Messages
  BY DEF Framed, Targets, Capture, Messages, Handshake
<1>2. W \in Seq(Byte) /\ Len(W) = 2 + e + n /\ e \in Nat
  BY <1>1, WireIsFrame
<1>3. /\ n \in Nat /\ n > 0 /\ n + 1 < Power[LongBytes] /\ Len(Payload(Targets)) = n
      /\ Payload(Targets)[1] = Targets
  <2>1. /\ n \in Nat /\ n > 0 /\ n + 1 < Power[LongBytes] /\ Len(Payload(Targets)) = n
        /\ \A i \in 1 .. n : Payload(Targets)[i] = Targets
    BY <1>1, SizeFacts
  <2>2. 1 \in 1 .. n
    BY <2>1
  <2> QED
    BY <2>1, <2>2
<1>4. n < Power[LongBytes]
  <2>1. Power[LongBytes] \in Nat
    BY PowerIs, Widths
  <2> QED
    BY <1>3, <2>1
<1>5. W[1] = TextFrame
  BY <1>1, FirstByte
<1>6. \A i \in 1 .. Len(h) : h[i] = Handshake
  <2>1. /\ Len(Payload(Handshake)) = Len(p) + Len(h) /\ Len(p) \in Nat /\ Len(h) \in Nat
        /\ \A i \in 1 .. Len(h) : Payload(Handshake)[Len(p) + i] = h[i]
    <3>1. Parts(Payload(Handshake), p, h)
      BY SplitParts
    <3> QED
      BY <3>1 DEF Parts
  <2>2. \A i \in 1 .. Len(Payload(Handshake)) : Payload(Handshake)[i] = Handshake
    BY <1>1, SizeFacts
  <2>3. \A i \in 1 .. Len(h) : Len(p) + i \in 1 .. Len(Payload(Handshake))
    BY <2>1
  <2> QED
    BY <2>1, <2>2, <2>3
<1> HIDE DEF W, n, e, first
<1>7. /\ S \in Seq(Byte) /\ Len(S) = Len(h) + Len(W) /\ Len(h) \in Nat
      /\ \A i \in 1 .. Len(h) : S[i] = h[i]
      /\ \A i \in 1 .. Len(W) : S[Len(h) + i] = W[i]
  <2>1. Parts(S, h, W)
    BY <1>2, SplitParts DEF W
  <2> QED
    BY <2>1 DEF Parts
<1>l. Len(h) \in Nat
  BY <1>7
<1>8. Len(S) = Len(x) + Len(v) /\ Len(x) \in Nat /\ Len(v) \in Nat /\ \A i \in 1 .. Len(x) : S[i] = x[i]
  <2>1. Parts(S, x, v)
    BY SplitParts
  <2> QED
    BY <2>1 DEF Parts
<1>9. ~(Len(first) < n)
  <2>1. Len(first) = n
    BY <1>3 DEF first
  <2> QED
    BY <1>3, <2>1
<1>10. ~(Len(x) <= n + e + 1)
  <2>1. Len(x) <= n + e + 1 => Len(first) < n
    BY <1>3, <1>4, FewBytes DEF e, first
  <2> QED
    BY <1>9, <2>1
<1>11. Len(x) >= 2
  BY <1>2, <1>3, <1>8, <1>10
<1>12. CASE Len(h) = 0
  <2>1. h = <<>>
    BY <1>12, EmptySeq
  <2>2. S = W
    BY <1>2, <2>1, ConcatEmptySeq DEF Splits, W
  <2>3. Splits(W, x, v)
    BY <2>2
  <2> QED
    BY <1>1, <2>3, AlignedAnswer DEF W
<1>13. CASE Len(h) = 1
  <2>1. x[2] = TextFrame
    <3>1. 2 \in 1 .. Len(x) /\ 1 \in 1 .. Len(W) /\ Len(h) + 1 = 2
      BY <1>2, <1>3, <1>8, <1>11, <1>13
    <3> QED
      BY <1>5, <1>7, <1>8, <3>1
  <2>2. Len(x) <= n + e + 3
    BY <1>2, <1>3, <1>7, <1>8, <1>13
  <2>3. Len(first) < n
    BY <1>3, <1>4, <1>11, <2>1, <2>2, BehindOneByte DEF e, first
  <2> QED
    BY <1>9, <2>3
<1>14. CASE Len(h) >= 2
  <2>1. Len(x) >= 3
    BY <1>2, <1>3, <1>8, <1>10
  <2>2. x[2] = Handshake
    <3>1. 2 \in 1 .. Len(x) /\ 2 \in 1 .. Len(h)
      BY <1>7, <1>8, <1>11, <1>14
    <3> QED
      BY <1>6, <1>7, <1>8, <3>1
  <2>3. x[3] # Targets
    <3>0. 3 \in 1 .. Len(x)
      BY <1>8, <2>1
    <3>1. CASE Len(h) = 2
      <4>1. 1 \in 1 .. Len(W) /\ Len(h) + 1 = 3
        BY <1>2, <1>3, <3>1
      <4>2. x[3] = TextFrame
        BY <1>5, <1>7, <1>8, <3>0, <4>1
      <4>3. TextFrame # Targets
        BY <1>1, TextBytes, Widths
      <4> QED
        BY <4>2, <4>3
    <3>2. CASE Len(h) # 2
      <4>1. 3 \in 1 .. Len(h)
        <5>1. \A k \in Nat : k >= 2 /\ k # 2 => 3 \in 1 .. k
          OBVIOUS
        <5> QED
          BY <1>l, <1>14, <3>2, <5>1
      <4>2. x[3] = Handshake
        BY <1>6, <1>7, <1>8, <3>0, <4>1
      <4> QED
        BY <4>2 DEF Handshake, Targets
    <3> QED
      BY <3>1, <3>2
  <2>4. first[1] # Targets
    BY <2>1, <2>2, <2>3, BehindMoreBytes DEF first
  <2> QED
    BY <1>3, <2>4 DEF first
<1> QED
  <2>1. \A k \in Nat : k = 0 \/ k = 1 \/ k >= 2
    OBVIOUS
  <2> QED
    BY <1>l, <1>12, <1>13, <1>14, <2>1

\* The answer about attaching: when one body is understood only bytes of the answer to
\* the command are left, and when two are, the second the answer, none.
LEMMA AttachedInStep ==
  ASSUME size \in Sizes, NEW S, Splits(S, Wire(Attached), Wire(Session)),
         NEW x \in Seq(Byte), NEW v \in Seq(Byte), Splits(S, x, v)
  PROVE  /\ Len(GetFrameBodyVector(x)) = 1 /\ (\E m \in Framed : GetFrameBodyVector(x)[1] = Payload(m))
              => \E p \in Seq(Byte) : Splits(Wire(Session), p, v)
         /\ Len(GetFrameBodyVector(x)) = 2 /\ GetFrameBodyVector(x)[2] = Payload(Session) => v = <<>>
<1> DEFINE A == Wire(Attached)
           W == Wire(Session)
           B == GetFrameBodyVector(x)
<1>1. Attached \in Framed /\ Session \in Framed
  BY DEF Framed, Targets, Capture, Session, Attached
<1>2. A \in Seq(Byte) /\ W \in Seq(Byte) /\ IsFrame(A, Payload(Attached), Plain) /\ IsFrame(W, Payload(Session), Plain)
  BY <1>1, WireIsFrame
<1>4. Len(x) \in Nat /\ Len(A) \in Nat /\ Len(v) \in Nat
  BY <1>2, LenProperties
<1>5. CASE Len(x) <= Len(A)
  <2>2. PICK c \in Seq(Byte) : Splits(A, x, c) /\ Splits(v, c, W)
    BY <1>2, <1>5, LongerBeginning
  <2>1. A = x \o c /\ v = c \o W
    BY <2>2 DEF Splits
  <2>3. B = Part(Payload(Attached), Plain, Len(x)) /\ Len(x) \in 0 .. Len(A)
    BY <1>1, <2>2, FromStart
  <2>4. B # <<>> => /\ B = <<B[1]>> /\ B[1][1] = Attached
                    /\ B[1] = Payload(Attached) => Len(x) = Len(A)
    BY <1>1, <2>3, PartOfWire
  <2> HIDE DEF A, B, W
  <2>5. Len(B) # 2
    <3>1. CASE B = <<>>
      BY <3>1, Empties
    <3>2. CASE B # <<>>
      <4>1. \A s : Len(<<s>>) = 1
        OBVIOUS
      <4> QED
        BY <2>4, <3>2, <4>1
    <3> QED
      BY <3>1, <3>2
  <2>6. ASSUME Len(B) = 1, NEW m \in Framed, B[1] = Payload(m)
        PROVE  \E p \in Seq(Byte) : Splits(W, p, v)
    <3>1. B # <<>>
      <4>1. Len(B) = 1
        BY <2>6
      <4>2. Len(<<>>) # 1
        OBVIOUS
      <4> QED
        BY <4>1, <4>2
    <3>2. Payload(m)[1] = m
      <4>1. m \in Messages
        BY WireIsFrame
      <4>2. size[m] \in Nat /\ size[m] > 0 /\ \A i \in 1 .. size[m] : Payload(m)[i] = m
        BY <4>1, SizeFacts
      <4>3. 1 \in 1 .. size[m]
        BY <4>2
      <4> QED
        BY <4>2, <4>3
    <3>3. Len(x) = Len(A)
      BY <2>4, <2>6, <3>1, <3>2
    <3>4. Len(A) = Len(x) + Len(c) /\ Len(c) \in Nat
      BY <2>1, ConcatProperties, LenProperties
    <3>5. c = <<>>
      <4>1. Len(c) = 0
        BY <1>4, <3>3, <3>4
      <4> QED
        BY <4>1, EmptySeq
    <3>6. v = W
      BY <1>2, <2>1, <3>5, ConcatEmptySeq
    <3>7. Splits(W, <<>>, v) /\ <<>> \in Seq(Byte)
      BY <1>2, <3>6, ConcatEmptySeq DEF Splits
    <3> QED
      BY <3>7
  <2>7. Len(B) = 1 /\ (\E m \in Framed : B[1] = Payload(m)) => \E p \in Seq(Byte) : Splits(W, p, v)
    BY <2>6
  <2> QED
    BY <2>5, <2>7 DEF B, W
<1>6. CASE Len(x) > Len(A)
  <2>2. PICK c \in Seq(Byte) : Splits(x, A, c) /\ Splits(W, c, v)
    <3>1. Len(A) <= Len(x)
      BY <1>4, <1>6
    <3> QED
      BY <1>2, <3>1, LongerBeginning
  <2>1. x = A \o c /\ W = c \o v
    BY <2>2 DEF Splits
  <2>3. Execute(A).state = "start" /\ Execute(A).bodies = <<Payload(Attached)>>
    <3> DEFINE d == <<>>
               data == Payload(Attached)
    <3>1. d \in Seq(Byte) /\ Execute(d).state = "start" /\ Execute(d).bodies = <<>> /\ d \o A = A
      BY <1>2, ExecuteEmpty, NewIsSound, ConcatEmptySeq
    <3> HIDE DEF d, data, A
    <3>2. Execute(d \o A).state = "start" /\ Execute(d \o A).bodies = Append(Execute(d).bodies, data)
      <4>1. d \in Seq(Byte) /\ Execute(d).state = "start" /\ IsFrame(A, data, Plain)
        BY <1>2, <3>1 DEF data
      <4> QED
        BY <4>1, FrameEnds
    <3>3. Append(<<>>, data) = <<data>>
      OBVIOUS
    <3> QED
      BY <3>1, <3>2, <3>3 DEF data
  <2> DEFINE P == Part(Payload(Session), Plain, Len(c))
  <2>4. B = Execute(A).bodies \o P /\ Len(c) \in 0 .. Len(W)
    <3> DEFINE data == Payload(Session)
    <3>1. IsFrame(W, data, Plain) /\ A \in Seq(Byte) /\ Execute(A).state = "start"
      BY <1>2, <2>3
    <3> HIDE DEF A, W, data
    <3>2. GetFrameBodyVector(A \o c) = Execute(A).bodies \o Part(data, Plain, Len(c)) /\ Len(c) \in 0 .. Len(W)
      BY <2>2, <3>1, ReadPart
    <3> QED
      BY <2>1, <3>2 DEF data
  <2>5. P # <<>> => P = <<P[1]>> /\ (P[1] = Payload(Session) => Len(c) = Len(W))
    BY <1>1, <2>4, PartOfWire
  <2> HIDE DEF A, B, W, P
  <2>6. ASSUME Len(B) = 2, B[2] = Payload(Session)  PROVE v = <<>>
    <3>1. B = <<Payload(Attached)>> \o P
      BY <2>3, <2>4
    <3>2. P # <<>>
      <4>1. Len(<<Payload(Attached)>> \o <<>>) = 1
        OBVIOUS
      <4> QED
        BY <2>6, <3>1, <4>1
    <3>3. B[2] = P[1]
      <4>1. (<<Payload(Attached)>> \o <<P[1]>>)[2] = P[1]
        OBVIOUS
      <4> QED
        BY <2>5, <3>1, <3>2, <4>1
    <3>4. Len(c) = Len(W)
      BY <2>5, <2>6, <3>2, <3>3
    <3>5. Len(W) = Len(c) + Len(v) /\ Len(c) \in Nat
      BY <2>1, ConcatProperties, LenProperties
    <3>6. Len(v) = 0
      BY <1>4, <3>4, <3>5
    <3> QED
      BY <3>6, EmptySeq
  <2>7. Len(B) = 2 /\ B[2] = Payload(Session) => v = <<>>
    BY <2>6
  <2>8. \E p \in Seq(Byte) : Splits(W, p, v)
    BY <2>2
  <2> QED
    BY <2>7, <2>8 DEF B, W
<1> QED
  BY <1>4, <1>5, <1>6

-----------------------------------------------------------------------------
(* The stream: at each stage the bytes read, arrived and on their way are the rest of
   one known sequence, or its beginning when the browser has closed the connection. *)

Flow == byteBuf \o (net \o FlattenSeq(coming))

\* What the connection holds, and will hold, while an answer is read.  The stages after
\* the handshake and after the event may have bytes of those before the answer.
OnWire(stage, S) ==
  \/ stage = "version" /\ S = Wire(Version)
  \/ stage = "handshake" /\ S = Wire(Handshake)
  \/ stage = "targets" /\ \E p, h \in Seq(Byte) : Splits(Payload(Handshake), p, h) /\ Splits(S, h, Wire(Targets))
  \/ stage = "attach" /\ Splits(S, Wire(Attached), Wire(Session))
  \/ stage = "attachAgain" /\ \E p \in Seq(Byte) : Splits(Wire(Session), p, S)
  \/ stage = "capture" /\ S = Wire(Capture)

\* u is what the browser has not sent any more.
Rest(S, u) == Splits(S, Flow, u) /\ (open => u = <<>>)

Typed ==
  /\ size \in Sizes /\ faults \subseteq Faults /\ pc \in Reading \cup Ends
  /\ byteBuf \in Seq(Byte) /\ net \in Seq(Byte) /\ coming \in Seq(Seq(Byte))
  /\ open \in BOOLEAN /\ saved \in BOOLEAN

StreamInv ==
  /\ ~open => coming = <<>>
  /\ pc \in Reading => \E S, u \in Seq(Byte) : OnWire(pc, S) /\ Rest(S, u)
  /\ pc \in Ends => Flow = <<>>

\* How many commands have been sent when an answer is read.
CommandsBefore(stage, n) ==
  \/ stage \in {"version", "handshake"} /\ n = 0
  \/ stage = "targets" /\ n = 1
  \/ stage \in {"attach", "attachAgain"} /\ n = 2
  \/ stage = "capture" /\ n = 3

SentInv ==
  /\ sent \in Seq(Byte) /\ Execute(sent).state = "start" /\ Execute(sent).bodies = commands
  /\ Len(commands) \in 0 .. 3 /\ (pc \in Reading => CommandsBefore(pc, Len(commands)))

SocketInv == Typed /\ StreamInv /\ SentInv

LEMMA Stages ==
  /\ Reading = {"version", "handshake", "targets", "attach", "capture", "attachAgain"}
  /\ Reading \cap Ends = {}
BY DEF Reading, Answers, Ends

LEMMA WireType ==
  ASSUME size \in Sizes, NEW m \in Messages
  PROVE  Wire(m) \in Seq(Byte) /\ Len(Wire(m)) \in Nat /\ (m \notin Framed => Wire(m) = Payload(m))
<1>1. m \notin Framed => Wire(m) = Payload(m)
  BY DEF Wire
<1>2. Wire(m) \in Seq(Byte)
  <2>1. CASE m \in Framed
    BY <2>1, WireIsFrame
  <2>2. CASE m \notin Framed
    BY <1>1, <2>2, SizeFacts
  <2> QED
    BY <2>1, <2>2
<1> QED
  BY <1>1, <1>2, LenProperties

LEMMA MessagesAre ==
  /\ Version \in Messages /\ Handshake \in Messages /\ Targets \in Messages /\ Attached \in Messages
  /\ Session \in Messages /\ Capture \in Messages /\ Version \notin Framed /\ Handshake \notin Framed
  /\ Targets \in Framed /\ Attached \in Framed /\ Session \in Framed /\ Capture \in Framed
BY DEF Messages, Framed, Version, Handshake, Targets, Attached, Session, Capture

LEMMA FlowIs ==
  ASSUME Typed
  PROVE  /\ byteBuf \o net \in Seq(Byte) /\ FlattenSeq(coming) \in Seq(Byte) /\ Flow \in Seq(Byte)
         /\ Splits(Flow, byteBuf \o net, FlattenSeq(coming))
<1>1. byteBuf \in Seq(Byte) /\ net \in Seq(Byte) /\ FlattenSeq(coming) \in Seq(Byte)
  BY FlattenType DEF Typed
<1> DEFINE f == FlattenSeq(coming)
<1> HIDE DEF f
<1>2. f \in Seq(Byte)
  BY <1>1 DEF f
<1>3. byteBuf \o net \in Seq(Byte) /\ net \o f \in Seq(Byte)
  BY <1>1, <1>2, ConcatProperties
<1>4. Flow = byteBuf \o (net \o f)
  BY DEF Flow, f
<1>5. Flow \in Seq(Byte)
  BY <1>1, <1>3, <1>4, ConcatProperties
<1>6. byteBuf \o (net \o f) = (byteBuf \o net) \o f
  <2>1. Associates(byteBuf, net, f)
    BY <1>1, <1>2, Regroup
  <2> QED
    BY <2>1 DEF Associates
<1> QED
  BY <1>1, <1>3, <1>4, <1>5, <1>6 DEF Splits, f

\* What has been received is the beginning of what is on the wire.
LEMMA Begins ==
  ASSUME Typed, NEW S, NEW u \in Seq(Byte), Rest(S, u)
  PROVE  /\ S \in Seq(Byte) /\ \E v \in Seq(Byte) : Splits(S, byteBuf \o net, v) /\ Splits(v, FlattenSeq(coming), u)
<1> DEFINE x == byteBuf \o net
           f == FlattenSeq(coming)
           v == f \o u
<1>1. x \in Seq(Byte) /\ f \in Seq(Byte) /\ Flow \in Seq(Byte) /\ Flow = x \o f
  BY FlowIs DEF Splits
<1> HIDE DEF x, f
<1>2. v \in Seq(Byte)
  BY <1>1, ConcatProperties
<1>3. (x \o f) \o u = x \o (f \o u)
  <2>1. Associates(x, f, u)
    BY <1>1, Regroup
  <2> QED
    BY <2>1 DEF Associates
<1>4. S = Flow \o u
  BY DEF Rest, Splits
<1>5. S \in Seq(Byte)
  BY <1>1, <1>4, ConcatProperties
<1>6. Splits(S, x, v) /\ Splits(v, f, u)
  BY <1>1, <1>3, <1>4 DEF Splits
<1> HIDE DEF v
<1> QED
  BY <1>2, <1>5, <1>6 DEF x, f

-----------------------------------------------------------------------------
(* The length of all bytes. *)

FirstBytes(k) == FlattenSeq([i \in 1 .. k |-> Wire(i)])

LEMMA NextBytes ==
  ASSUME size \in Sizes, NEW k \in 0 .. 5, FirstBytes(k) \in Seq(Byte)
  PROVE  /\ FirstBytes(k + 1) \in Seq(Byte)
         /\ Len(FirstBytes(k + 1)) = Len(FirstBytes(k)) + Len(Wire(k + 1))
<1> DEFINE f == [i \in 1 .. k + 1 |-> Wire(i)]
<1>1. k \in Nat /\ k + 1 \in 1 .. k + 1 /\ k + 1 \in Messages
  BY DEF Messages
<1>2. \A i \in 1 .. k + 1 : Wire(i) \in Seq(Byte)
  <2>1. \A i \in 1 .. k + 1 : i \in Messages
    BY DEF Messages
  <2> QED
    BY <2>1, WireType
<1>3. f \in [1 .. k + 1 -> Seq(Byte)]
  BY <1>2
<1>4. /\ [i \in 1 .. k |-> f[i]] = [i \in 1 .. k |-> Wire(i)]
      /\ [i \in 1 .. k + 1 |-> f[i]] = [i \in 1 .. k + 1 |-> Wire(i)]
      /\ f[k + 1] = Wire(k + 1)
  BY <1>1
<1> HIDE DEF f
<1>5. FlattenSeq([i \in 1 .. k + 1 |-> f[i]]) = FlattenSeq([i \in 1 .. k |-> f[i]]) \o f[k + 1]
  BY <1>1, <1>3, FlattenStep
<1>6. FirstBytes(k + 1) = FirstBytes(k) \o Wire(k + 1)
  BY <1>4, <1>5 DEF FirstBytes
<1>7. Wire(k + 1) \in Seq(Byte)
  BY <1>1, <1>2
<1> QED
  BY <1>6, <1>7, ConcatProperties

LEMMA LengthOfAll ==
  ASSUME size \in Sizes
  PROVE  Len(AllBytes) = Len(Wire(Version)) + Len(Wire(Handshake)) + Len(Wire(Targets)) + Len(Wire(Attached))
                         + Len(Wire(Session)) + Len(Wire(Capture))
<1>0. FirstBytes(0) = <<>> /\ <<>> \in Seq(Byte) /\ Len(<<>>) = 0
  <2>1. [i \in 1 .. 0 |-> Wire(i)] = <<>>
    OBVIOUS
  <2> QED
    BY <2>1, FlattenEmpty DEF FirstBytes
<1>s. \A k \in 0 .. 5 : FirstBytes(k) \in Seq(Byte) =>
        /\ FirstBytes(k + 1) \in Seq(Byte)
        /\ Len(FirstBytes(k + 1)) = Len(FirstBytes(k)) + Len(Wire(k + 1))
  BY NextBytes
<1>n. 0 + 1 = 1 /\ 1 + 1 = 2 /\ 2 + 1 = 3 /\ 3 + 1 = 4 /\ 4 + 1 = 5 /\ 5 + 1 = 6
  OBVIOUS
<1>1. FirstBytes(1) \in Seq(Byte) /\ Len(FirstBytes(1)) = 0 + Len(Wire(1))
  <2>1. 0 \in 0 .. 5
    OBVIOUS
  <2> QED
    BY <1>0, <1>s, <1>n, <2>1
<1>2. FirstBytes(2) \in Seq(Byte) /\ Len(FirstBytes(2)) = Len(FirstBytes(1)) + Len(Wire(2))
  <2>1. 1 \in 0 .. 5
    OBVIOUS
  <2> QED
    BY <1>1, <1>s, <1>n, <2>1
<1>3. FirstBytes(3) \in Seq(Byte) /\ Len(FirstBytes(3)) = Len(FirstBytes(2)) + Len(Wire(3))
  <2>1. 2 \in 0 .. 5
    OBVIOUS
  <2> QED
    BY <1>2, <1>s, <1>n, <2>1
<1>4. FirstBytes(4) \in Seq(Byte) /\ Len(FirstBytes(4)) = Len(FirstBytes(3)) + Len(Wire(4))
  <2>1. 3 \in 0 .. 5
    OBVIOUS
  <2> QED
    BY <1>3, <1>s, <1>n, <2>1
<1>5. FirstBytes(5) \in Seq(Byte) /\ Len(FirstBytes(5)) = Len(FirstBytes(4)) + Len(Wire(5))
  <2>1. 4 \in 0 .. 5
    OBVIOUS
  <2> QED
    BY <1>4, <1>s, <1>n, <2>1
<1>6. Len(FirstBytes(6)) = Len(FirstBytes(5)) + Len(Wire(6))
  <2>1. 5 \in 0 .. 5
    OBVIOUS
  <2> QED
    BY <1>5, <1>s, <1>n, <2>1
<1>7. FirstBytes(6) = AllBytes
  BY DEF FirstBytes, AllBytes, Messages
<1>8. \A m \in Messages : Len(Wire(m)) \in Nat
  BY WireType
<1>9. /\ Len(Wire(1)) \in Nat /\ Len(Wire(2)) \in Nat /\ Len(Wire(3)) \in Nat /\ Len(Wire(4)) \in Nat
      /\ Len(Wire(5)) \in Nat /\ Len(Wire(6)) \in Nat
  BY <1>8 DEF Messages
<1>10. Len(AllBytes) = Len(Wire(1)) + Len(Wire(2)) + Len(Wire(3)) + Len(Wire(4)) + Len(Wire(5)) + Len(Wire(6))
  <2>1. Len(FirstBytes(1)) = Len(Wire(1))
    BY <1>1, <1>9
  <2>2. Len(FirstBytes(2)) = Len(Wire(1)) + Len(Wire(2))
    BY <1>2, <2>1
  <2>3. Len(FirstBytes(3)) = Len(Wire(1)) + Len(Wire(2)) + Len(Wire(3))
    BY <1>3, <2>2
  <2>4. Len(FirstBytes(4)) = Len(Wire(1)) + Len(Wire(2)) + Len(Wire(3)) + Len(Wire(4))
    BY <1>4, <2>3
  <2>5. Len(FirstBytes(5)) = Len(Wire(1)) + Len(Wire(2)) + Len(Wire(3)) + Len(Wire(4)) + Len(Wire(5))
    BY <1>5, <2>4
  <2> QED
    BY <1>6, <1>7, <2>5
<1> QED
  BY <1>10 DEF Version, Handshake, Targets, Attached, Session, Capture

LEMMA WireLength ==
  ASSUME size \in Sizes, NEW stage, NEW S \in Seq(Byte), OnWire(stage, S)
  PROVE  Len(S) <= Len(AllBytes)
<1> DEFINE w1 == Len(Wire(Version))
           w2 == Len(Wire(Handshake))
           w3 == Len(Wire(Targets))
           w4 == Len(Wire(Attached))
           w5 == Len(Wire(Session))
           w6 == Len(Wire(Capture))
<1>1. w1 \in Nat /\ w2 \in Nat /\ w3 \in Nat /\ w4 \in Nat /\ w5 \in Nat /\ w6 \in Nat
  BY WireType, MessagesAre
<1>2. Len(AllBytes) = w1 + w2 + w3 + w4 + w5 + w6
  BY LengthOfAll
<1>3. Len(S) = w1 \/ Len(S) = w2 \/ Len(S) <= w2 + w3 \/ Len(S) = w4 + w5 \/ Len(S) <= w5 \/ Len(S) = w6
  <2>1. CASE stage = "targets" /\ \E p, h \in Seq(Byte) : Splits(Payload(Handshake), p, h) /\ Splits(S, h, Wire(Targets))
    <3>1. PICK p, h \in Seq(Byte) : Splits(Payload(Handshake), p, h) /\ Splits(S, h, Wire(Targets))
      BY <2>1
    <3>2. Parts(Payload(Handshake), p, h)
      BY <3>1, SplitParts
    <3>3. Parts(S, h, Wire(Targets))
      BY <3>1, SplitParts, WireType, MessagesAre
    <3>4. Wire(Handshake) = Payload(Handshake)
      BY WireType, MessagesAre
    <3>5. Len(Payload(Handshake)) = Len(p) + Len(h) /\ Len(p) \in Nat /\ Len(h) \in Nat
      BY <3>2 DEF Parts
    <3>6. Len(S) = Len(h) + w3
      BY <3>3 DEF Parts
    <3> QED
      BY <1>1, <3>4, <3>5, <3>6
  <2>2. CASE stage = "attach" /\ Splits(S, Wire(Attached), Wire(Session))
    <3>1. Parts(S, Wire(Attached), Wire(Session))
      BY <2>2, SplitParts, WireType, MessagesAre
    <3> QED
      BY <3>1 DEF Parts
  <2>3. CASE stage = "attachAgain" /\ \E p \in Seq(Byte) : Splits(Wire(Session), p, S)
    <3>1. PICK p \in Seq(Byte) : Splits(Wire(Session), p, S)
      BY <2>3
    <3>2. Parts(Wire(Session), p, S)
      BY <3>1, SplitParts
    <3>3. w5 = Len(p) + Len(S) /\ Len(p) \in Nat /\ Len(S) \in Nat
      BY <3>2 DEF Parts
    <3> QED
      BY <3>3
  <2>4. CASE S = Wire(Version) \/ S = Wire(Handshake) \/ S = Wire(Capture)
    BY <2>4
  <2> QED
    BY <2>1, <2>2, <2>3, <2>4 DEF OnWire
<1>4. Len(S) \in Nat
  BY LenProperties
<1> HIDE DEF w1, w2, w3, w4, w5, w6
<1> QED
  BY <1>1, <1>2, <1>3, <1>4

\* The bounds of the type invariant follow.
LEMMA SocketBounds == SocketInv => TypeOK
<1> SUFFICES ASSUME SocketInv PROVE TypeOK
  OBVIOUS
<1>1. Typed /\ StreamInv /\ SentInv
  BY DEF SocketInv
<1>2. size \in Sizes
  BY <1>1 DEF Typed
<1>3. Len(byteBuf \o net) \in Nat /\ Len(AllBytes) \in Nat /\ Len(byteBuf \o net) <= Len(AllBytes)
  <2>1. Parts(Flow, byteBuf \o net, FlattenSeq(coming))
    BY <1>1, FlowIs, SplitParts
  <2>2. Len(Flow) = Len(byteBuf \o net) + Len(FlattenSeq(coming))
    BY <2>1 DEF Parts
  <2>3. Len(byteBuf \o net) \in Nat /\ Len(FlattenSeq(coming)) \in Nat
    BY <2>1 DEF Parts
  <2>4. Len(AllBytes) \in Nat
    <3>1. /\ Len(Wire(Version)) \in Nat /\ Len(Wire(Handshake)) \in Nat /\ Len(Wire(Targets)) \in Nat
          /\ Len(Wire(Attached)) \in Nat /\ Len(Wire(Session)) \in Nat /\ Len(Wire(Capture)) \in Nat
      BY <1>2, WireType, MessagesAre
    <3> QED
      BY <1>2, <3>1, LengthOfAll
  <2>5. CASE pc \in Ends
    <3>1. Len(Flow) = 0
      BY <1>1, <2>5, Empties DEF StreamInv
    <3> QED
      BY <2>2, <2>3, <2>4, <3>1
  <2>6. CASE pc \in Reading
    <3>1. PICK S, u \in Seq(Byte) : OnWire(pc, S) /\ Rest(S, u)
      BY <1>1, <2>6 DEF StreamInv
    <3>2. Len(S) <= Len(AllBytes) /\ Len(S) \in Nat
      BY <1>2, <3>1, WireLength, LenProperties
    <3>3. Flow \in Seq(Byte)
      BY <1>1, FlowIs
    <3>4. Parts(S, Flow, u)
      BY <3>1, <3>3, SplitParts DEF Rest
    <3>5. Len(S) = Len(Flow) + Len(u) /\ Len(u) \in Nat
      BY <3>4 DEF Parts
    <3> QED
      BY <2>2, <2>3, <2>4, <3>2, <3>5
  <2> QED
    BY <1>1, <2>5, <2>6 DEF Typed
<1>4. Len(commands) <= 3
  <2>1. Len(commands) \in 0 .. 3
    BY <1>1 DEF SentInv
  <2>2. \A k \in 0 .. 3 : k <= 3
    OBVIOUS
  <2> QED
    BY <2>1, <2>2
<1>5. sent \in Seq(Byte)
  BY <1>1 DEF SentInv
<1> QED
  BY <1>1, <1>3, <1>4, <1>5 DEF TypeOK, Typed, Byte

LEMMA SocketUnderstood == SocketInv => BrowserUnderstands
<1> SUFFICES ASSUME SocketInv PROVE BrowserUnderstands
  OBVIOUS
<1> DEFINE P == Execute(sent)
<1>1. Sound(P) /\ P.state = "start" /\ P.bodies = commands
  BY ExecuteSound DEF SocketInv, SentInv
<1>2. P \in Parser /\ P.body = <<>>
  BY <1>1 DEF Sound
<1>3. Bodies[P] = P.bodies
  <2> HIDE DEF P
  <2> QED
    BY <1>2, BodiesIs
<1> QED
  BY <1>1, <1>3 DEF BrowserUnderstands, GetFrameBodyVector

LEMMA SocketInStep == SocketInv => NextCommandInStep
<1> SUFFICES ASSUME SocketInv PROVE NextCommandInStep
  OBVIOUS
<1>1. Typed /\ StreamInv
  BY DEF SocketInv
<1>2. ASSUME pc \in Reading, NEW T, \A S : OnWire(pc, S) => S = T
      PROVE  IsPrefix(byteBuf \o net, T)
  <2>1. PICK S, u \in Seq(Byte) : OnWire(pc, S) /\ Rest(S, u)
    BY <1>1, <1>2 DEF StreamInv
  <2>2. PICK v \in Seq(Byte) : Splits(S, byteBuf \o net, v)
    BY <1>1, <2>1, Begins
  <2>3. byteBuf \o net \in Seq(Byte)
    BY <1>1, FlowIs
  <2> DEFINE x == byteBuf \o net
  <2> HIDE DEF x
  <2>4. S = T /\ S = x \o v /\ x \in Seq(Byte)
    BY <1>2, <2>1, <2>2, <2>3 DEF Splits, x
  <2>5. IsPrefix(x, x \o v)
    BY <2>4, FirstOfConcat
  <2> QED
    BY <2>4, <2>5 DEF x
<1>3. ASSUME pc = "attach" PROVE IsPrefix(byteBuf \o net, Wire(Attached) \o Wire(Session))
  <2>1. pc \in Reading
    BY <1>3, Stages
  <2>2. \A S : OnWire(pc, S) => S = Wire(Attached) \o Wire(Session)
    BY <1>3 DEF OnWire, Splits
  <2> QED
    BY <1>2, <2>1, <2>2
<1>4. ASSUME pc = "capture" PROVE IsPrefix(byteBuf \o net, Wire(Capture))
  <2>1. pc \in Reading
    BY <1>4, Stages
  <2>2. \A S : OnWire(pc, S) => S = Wire(Capture)
    BY <1>4 DEF OnWire
  <2> QED
    BY <1>2, <2>1, <2>2
<1> QED
  BY <1>3, <1>4 DEF NextCommandInStep

-----------------------------------------------------------------------------
(* The steps. *)

LEMMA SameWire ==
  ASSUME size' = size
  PROVE  /\ \A m \in Messages : Payload(m)' = Payload(m) /\ Wire(m)' = Wire(m)
         /\ \A stage, S : OnWire(stage, S) => OnWire(stage, S)'
<1>1. ASSUME NEW m \in Messages PROVE Payload(m)' = Payload(m) /\ Wire(m)' = Wire(m)
  <2>1. Payload(m)' = Payload(m)
    BY DEF Payload
  <2> QED
    BY <2>1 DEF Wire
<1>2. /\ Wire(Version)' = Wire(Version) /\ Wire(Handshake)' = Wire(Handshake)
      /\ Wire(Targets)' = Wire(Targets) /\ Wire(Attached)' = Wire(Attached)
      /\ Wire(Session)' = Wire(Session) /\ Wire(Capture)' = Wire(Capture)
      /\ Payload(Handshake)' = Payload(Handshake)
  BY <1>1, MessagesAre
<1>3. ASSUME NEW stage, NEW S, OnWire(stage, S) PROVE OnWire(stage, S)'
  BY <1>2, <1>3 DEF OnWire
<1> QED
  BY <1>1, <1>3

LEMMA RoomIs == Room \in Nat /\ Room > 0
BY SocketAssumption DEF Room

\* A read that does not fill the buffer takes all there is.
LEMMA TakesAll ==
  ASSUME Typed, NEW stage, AnswerEnds(stage)
  PROVE  Received = byteBuf \o net /\ net' = <<>> /\ pc = stage /\ pc \in Reading
<1>1. net \in Seq(Byte) /\ Len(net) \in Nat
  BY LenProperties DEF Typed
<1>2. RecvBytes = Len(net)
  BY <1>1, RoomIs DEF AnswerEnds, RecvBytes
<1>3. SubSeq(net, 1, RecvBytes) = net
  BY <1>1, <1>2, SubSeqFull
<1>4. SubSeq(net, RecvBytes + 1, Len(net)) = <<>>
  <2>1. Len(net) + 1 \in Int /\ Len(net) \in Int /\ Len(net) < Len(net) + 1
    BY <1>1
  <2> QED
    BY <1>2, <2>1, SubSeqEmpty
<1> QED
  BY <1>3, <1>4 DEF Received, AnswerEnds, Receives

LEMMA Unread ==
  ASSUME Typed, NEW k \in 0 .. Len(net)
  PROVE  /\ SubSeq(net, 1, k) \in Seq(Byte) /\ SubSeq(net, k + 1, Len(net)) \in Seq(Byte)
         /\ Splits(net, SubSeq(net, 1, k), SubSeq(net, k + 1, Len(net)))
<1>1. net \in Seq(Byte) /\ Len(net) \in Nat
  BY LenProperties DEF Typed
<1> QED
  BY <1>1, TwoPieces

\* Reading on moves bytes from one buffer to the other.
LEMMA ReadsOnKeeps ==
  ASSUME Typed, ReadsOn
  PROVE  byteBuf' \in Seq(Byte) /\ net' \in Seq(Byte) /\ byteBuf' \o net' = byteBuf \o net
<1> DEFINE k == RecvBytes
           a == SubSeq(net, 1, k)
           b == SubSeq(net, k + 1, Len(net))
<1>1. byteBuf \in Seq(Byte) /\ net \in Seq(Byte) /\ Len(net) \in Nat
  BY LenProperties DEF Typed
<1>2. k \in 0 .. Len(net)
  BY <1>1, RoomIs DEF RecvBytes
<1>3. byteBuf' = byteBuf \o a /\ net' = b
  BY DEF ReadsOn, Received, Receives
<1> HIDE DEF k
<1>4. a \in Seq(Byte) /\ b \in Seq(Byte) /\ Splits(net, a, b)
  BY <1>2, Unread
<1> HIDE DEF a, b
<1>5. (byteBuf \o a) \o b = byteBuf \o (a \o b)
  <2>1. Associates(byteBuf, a, b)
    BY <1>1, <1>4, Regroup
  <2> QED
    BY <2>1 DEF Associates
<1>6. byteBuf \o a \in Seq(Byte)
  BY <1>1, <1>4, ConcatProperties
<1> QED
  BY <1>3, <1>4, <1>5, <1>6 DEF Splits

\* Arriving moves bytes from the messages on their way to those that are there.
LEMMA ArrivesKeeps ==
  ASSUME Typed, Arrives
  PROVE  /\ net' \in Seq(Byte) /\ coming' \in Seq(Seq(Byte))
         /\ net' \o FlattenSeq(coming') = net \o FlattenSeq(coming)
<1> DEFINE s == Head(coming)
           t == Tail(coming)
           f == FlattenSeq(t)
<1>1. net \in Seq(Byte) /\ coming \in Seq(Seq(Byte)) /\ coming # <<>>
  BY DEF Typed, Arrives
<1>2. s \in Seq(Byte) /\ t \in Seq(Seq(Byte)) /\ coming = <<s>> \o t
  BY <1>1
<1>3. f \in Seq(Byte) /\ FlattenSeq(coming) = s \o f
  <2>1. t \in Seq(Seq(Byte)) /\ s \in Seq(Byte)
    BY <1>2
  <2> HIDE DEF s, t
  <2> QED
    BY <1>2, <2>1, FlattenType, FlattenPrepend
<1>4. PICK n \in 1 .. Len(s) :
        /\ net' = net \o SubSeq(s, 1, n)
        /\ coming' = IF n < Len(s) THEN <<SubSeq(s, n + 1, Len(s))>> \o t ELSE t
  BY DEF Arrives
<1> DEFINE a == SubSeq(s, 1, n)
           b == SubSeq(s, n + 1, Len(s))
<1> HIDE DEF s, t, f
<1>5. Len(s) \in Nat /\ n \in 0 .. Len(s)
  BY <1>2, LenProperties
<1>6. a \in Seq(Byte) /\ b \in Seq(Byte) /\ Splits(s, a, b)
  BY <1>2, <1>5, TwoPieces
<1>7. net' \in Seq(Byte)
  BY <1>1, <1>4, <1>6, ConcatProperties
<1>8. coming' \in Seq(Seq(Byte)) /\ FlattenSeq(coming') = b \o f
  <2>1. CASE n < Len(s)
    <3>1. coming' = <<b>> \o t
      BY <1>4, <2>1
    <3> HIDE DEF b
    <3>2. <<b>> \in Seq(Seq(Byte)) /\ b \in Seq(Byte)
      BY <1>6
    <3>3. <<b>> \o t \in Seq(Seq(Byte))
      BY <1>2, <3>2, ConcatProperties
    <3>4. FlattenSeq(<<b>> \o t) = b \o f
      BY <1>2, <3>2, FlattenPrepend DEF f
    <3> QED
      BY <3>1, <3>3, <3>4
  <2>2. CASE ~(n < Len(s))
    <3>1. coming' = t
      BY <1>4, <2>2
    <3>2. b = <<>>
      <4>1. n = Len(s) /\ Len(s) + 1 \in Int /\ Len(s) \in Int /\ Len(s) < Len(s) + 1
        BY <1>5, <2>2
      <4> QED
        BY <4>1, SubSeqEmpty
    <3>3. <<>> \o f = f
      BY <1>3, ConcatEmptySeq
    <3> QED
      BY <1>2, <3>1, <3>2, <3>3 DEF f
  <2> QED
    BY <2>1, <2>2
<1> HIDE DEF a, b
<1>9. (net \o a) \o (b \o f) = net \o (s \o f)
  <2>2. (a \o b) \o f = a \o (b \o f)
    <3>1. a \in Seq(Byte) /\ b \in Seq(Byte) /\ f \in Seq(Byte)
      BY <1>3, <1>6
    <3> QED
      <4>1. Associates(a, b, f)
        BY <3>1, Regroup
      <4> QED
        BY <4>1 DEF Associates
  <2> DEFINE g == b \o f
  <2>1. g \in Seq(Byte)
    BY <1>3, <1>6, ConcatProperties
  <2>3. s \o f = a \o g
    BY <1>6, <2>2 DEF Splits
  <2> HIDE DEF g
  <2>4. (net \o a) \o g = net \o (a \o g)
    <3>1. net \in Seq(Byte) /\ a \in Seq(Byte) /\ g \in Seq(Byte)
      BY <1>1, <1>6, <2>1 DEF g
    <3> QED
      <4>1. Associates(net, a, g)
        BY <3>1, Regroup
      <4> QED
        BY <4>1 DEF Associates
  <2> QED
    BY <2>3, <2>4 DEF g
<1>10. net' = net \o a
  BY <1>4 DEF a
<1> QED
  BY <1>3, <1>7, <1>8, <1>9, <1>10

LEMMA Commands ==
  ASSUME size \in Sizes
  PROVE  /\ GetTargets \in Seq(Byte) /\ Len(GetTargets) > 0 /\ Len(GetTargets) < Power[LongBytes]
         /\ AttachToTarget \in Seq(Byte) /\ Len(AttachToTarget) > 0 /\ Len(AttachToTarget) < Power[LongBytes]
         /\ CaptureScreenshot \in Seq(Byte) /\ Len(CaptureScreenshot) > 0 /\ Len(CaptureScreenshot) < Power[LongBytes]
<1>1. 1 \in Byte /\ 2 \in Byte /\ 3 \in Byte
  BY TextBytes DEF Messages
<1>2. ASSUME NEW m \in Messages, NEW b \in Byte
      PROVE  /\ <<b>> \o Payload(m) \in Seq(Byte) /\ Len(<<b>> \o Payload(m)) > 0
             /\ Len(<<b>> \o Payload(m)) < Power[LongBytes]
  <2>1. /\ size[m] \in Nat /\ size[m] > 0 /\ size[m] + 1 < Power[LongBytes]
        /\ Payload(m) \in Seq(Byte) /\ Len(Payload(m)) = size[m]
    BY SizeFacts
  <2>2. <<b>> \in Seq(Byte) /\ Len(<<b>>) = 1
    OBVIOUS
  <2> DEFINE s == <<b>>
             t == Payload(m)
  <2> HIDE DEF s, t
  <2>3. s \in Seq(Byte) /\ t \in Seq(Byte) /\ Len(s) = 1 /\ Len(t) = size[m]
    BY <2>1, <2>2 DEF s, t
  <2>4. s \o t \in Seq(Byte) /\ Len(s \o t) = Len(s) + Len(t)
    BY <2>3, ConcatProperties
  <2>5. Power[LongBytes] \in Nat
    BY PowerIs, Widths
  <2>6. Len(s \o t) > 0 /\ Len(s \o t) < Power[LongBytes]
    BY <2>1, <2>3, <2>4, <2>5
  <2> QED
    BY <2>4, <2>6 DEF s, t
<1>3. Len(GetTargets) < Power[LongBytes]
  <2>1. size[Version] \in Nat /\ size[Version] > 0 /\ size[Version] + 1 < Power[LongBytes] /\ Power[LongBytes] \in Nat
    BY MessagesAre, SizeFacts, PowerIs, Widths
  <2>2. Len(GetTargets) = 1
    BY DEF GetTargets
  <2> QED
    BY <2>1, <2>2
<1>4. GetTargets \in Seq(Byte) /\ Len(GetTargets) > 0
  BY <1>1 DEF GetTargets
<1> QED
  BY <1>1, <1>2, <1>3, <1>4, MessagesAre DEF AttachToTarget, CaptureScreenshot

\* The browser reads one command more.
LEMMA SentGrows ==
  ASSUME SentInv, NEW command \in Seq(Byte), Len(command) > 0, Len(command) < Power[LongBytes],
         sent' = sent \o CreateWebSocketBuffer(command), commands' = Append(commands, command),
         NEW n \in 0 .. 2, Len(commands) = n
  PROVE  /\ sent' \in Seq(Byte) /\ Execute(sent').state = "start" /\ Execute(sent').bodies = commands'
         /\ Len(commands') = n + 1
<1> DEFINE F == CreateWebSocketBuffer(command)
           d == sent
           masked == TRUE
<1>1. IsFrame(F, command, TRUE)
  BY CommandIsFrame
<1>2. F \in Seq(Byte)
  BY <1>1, FrameFacts
<1>3. d \in Seq(Byte) /\ Execute(d).state = "start" /\ Execute(d).bodies = commands
  BY DEF SentInv
<1>4. Sound(Execute(d))
  BY <1>3, ExecuteSound
<1>5. commands \in Seq(Seq(Nat))
  BY <1>3, <1>4, ParserFields DEF Sound
<1>6. IsFrame(F, command, masked)
  BY <1>1
<1> HIDE DEF F, d, masked
<1>7. Execute(d \o F).state = "start" /\ Execute(d \o F).bodies = Append(Execute(d).bodies, command)
  BY <1>3, <1>6, FrameEnds
<1>8. d \o F \in Seq(Byte)
  BY <1>2, <1>3, ConcatProperties
<1>9. sent' = d \o F
  BY DEF d, F
<1>10. command \in Seq(Nat)
  <2>1. \A s \in Seq(Byte) : s \in Seq(Nat)
    BY Widths DEF Byte
  <2> QED
    BY <2>1
<1>11. Len(commands') = n + 1
  BY <1>5, <1>10, AppendProperties
<1> QED
  BY <1>3, <1>7, <1>8, <1>9, <1>11

\* The bytes received when an answer ends are the beginning of what is on the wire.
LEMMA Answered ==
  ASSUME Typed, StreamInv, NEW stage, AnswerEnds(stage)
  PROVE  /\ Received \in Seq(Byte)
         /\ \E S, u, v \in Seq(Byte) : /\ OnWire(stage, S) /\ Splits(S, Received, v)
                                       /\ Splits(v, FlattenSeq(coming), u) /\ (open => u = <<>>)
<1>1. Received = byteBuf \o net /\ pc = stage /\ pc \in Reading
  BY TakesAll
<1>2. PICK S, u \in Seq(Byte) : OnWire(pc, S) /\ Rest(S, u)
  BY <1>1 DEF StreamInv
<1>3. PICK v \in Seq(Byte) : Splits(S, byteBuf \o net, v) /\ Splits(v, FlattenSeq(coming), u)
  BY <1>2, Begins
<1>4. byteBuf \o net \in Seq(Byte)
  BY FlowIs
<1>5. open => u = <<>>
  BY <1>2 DEF Rest
<1> QED
  BY <1>1, <1>2, <1>3, <1>4, <1>5

\* When nothing follows in the answer, nothing follows on the connection.
LEMMA NothingFollows ==
  ASSUME NEW f \in Seq(Byte), NEW u \in Seq(Byte), NEW v, Splits(v, f, u), v = <<>>
  PROVE  f = <<>> /\ u = <<>>
<1>1. Parts(v, f, u)
  BY SplitParts
<1>2. Len(v) = Len(f) + Len(u) /\ Len(f) \in Nat /\ Len(u) \in Nat
  BY <1>1 DEF Parts
<1>3. Len(v) = 0
  BY Empties
<1>4. Len(f) = 0 /\ Len(u) = 0
  BY <1>2, <1>3
<1> QED
  BY <1>4, EmptySeq

LEMMA Nothing == FlattenSeq(<<>>) = <<>> /\ <<>> \o (<<>> \o <<>>) = <<>>
<1>1. <<>> \o <<>> = <<>>
  BY Empties, ConcatEmptySeq
<1> QED
  BY <1>1, FlattenEmpty

LEMMA StopsKeeps ==
  ASSUME SocketInv, NEW how \in Ends, Stops(how), net' = <<>>
  PROVE  SocketInv'
<1>1. Typed /\ StreamInv /\ SentInv
  BY DEF SocketInv
<1>2. /\ pc' = how /\ byteBuf' = <<>> /\ coming' = <<>> /\ size' = size /\ faults' = faults /\ open' = open
      /\ sent' = sent /\ commands' = commands /\ saved' = saved
  BY DEF Stops
<1>3. <<>> \in Seq(Byte) /\ <<>> \in Seq(Seq(Byte))
  OBVIOUS
<1>4. Typed'
  BY <1>1, <1>2, <1>3 DEF Typed
<1>5. Flow' = <<>>
  BY <1>2, Nothing DEF Flow
<1>6. pc' \notin Reading
  BY <1>2, Stages
<1>7. StreamInv'
  BY <1>2, <1>5, <1>6 DEF StreamInv
<1>8. SentInv'
  BY <1>1, <1>2, <1>6 DEF SentInv
<1> QED
  BY <1>4, <1>7, <1>8 DEF SocketInv

\* The answers to a command, one after the other.
LEMMA Expected ==
  ASSUME size \in Sizes, NEW stage \in {"targets", "attach", "capture"}
  PROVE  /\ Expect(Answers[stage]) \in Seq(Seq(Byte)) /\ stage \in Reading
         /\ FlattenSeq(Expect(Answers[stage])) = CASE stage = "targets" -> Wire(Targets)
                                                   [] stage = "attach"  -> Wire(Attached) \o Wire(Session)
                                                   [] stage = "capture" -> Wire(Capture)
<1>1. stage \in Reading
  BY Stages
<1>2. \A m \in Messages : Expect(<<m>>) = <<Wire(m)>>
  BY DEF Expect
<1>3. Expect(<<Attached, Session>>) = <<Wire(Attached), Wire(Session)>>
  BY DEF Expect
<1>4. /\ Wire(Targets) \in Seq(Byte) /\ Wire(Attached) \in Seq(Byte) /\ Wire(Session) \in Seq(Byte)
      /\ Wire(Capture) \in Seq(Byte)
  BY WireType, MessagesAre
<1>5. CASE stage = "targets"
  <2>1. Expect(Answers[stage]) = <<Wire(Targets)>>
    BY <1>2, <1>5, MessagesAre DEF Answers
  <2>2. <<Wire(Targets)>> \in Seq(Seq(Byte))
    BY <1>4
  <2>3. FlattenSeq(<<Wire(Targets)>>) = Wire(Targets)
    BY <1>4, FlattenOne
  <2> QED
    BY <1>1, <1>5, <2>1, <2>2, <2>3
<1>6. CASE stage = "capture"
  <2>1. Expect(Answers[stage]) = <<Wire(Capture)>>
    BY <1>2, <1>6, MessagesAre DEF Answers
  <2>2. <<Wire(Capture)>> \in Seq(Seq(Byte))
    BY <1>4
  <2>3. FlattenSeq(<<Wire(Capture)>>) = Wire(Capture)
    BY <1>4, FlattenOne
  <2> QED
    BY <1>1, <1>6, <2>1, <2>2, <2>3
<1>7. CASE stage = "attach"
  <2> DEFINE a == Wire(Attached)
             b == Wire(Session)
  <2>1. Expect(Answers[stage]) = <<a, b>>
    BY <1>3, <1>7 DEF Answers
  <2> HIDE DEF a, b
  <2>2. a \in Seq(Byte) /\ b \in Seq(Byte)
    BY <1>4 DEF a, b
  <2>3. <<a, b>> \in Seq(Seq(Byte)) /\ <<a>> \in Seq(Seq(Byte)) /\ <<a, b>> = Append(<<a>>, b)
    BY <2>2
  <2>4. FlattenSeq(Append(<<a>>, b)) = FlattenSeq(<<a>>) \o b
    BY <2>2, <2>3, FlattenAppend
  <2>5. FlattenSeq(<<a>>) = a
    BY <2>2, FlattenOne
  <2>6. FlattenSeq(<<a, b>>) = a \o b
    BY <2>3, <2>4, <2>5
  <2> QED
    BY <1>1, <1>7, <2>1, <2>3, <2>6 DEF a, b
<1> QED
  BY <1>5, <1>6, <1>7

\* At the next stage the connection holds T, but for u.
LEMMA StreamNext ==
  ASSUME NEW stage \in Reading, pc' = stage, size' = size, NEW T \in Seq(Byte), NEW u \in Seq(Byte),
         OnWire(stage, T), Rest(T, u)', ~open' => coming' = <<>>
  PROVE  StreamInv'
<1>1. OnWire(stage, T)'
  BY SameWire
<1>2. OnWire(pc, T)'
  BY <1>1 DEF OnWire
<1>3. (\E S, v \in Seq(Byte) : OnWire(pc, S) /\ Rest(S, v))'
  BY <1>2
<1>4. pc' \notin Ends
  BY Stages
<1> QED
  BY <1>3, <1>4 DEF StreamInv

\* A command, and the answer that is read next: T is what the connection holds then.
LEMMA AsksKeeps ==
  ASSUME SocketInv, NEW stage \in {"targets", "attach", "capture"}, NEW command \in Seq(Byte),
         Asks(stage, command), net' = <<>>, Len(command) > 0, Len(command) < Power[LongBytes],
         NEW n \in 0 .. 2, Len(commands) = n, CommandsBefore(stage, n + 1),
         NEW T \in Seq(Byte), OnWire(stage, T),
         open => Splits(T, FlattenSeq(coming), FlattenSeq(Expect(Answers[stage])))
  PROVE  SocketInv'
<1> DEFINE E == Expect(Answers[stage])
<1>1. Typed /\ StreamInv /\ SentInv
  BY DEF SocketInv
<1>2. /\ byteBuf' = <<>> /\ size' = size /\ faults' = faults /\ open' = open /\ saved' = saved
      /\ sent' = sent \o CreateWebSocketBuffer(command) /\ commands' = Append(commands, command)
  BY DEF Asks
<1>3. E \in Seq(Seq(Byte)) /\ stage \in Reading
  BY <1>1, Expected DEF Typed
<1>4. <<>> \in Seq(Byte) /\ coming \in Seq(Seq(Byte)) /\ FlattenSeq(coming) \in Seq(Byte)
  BY <1>1, FlattenType DEF Typed
<1>6. pc' \in {stage, "killed"}
  BY DEF Asks
<1>7. coming' \in Seq(Seq(Byte)) /\ (pc' = stage => \E u \in Seq(Byte) : Rest(T, u)')
      /\ (~open => coming' = <<>>) /\ (pc' # stage => Flow' = <<>>)
  <2>1. CASE open
    <3>1. pc' = stage /\ coming' = coming \o E
      BY <2>1 DEF Asks
    <3>2. coming' \in Seq(Seq(Byte))
      BY <1>3, <1>4, <3>1, ConcatProperties
    <3> HIDE DEF E
    <3>3. FlattenSeq(coming \o E) = FlattenSeq(coming) \o FlattenSeq(E) /\ FlattenSeq(E) \in Seq(Byte)
      BY <1>3, <1>4, FlattenConcat, FlattenType
    <3>4. T = FlattenSeq(coming) \o FlattenSeq(E)
      BY <2>1 DEF Splits, E
    <3>5. FlattenSeq(coming') = T
      BY <3>1, <3>3, <3>4
    <3>6. Flow' = <<>> \o (<<>> \o T)
      BY <1>2, <3>5 DEF Flow
    <3>7. Flow' = T
      BY <3>6, ConcatEmptySeq
    <3>8. T = T \o <<>>
      BY ConcatEmptySeq
    <3>9. Rest(T, <<>>)'
      BY <3>7, <3>8 DEF Rest, Splits
    <3> QED
      BY <1>4, <2>1, <3>1, <3>2, <3>9
  <2>2. CASE ~open
    <3>1. coming' = <<>>
      BY <1>1, <2>2 DEF Asks, StreamInv
    <3>2. Flow' = <<>>
      BY <1>2, <3>1, Nothing DEF Flow
    <3>3. T = <<>> \o T
      BY ConcatEmptySeq
    <3>4. Rest(T, T)'
      BY <1>2, <2>2, <3>2, <3>3 DEF Rest, Splits
    <3>5. <<>> \in Seq(Seq(Byte))
      OBVIOUS
    <3> QED
      BY <2>2, <3>1, <3>2, <3>4, <3>5
  <2> QED
    BY <2>1, <2>2
<1>8. Typed'
  BY <1>1, <1>2, <1>3, <1>4, <1>6, <1>7 DEF Typed, Ends
<1>9. StreamInv'
  <2>1. CASE pc' = stage
    <3>1. PICK u \in Seq(Byte) : Rest(T, u)'
      BY <1>7, <2>1
    <3> QED
      BY <1>2, <1>3, <1>7, <2>1, <3>1, StreamNext
  <2>2. CASE pc' # stage
    <3>1. pc' \notin Reading
      BY <1>6, <2>2, Stages DEF Ends
    <3> QED
      BY <1>2, <1>7, <2>2, <3>1 DEF StreamInv
  <2> QED
    BY <2>1, <2>2
<1>10. SentInv'
  <2>1. /\ sent' \in Seq(Byte) /\ Execute(sent').state = "start" /\ Execute(sent').bodies = commands'
        /\ Len(commands') = n + 1
    BY <1>1, <1>2, SentGrows
  <2>2. pc' \in Reading => pc' = stage
    BY <1>6, Stages DEF Ends
  <2>3. \A k \in 0 .. 2 : k + 1 \in 0 .. 3
    OBVIOUS
  <2>4. CommandsBefore(stage, Len(commands'))
    BY <2>1
  <2>5. pc' \in Reading => CommandsBefore(pc', Len(commands'))
    BY <2>2, <2>4
  <2> QED
    BY <2>1, <2>3, <2>5 DEF SentInv
<1> QED
  BY <1>8, <1>9, <1>10 DEF SocketInv

\* An answer the next stage does not need to have read to its end: here, nothing is left.
LEMMA AlignedAsk ==
  ASSUME SocketInv, NEW stage \in {"attach", "capture"}, NEW command \in Seq(Byte),
         Asks(stage, command), net' = <<>>, Len(command) > 0, Len(command) < Power[LongBytes],
         NEW n \in 0 .. 2, Len(commands) = n, CommandsBefore(stage, n + 1),
         open => FlattenSeq(coming) = <<>>
  PROVE  SocketInv'
<1> DEFINE E == Expect(Answers[stage])
           T == FlattenSeq(E)
<1>1. size \in Sizes
  BY DEF SocketInv, Typed
<1>2. stage \in {"targets", "attach", "capture"} /\ E \in Seq(Seq(Byte))
  BY <1>1, Expected
<1>3. T \in Seq(Byte)
  BY <1>2, FlattenType
<1>4. OnWire(stage, T)
  BY <1>1, Expected DEF OnWire, Splits
<1>5. open => Splits(T, FlattenSeq(coming), T)
  BY <1>3, ConcatEmptySeq DEF Splits
<1> HIDE DEF E, T
<1>6. open => Splits(T, FlattenSeq(coming), FlattenSeq(Expect(Answers[stage])))
  BY <1>5 DEF T, E
<1> QED
  BY <1>2, <1>3, <1>4, <1>6, AsksKeeps

LEMMA FailsKeeps ==
  ASSUME SocketInv, NEW m, FirstBodyFails(m), net' = <<>>
  PROVE  SocketInv'
<1>1. \E how \in {"undefined", "threw"} : Stops(how)
  BY DEF FirstBodyFails
<1>2. PICK how \in Ends : Stops(how)
  BY <1>1 DEF Ends
<1> QED
  BY <1>2, StopsKeeps

\* Commands do not change with the stage.
LEMMA SentStays ==
  ASSUME SentInv, NEW stage \in Reading, pc = stage, sent' = sent, commands' = commands,
         pc' \in Reading => \A n \in 0 .. 3 : CommandsBefore(stage, n) => CommandsBefore(pc', n)
  PROVE  SentInv'
BY DEF SentInv

LEMMA VersionKeeps == ASSUME SocketInv, GetsVersion PROVE SocketInv'
<1>1. Typed /\ StreamInv /\ SentInv
  BY DEF SocketInv
<1>2. AnswerEnds("version")
  BY DEF GetsVersion
<1>3. net' = <<>> /\ pc = "version"
  BY <1>1, <1>2, TakesAll
<1>4. CASE \E how \in {"threw", "returned"} : Stops(how)
  <2>1. PICK how \in Ends : Stops(how)
    BY <1>4 DEF Ends
  <2> QED
    BY <1>3, <2>1, StopsKeeps
<1>5. CASE /\ pc' = "handshake" /\ open' = TRUE /\ byteBuf' = <<>> /\ coming' = Expect(Answers.handshake)
           /\ UNCHANGED <<size, faults, sent, commands, saved>>
  <2>0. PICK w : w = Wire(Handshake)
    OBVIOUS
  <2>1. w \in Seq(Byte) /\ size \in Sizes
    BY <1>1, <2>0, WireType, MessagesAre DEF Typed
  <2>2. coming' = <<w>>
    BY <1>5, <2>0 DEF Expect, Answers
  <2>3. <<w>> \in Seq(Seq(Byte)) /\ <<>> \in Seq(Byte) /\ FlattenSeq(<<w>>) = w /\ w \o <<>> = w
        /\ <<>> \o (<<>> \o w) = w
    BY <2>1, FlattenOne, ConcatEmptySeq
  <2>4. Typed'
    BY <1>1, <1>3, <1>5, <2>2, <2>3, Stages DEF Typed
  <2>5. Flow' = w
    BY <1>3, <1>5, <2>2, <2>3 DEF Flow
  <2>6. Rest(w, <<>>)'
    <3>1. w = Flow' \o <<>>
      BY <2>3, <2>5
    <3> QED
      BY <3>1 DEF Rest, Splits
  <2>7. OnWire("handshake", w) /\ "handshake" \in Reading
    BY <2>0, Stages DEF OnWire
  <2>8. StreamInv'
    <3>1. pc' = "handshake" /\ size' = size
      BY <1>5
    <3>2. ~open' => coming' = <<>>
      BY <1>5
    <3> QED
      BY <2>1, <2>3, <2>6, <2>7, <3>1, <3>2, StreamNext
  <2>9. SentInv'
    <3>1. \A n \in 0 .. 3 : CommandsBefore("version", n) => CommandsBefore("handshake", n)
      BY DEF CommandsBefore
    <3>2. "version" \in Reading
      BY Stages
    <3> QED
      BY <1>1, <1>3, <1>5, <3>1, <3>2, SentStays
  <2> QED
    BY <2>4, <2>8, <2>9 DEF SocketInv
<1> QED
  BY <1>4, <1>5 DEF GetsVersion

LEMMA HandshakeKeeps == ASSUME SocketInv, GetsHandshake PROVE SocketInv'
<1> DEFINE f == FlattenSeq(coming)
           W == Wire(Targets)
<1>1. Typed /\ StreamInv /\ SentInv /\ size \in Sizes
  BY DEF SocketInv, Typed
<1>2. AnswerEnds("handshake") /\ Asks("targets", GetTargets)
  BY DEF GetsHandshake
<1>3. net' = <<>> /\ pc = "handshake"
  BY <1>1, <1>2, TakesAll
<1>4. PICK S, u, v \in Seq(Byte) : /\ OnWire("handshake", S) /\ Splits(S, Received, v)
                                   /\ Splits(v, f, u) /\ (open => u = <<>>)
  BY <1>1, <1>2, Answered
<1>5. Received \in Seq(Byte) /\ f \in Seq(Byte)
  BY <1>1, <1>2, Answered, FlowIs
<1>6. W \in Seq(Byte) /\ Wire(Handshake) = Payload(Handshake)
  BY <1>1, WireType, MessagesAre
<1> DEFINE T == v \o W
<1>7. Splits(Payload(Handshake), Received, v)
  BY <1>4, <1>6 DEF OnWire
<1>8. Splits(T, v, W)
  BY DEF Splits
<1>9. T \in Seq(Byte)
  BY <1>4, <1>6, ConcatProperties
<1> HIDE DEF T, f
<1>10. OnWire("targets", T)
  BY <1>4, <1>5, <1>7, <1>8 DEF OnWire
<1>11. open => Splits(T, f, W)
  <2> SUFFICES ASSUME open PROVE Splits(T, f, W)
    OBVIOUS
  <2>1. v = f \o <<>>
    BY <1>4 DEF Splits
  <2>2. v = f
    BY <1>5, <2>1, ConcatEmptySeq
  <2> QED
    BY <1>8, <2>2
<1>12. FlattenSeq(Expect(Answers["targets"])) = W
  BY <1>1, Expected
<1>13. CommandsBefore("targets", 0 + 1) /\ Len(commands) = 0
  <2>1. CommandsBefore("handshake", Len(commands))
    BY <1>1, <1>3, Stages DEF SentInv
  <2> QED
    BY <2>1 DEF CommandsBefore
<1>14. GetTargets \in Seq(Byte) /\ Len(GetTargets) > 0 /\ Len(GetTargets) < Power[LongBytes]
  BY <1>1, Commands
<1>15. open => Splits(T, FlattenSeq(coming), FlattenSeq(Expect(Answers["targets"])))
  BY <1>11, <1>12 DEF f
<1> QED
  BY <1>2, <1>3, <1>9, <1>10, <1>13, <1>14, <1>15, AsksKeeps

\* The last step of an answer that was read to its end.
LEMMA NothingIsLeft ==
  ASSUME Typed, NEW u \in Seq(Byte), NEW v, Splits(v, FlattenSeq(coming), u), v = <<>>
  PROVE  FlattenSeq(coming) = <<>>
<1> DEFINE f == FlattenSeq(coming)
<1>1. f \in Seq(Byte)
  BY FlowIs
<1> HIDE DEF f
<1>2. Splits(v, f, u)
  BY DEF f
<1> QED
  BY <1>1, <1>2, NothingFollows DEF f

LEMMA TargetsKeeps == ASSUME SocketInv, GetsTargets PROVE SocketInv'
<1>1. Typed /\ StreamInv /\ SentInv /\ size \in Sizes
  BY DEF SocketInv, Typed
<1>2. AnswerEnds("targets")
  BY DEF GetsTargets
<1>3. net' = <<>> /\ pc = "targets"
  BY <1>1, <1>2, TakesAll
<1>4. CASE FirstBodyFails(Targets)
  BY <1>3, <1>4, FailsKeeps
<1>5. CASE FirstBody(Targets) /\ Asks("attach", AttachToTarget)
  <2>1. PICK S, u, v \in Seq(Byte) : /\ OnWire("targets", S) /\ Splits(S, Received, v)
                                     /\ Splits(v, FlattenSeq(coming), u) /\ (open => u = <<>>)
    BY <1>1, <1>2, Answered
  <2>2. Received \in Seq(Byte)
    BY <1>1, <1>2, Answered
  <2>3. PICK p, h \in Seq(Byte) : Splits(Payload(Handshake), p, h) /\ Splits(S, h, Wire(Targets))
    BY <2>1 DEF OnWire
  <2>4. GetFrameBodyVector(Received) # <<>> /\ GetFrameBodyVector(Received)[1] = Payload(Targets)
    BY <1>5 DEF FirstBody
  <2>5. v = <<>>
    <3> DEFINE x == Received
    <3>1. x \in Seq(Byte) /\ GetFrameBodyVector(x) # <<>> /\ GetFrameBodyVector(x)[1] = Payload(Targets) /\ Splits(S, x, v)
      BY <2>1, <2>2, <2>4
    <3> HIDE DEF x
    <3> QED
      BY <1>1, <2>3, <3>1, TargetsInStep
  <2>6. FlattenSeq(coming) = <<>>
    BY <1>1, <2>1, <2>5, NothingIsLeft
  <2>7. CommandsBefore("attach", 1 + 1) /\ Len(commands) = 1
    <3>1. CommandsBefore("targets", Len(commands))
      BY <1>1, <1>3, Stages DEF SentInv
    <3> QED
      BY <3>1 DEF CommandsBefore
  <2>8. AttachToTarget \in Seq(Byte) /\ Len(AttachToTarget) > 0 /\ Len(AttachToTarget) < Power[LongBytes]
    BY <1>1, Commands
  <2> QED
    BY <1>3, <1>5, <2>6, <2>7, <2>8, AlignedAsk
<1> QED
  BY <1>4, <1>5 DEF GetsTargets

LEMMA VectorType ==
  ASSUME NEW x \in Seq(Byte)
  PROVE  GetFrameBodyVector(x) \in Seq(Seq(Nat))
<1> DEFINE P == Execute(x)
<1>1. Sound(P)
  BY ExecuteSound
<1> HIDE DEF P
<1>2. P \in Parser /\ P.bodies \in Seq(Seq(Nat)) /\ P.body \in Seq(Nat) /\ P.mask \in Seq(Nat)
  BY <1>1, ParserFields DEF Sound
<1>3. Bodies[P] = IF P.body = <<>> THEN P.bodies ELSE Append(P.bodies, Shown(P, P.body))
  BY <1>2, BodiesIs
<1>4. P.body # <<>> => Shown(P, P.body) \in Seq(Nat)
  <2> SUFFICES ASSUME P.body # <<>> PROVE Shown(P, P.body) \in Seq(Nat)
    OBVIOUS
  <2>1. P.state = "body"
    BY <1>1 DEF Sound
  <2>2. P.masked => Len(P.mask) = 4
    BY <1>1, <2>1 DEF Sound
  <2> QED
    BY <1>2, <2>2, UnmaskType DEF Shown
<1>5. Bodies[P] \in Seq(Seq(Nat))
  BY <1>2, <1>3, <1>4, AppendProperties
<1> QED
  BY <1>5 DEF GetFrameBodyVector, P


LEMMA AttachedKeeps == ASSUME SocketInv, GetsAttached PROVE SocketInv'
<1> DEFINE bodies == GetFrameBodyVector(Received)
           whole == \A i \in DOMAIN bodies : \E m \in Framed : bodies[i] = Payload(m)
<1>1. Typed /\ StreamInv /\ SentInv /\ size \in Sizes
  BY DEF SocketInv, Typed
<1>2. AnswerEnds("attach")
  BY DEF GetsAttached
<1>3. net' = <<>> /\ pc = "attach"
  BY <1>1, <1>2, TakesAll
<1>4. PICK S, u, v \in Seq(Byte) : /\ OnWire("attach", S) /\ Splits(S, Received, v)
                                   /\ Splits(v, FlattenSeq(coming), u) /\ (open => u = <<>>)
  BY <1>1, <1>2, Answered
<1>5. Received \in Seq(Byte)
  BY <1>1, <1>2, Answered
<1>6. Splits(S, Wire(Attached), Wire(Session))
  BY <1>4 DEF OnWire
<1>7. /\ Len(bodies) = 1 /\ (\E m \in Framed : bodies[1] = Payload(m)) => \E p \in Seq(Byte) : Splits(Wire(Session), p, v)
      /\ Len(bodies) = 2 /\ bodies[2] = Payload(Session) => v = <<>>
  <2> DEFINE x == Received
  <2>1. x \in Seq(Byte) /\ Splits(S, x, v) /\ v \in Seq(Byte)
    BY <1>4, <1>5
  <2> HIDE DEF x
  <2>2. /\ Len(GetFrameBodyVector(x)) = 1 /\ (\E m \in Framed : GetFrameBodyVector(x)[1] = Payload(m))
             => \E p \in Seq(Byte) : Splits(Wire(Session), p, v)
        /\ Len(GetFrameBodyVector(x)) = 2 /\ GetFrameBodyVector(x)[2] = Payload(Session) => v = <<>>
    BY <1>1, <1>6, <2>1, AttachedInStep
  <2> QED
    BY <2>2 DEF x
<1>8. CASE \E how \in {"threw", "returned"} : Stops(how)
  <2>1. PICK how \in Ends : Stops(how)
    BY <1>8 DEF Ends
  <2> QED
    BY <1>3, <2>1, StopsKeeps
<1>9. CASE /\ whole /\ Len(bodies) = 1
           /\ pc' = "attachAgain" /\ byteBuf' = <<>>
           /\ UNCHANGED <<size, faults, coming, open, sent, commands, saved>>
  <2>1. 1 \in DOMAIN bodies
    <3>1. bodies \in Seq(Seq(Nat))
      BY <1>5, VectorType
    <3> HIDE DEF bodies
    <3>2. Len(bodies) = 1
      BY <1>9
    <3> QED
      BY <3>1, <3>2
  <2>2. \E m \in Framed : bodies[1] = Payload(m)
    BY <1>9, <2>1
  <2> HIDE DEF bodies
  <2>3. PICK p \in Seq(Byte) : Splits(Wire(Session), p, v)
    BY <1>7, <1>9, <2>2
  <2>4. OnWire("attachAgain", v) /\ "attachAgain" \in Reading
    BY <2>3, Stages DEF OnWire
  <2>5. Flow' = FlattenSeq(coming)
    <3> DEFINE f == FlattenSeq(coming)
    <3>1. f \in Seq(Byte)
      BY <1>1, FlowIs
    <3>2. Flow' = <<>> \o (<<>> \o f)
      BY <1>3, <1>9 DEF Flow
    <3> HIDE DEF f
    <3>3. <<>> \o (<<>> \o f) = f
      BY <3>1, ConcatEmptySeq
    <3> QED
      BY <3>2, <3>3 DEF f
  <2>6. Rest(v, u)'
    <3>1. open' = open
      BY <1>9
    <3>2. open => u = <<>>
      BY <1>4
    <3>3. Splits(v, Flow', u)
      BY <1>4, <2>5
    <3> QED
      BY <3>1, <3>2, <3>3 DEF Rest
  <2>7. StreamInv'
    <3>1. ~open' => coming' = <<>>
      BY <1>1, <1>9 DEF StreamInv
    <3>2. pc' = "attachAgain" /\ size' = size
      BY <1>9
    <3> QED
      BY <1>4, <2>4, <2>6, <3>1, <3>2, StreamNext
  <2>8. SentInv'
    <3>1. \A n \in 0 .. 3 : CommandsBefore("attach", n) => CommandsBefore("attachAgain", n)
      BY DEF CommandsBefore
    <3>2. "attach" \in Reading
      BY Stages
    <3> QED
      BY <1>1, <1>3, <1>9, <3>1, <3>2, SentStays
  <2>9. Typed'
    <3>1. <<>> \in Seq(Byte)
      OBVIOUS
    <3> QED
      BY <1>1, <1>3, <1>9, <3>1, Stages DEF Typed
  <2> QED
    BY <2>7, <2>8, <2>9 DEF SocketInv
<1>10. CASE Len(bodies) = 2 /\ bodies[2] = Payload(Session) /\ Asks("capture", CaptureScreenshot)
  <2>1. v = <<>>
    BY <1>7, <1>10
  <2>2. FlattenSeq(coming) = <<>>
    BY <1>1, <1>4, <2>1, NothingIsLeft
  <2>3. CommandsBefore("capture", 2 + 1) /\ Len(commands) = 2
    <3>1. CommandsBefore("attach", Len(commands))
      BY <1>1, <1>3, Stages DEF SentInv
    <3> QED
      BY <3>1 DEF CommandsBefore
  <2>4. CaptureScreenshot \in Seq(Byte) /\ Len(CaptureScreenshot) > 0 /\ Len(CaptureScreenshot) < Power[LongBytes]
    BY <1>1, Commands
  <2> QED
    BY <1>3, <1>10, <2>2, <2>3, <2>4, AlignedAsk
<1> QED
  BY <1>8, <1>9, <1>10 DEF GetsAttached

LEMMA SessionKeeps == ASSUME SocketInv, GetsSession PROVE SocketInv'
<1>1. Typed /\ StreamInv /\ SentInv /\ size \in Sizes
  BY DEF SocketInv, Typed
<1>2. AnswerEnds("attachAgain")
  BY DEF GetsSession
<1>3. net' = <<>> /\ pc = "attachAgain"
  BY <1>1, <1>2, TakesAll
<1>4. CASE FirstBodyFails(Session)
  BY <1>3, <1>4, FailsKeeps
<1>5. CASE FirstBody(Session) /\ Asks("capture", CaptureScreenshot)
  <2>1. PICK S, u, v \in Seq(Byte) : /\ OnWire("attachAgain", S) /\ Splits(S, Received, v)
                                     /\ Splits(v, FlattenSeq(coming), u) /\ (open => u = <<>>)
    BY <1>1, <1>2, Answered
  <2>2. Received \in Seq(Byte)
    BY <1>1, <1>2, Answered
  <2>3. PICK p \in Seq(Byte) : Splits(Wire(Session), p, S)
    BY <2>1 DEF OnWire
  <2>4. GetFrameBodyVector(Received) # <<>> /\ GetFrameBodyVector(Received)[1] = Payload(Session)
    BY <1>5 DEF FirstBody
  <2>5. v = <<>>
    <3> DEFINE x == Received
    <3>1. x \in Seq(Byte) /\ GetFrameBodyVector(x) # <<>> /\ GetFrameBodyVector(x)[1] = Payload(Session) /\ Splits(S, x, v)
      BY <2>1, <2>2, <2>4
    <3> HIDE DEF x
    <3> QED
      BY <1>1, <2>3, <3>1, SessionInStep
  <2>6. FlattenSeq(coming) = <<>>
    BY <1>1, <2>1, <2>5, NothingIsLeft
  <2>7. CommandsBefore("capture", 2 + 1) /\ Len(commands) = 2
    <3>1. CommandsBefore("attachAgain", Len(commands))
      BY <1>1, <1>3, Stages DEF SentInv
    <3> QED
      BY <3>1 DEF CommandsBefore
  <2>8. CaptureScreenshot \in Seq(Byte) /\ Len(CaptureScreenshot) > 0 /\ Len(CaptureScreenshot) < Power[LongBytes]
    BY <1>1, Commands
  <2> QED
    BY <1>3, <1>5, <2>6, <2>7, <2>8, AlignedAsk
<1> QED
  BY <1>4, <1>5 DEF GetsSession

LEMMA CaptureKeeps == ASSUME SocketInv, GetsCapture PROVE SocketInv'
<1>1. Typed /\ StreamInv /\ SentInv /\ size \in Sizes
  BY DEF SocketInv, Typed
<1>2. AnswerEnds("capture")
  BY DEF GetsCapture
<1>3. net' = <<>> /\ pc = "capture"
  BY <1>1, <1>2, TakesAll
<1>4. CASE FirstBodyFails(Capture)
  BY <1>3, <1>4, FailsKeeps
<1>5. CASE /\ FirstBody(Capture)
           /\ pc' = "done" /\ saved' = TRUE /\ byteBuf' = <<>>
           /\ UNCHANGED <<size, faults, coming, open, sent, commands>>
  <2>1. PICK S, u, v \in Seq(Byte) : /\ OnWire("capture", S) /\ Splits(S, Received, v)
                                     /\ Splits(v, FlattenSeq(coming), u) /\ (open => u = <<>>)
    BY <1>1, <1>2, Answered
  <2>2. Received \in Seq(Byte)
    BY <1>1, <1>2, Answered
  <2>3. S = Wire(Capture)
    BY <2>1 DEF OnWire
  <2>4. GetFrameBodyVector(Received) # <<>> /\ GetFrameBodyVector(Received)[1] = Payload(Capture)
    BY <1>5 DEF FirstBody
  <2>5. v = <<>>
    <3> DEFINE x == Received
    <3>1. x \in Seq(Byte) /\ GetFrameBodyVector(x) # <<>> /\ GetFrameBodyVector(x)[1] = Payload(Capture)
      BY <2>2, <2>4
    <3>2. Splits(Wire(Capture), x, v)
      BY <2>1, <2>3
    <3> HIDE DEF x
    <3> QED
      BY <1>1, <3>1, <3>2, AlignedAnswer, MessagesAre
  <2>6. FlattenSeq(coming) = <<>>
    BY <1>1, <2>1, <2>5, NothingIsLeft
  <2>7. Flow' = <<>>
    <3>1. FlattenSeq(coming') = <<>>
      BY <1>5, <2>6
    <3> QED
      BY <1>3, <1>5, <3>1, Nothing DEF Flow
  <2>8. pc' \in Ends /\ pc' \notin Reading
    BY <1>5, Stages DEF Ends
  <2>9. Typed'
    <3>1. <<>> \in Seq(Byte)
      OBVIOUS
    <3> QED
      BY <1>1, <1>3, <1>5, <2>8, <3>1 DEF Typed
  <2>10. StreamInv'
    <3>1. ~open' => coming' = <<>>
      BY <1>1, <1>5 DEF StreamInv
    <3> QED
      BY <2>7, <2>8, <3>1 DEF StreamInv
  <2>11. SentInv'
    BY <1>1, <1>5, <2>8 DEF SentInv
  <2> QED
    BY <2>9, <2>10, <2>11 DEF SocketInv
<1> QED
  BY <1>4, <1>5 DEF GetsCapture

\* Bytes that only move leave the stream as it was.
LEMMA MovesKeep ==
  ASSUME SocketInv, Typed', Flow' = Flow, ~open => coming' = <<>>,
         UNCHANGED <<size, faults, pc, open, sent, commands, saved>>
  PROVE  SocketInv'
<1>1. Typed /\ StreamInv /\ SentInv
  BY DEF SocketInv
<1>2. SentInv'
  BY <1>1 DEF SentInv
<1>3. CASE pc \in Reading
  <2>1. PICK S, u \in Seq(Byte) : OnWire(pc, S) /\ Rest(S, u)
    BY <1>1, <1>3 DEF StreamInv
  <2>2. PICK stage \in Reading : stage = pc
    BY <1>3
  <2>3. OnWire(stage, S)
    BY <2>1, <2>2
  <2>4. Rest(S, u)'
    BY <2>1 DEF Rest
  <2>5. pc' = stage /\ size' = size
    BY <2>2
  <2>6. ~open' => coming' = <<>>
    OBVIOUS
  <2>7. StreamInv'
    BY <2>1, <2>3, <2>4, <2>5, <2>6, StreamNext
  <2> QED
    BY <1>2, <2>7 DEF SocketInv
<1>4. CASE pc \in Ends
  <2>1. pc' \in Ends /\ pc' \notin Reading
    BY <1>4, Stages
  <2>2. Flow' = <<>>
    BY <1>1, <1>4 DEF StreamInv
  <2>3. ~open' => coming' = <<>>
    OBVIOUS
  <2>4. StreamInv'
    BY <2>1, <2>2, <2>3 DEF StreamInv
  <2> QED
    BY <1>2, <2>4 DEF SocketInv
<1> QED
  BY <1>1, <1>3, <1>4 DEF Typed

LEMMA ReadsOnStep == ASSUME SocketInv, ReadsOn PROVE SocketInv'
<1>1. Typed /\ StreamInv
  BY DEF SocketInv
<1>2. byteBuf' \in Seq(Byte) /\ net' \in Seq(Byte) /\ byteBuf' \o net' = byteBuf \o net
  BY <1>1, ReadsOnKeeps
<1>3. UNCHANGED <<size, faults, pc, coming, open, sent, commands, saved>>
  BY DEF ReadsOn
<1>4. Typed'
  BY <1>1, <1>2, <1>3 DEF Typed
<1>5. Flow = (byteBuf \o net) \o FlattenSeq(coming)
  BY <1>1, FlowIs DEF Splits
<1>6. Flow' = (byteBuf' \o net') \o FlattenSeq(coming)
  <2> DEFINE b == byteBuf'
             n == net'
             f == FlattenSeq(coming)
  <2>1. b \in Seq(Byte) /\ n \in Seq(Byte) /\ f \in Seq(Byte)
    BY <1>1, <1>2, FlowIs
  <2>2. Flow' = b \o (n \o f)
    BY <1>3 DEF Flow
  <2> HIDE DEF b, n, f
  <2>3. (b \o n) \o f = b \o (n \o f)
    <3>1. Associates(b, n, f)
      BY <2>1, Regroup
    <3> QED
      BY <3>1 DEF Associates
  <2> QED
    BY <2>2, <2>3 DEF b, n, f
<1>7. Flow' = Flow
  BY <1>2, <1>5, <1>6
<1>8. ~open => coming' = <<>>
  BY <1>1, <1>3 DEF StreamInv
<1> QED
  BY <1>3, <1>4, <1>7, <1>8, MovesKeep

LEMMA ArrivesStep == ASSUME SocketInv, Arrives PROVE SocketInv'
<1>1. Typed /\ StreamInv
  BY DEF SocketInv
<1>2. net' \in Seq(Byte) /\ coming' \in Seq(Seq(Byte)) /\ net' \o FlattenSeq(coming') = net \o FlattenSeq(coming)
  BY <1>1, ArrivesKeeps
<1>3. UNCHANGED <<size, faults, pc, byteBuf, open, sent, commands, saved>>
  BY DEF Arrives
<1>4. Typed'
  BY <1>1, <1>2, <1>3 DEF Typed
<1>5. Flow' = Flow
  BY <1>2, <1>3 DEF Flow
<1>6. ~open => coming' = <<>>
  BY <1>1 DEF StreamInv, Arrives
<1> QED
  BY <1>3, <1>4, <1>5, <1>6, MovesKeep

LEMMA ClosesStep == ASSUME SocketInv, BrowserCloses PROVE SocketInv'
<1>1. Typed /\ StreamInv /\ SentInv
  BY DEF SocketInv
<1>2. /\ pc \in Reading /\ coming' = <<>> /\ size' = size /\ faults' = faults /\ pc' = pc /\ byteBuf' = byteBuf
      /\ net' = net /\ sent' = sent /\ commands' = commands /\ saved' = saved
  BY DEF BrowserCloses
<1>3. open' = FALSE
  BY DEF BrowserCloses
<1>4. Typed'
  <2>1. <<>> \in Seq(Seq(Byte))
    OBVIOUS
  <2>2. open' \in BOOLEAN
    BY <1>3
  <2> QED
    BY <1>1, <1>2, <2>1, <2>2 DEF Typed
<1>5. PICK S, u \in Seq(Byte) : OnWire(pc, S) /\ Rest(S, u)
  BY <1>1, <1>2 DEF StreamInv
<1>6. PICK v \in Seq(Byte) : Splits(S, byteBuf \o net, v)
  BY <1>1, <1>5, Begins
<1>7. Flow' = byteBuf \o net
  <2>1. net \o <<>> = net
    BY <1>1, ConcatEmptySeq DEF Typed
  <2> QED
    BY <1>2, <2>1, Nothing DEF Flow
<1>8. Rest(S, v)'
  <2>1. Splits(S, Flow', v)
    BY <1>6, <1>7
  <2> QED
    BY <1>3, <2>1 DEF Rest
<1>9. PICK stage \in Reading : stage = pc
  BY <1>2
<1>10. StreamInv'
  <2>1. OnWire(stage, S) /\ pc' = stage /\ size' = size
    BY <1>2, <1>5, <1>9
  <2>2. ~open' => coming' = <<>>
    BY <1>2
  <2> QED
    BY <1>5, <1>8, <2>1, <2>2, StreamNext
<1>11. SentInv'
  BY <1>1, <1>2 DEF SentInv
<1> QED
  BY <1>4, <1>10, <1>11 DEF SocketInv

LEMMA SocketInit == Init => SocketInv
<1> SUFFICES ASSUME Init PROVE SocketInv
  OBVIOUS
<1>1. /\ size \in Sizes /\ faults \in SUBSET Faults /\ pc = "version" /\ byteBuf = <<>> /\ net = <<>>
      /\ coming = Expect(Answers.version) /\ open = TRUE /\ sent = <<>> /\ commands = <<>> /\ saved = FALSE
  BY DEF Init
<1>2. PICK w : w = Wire(Version)
  OBVIOUS
<1>3. w \in Seq(Byte)
  BY <1>1, <1>2, WireType, MessagesAre
<1>4. coming = <<w>>
  BY <1>1, <1>2 DEF Expect, Answers
<1>5. /\ <<w>> \in Seq(Seq(Byte)) /\ <<>> \in Seq(Byte) /\ FlattenSeq(<<w>>) = w /\ w \o <<>> = w
      /\ <<>> \o (<<>> \o w) = w
  BY <1>3, FlattenOne, ConcatEmptySeq
<1>6. pc \in Reading /\ pc \notin Ends
  BY <1>1, Stages
<1>7. Typed
  <2>1. open \in BOOLEAN /\ saved \in BOOLEAN
    BY <1>1
  <2> QED
    BY <1>1, <1>4, <1>5, <1>6, <2>1 DEF Typed
<1>8. Flow = w
  BY <1>1, <1>4, <1>5 DEF Flow
<1>9. OnWire(pc, w)
  BY <1>1, <1>2 DEF OnWire
<1>10. Rest(w, <<>>)
  <2>1. w = Flow \o <<>>
    BY <1>5, <1>8
  <2> QED
    BY <2>1 DEF Rest, Splits
<1>11. StreamInv
  <2>1. open
    BY <1>1
  <2> QED
    BY <1>3, <1>5, <1>6, <1>9, <1>10, <2>1 DEF StreamInv
<1>12. SentInv
  <2>1. Execute(sent).state = "start" /\ Execute(sent).bodies = commands
    BY <1>1, ExecuteEmpty, NewIsSound
  <2>2. Len(commands) = 0 /\ 0 \in 0 .. 3
    BY <1>1
  <2>3. CommandsBefore(pc, 0)
    BY <1>1 DEF CommandsBefore
  <2> QED
    BY <1>1, <1>5, <2>1, <2>2, <2>3 DEF SentInv
<1> QED
  BY <1>7, <1>11, <1>12 DEF SocketInv

LEMMA SocketNext == SocketInv /\ [Next]_vars => SocketInv'
<1> SUFFICES ASSUME SocketInv, [Next]_vars PROVE SocketInv'
  OBVIOUS
<1>1. CASE ReadsOn
  BY <1>1, ReadsOnStep
<1>2. CASE MeetsEnd
  <2>1. Stops("returned") /\ net' = <<>> /\ "returned" \in Ends
    BY <1>2 DEF MeetsEnd, Ends
  <2> QED
    BY <2>1, StopsKeeps
<1>3. CASE GetsVersion
  BY <1>3, VersionKeeps
<1>4. CASE GetsHandshake
  BY <1>4, HandshakeKeeps
<1>5. CASE GetsTargets
  BY <1>5, TargetsKeeps
<1>6. CASE GetsAttached
  BY <1>6, AttachedKeeps
<1>7. CASE GetsSession
  BY <1>7, SessionKeeps
<1>8. CASE GetsCapture
  BY <1>8, CaptureKeeps
<1>9. CASE Arrives
  BY <1>9, ArrivesStep
<1>10. CASE BrowserCloses
  BY <1>10, ClosesStep
<1>11. CASE UNCHANGED vars
  <2>1. UNCHANGED <<size, faults, pc, byteBuf, net, coming, open, sent, commands, saved>>
    BY <1>11 DEF vars
  <2>2. Typed /\ StreamInv
    BY DEF SocketInv
  <2>3. Typed' /\ Flow' = Flow
    BY <2>1, <2>2 DEF Typed, Flow
  <2>4. ~open => coming' = <<>>
    BY <2>1, <2>2 DEF StreamInv
  <2> QED
    BY <2>1, <2>3, <2>4, MovesKeep
<1> QED
  BY <1>1, <1>2, <1>3, <1>4, <1>5, <1>6, <1>7, <1>8, <1>9, <1>10, <1>11 DEF Next, ClientStep

(* At every stage of takeScreenshot the bytes that have been read, that have arrived and
   that are on their way make up what the browser has to say to the commands so far, but for
   whole answers that were read and what a closed connection cuts off; and the bytes sent
   are frames around the commands. *)
THEOREM StreamInStep == Spec => []SocketInv
<1>1. Init => SocketInv
  BY SocketInit
<1>2. SocketInv /\ [Next]_vars => SocketInv'
  BY SocketNext
<1> QED
  BY <1>1, <1>2, PTL DEF Spec

(* The variables have their types; byteBuf and the kernel's buffer hold no more than one
   pass of the protocol sends, and at most three commands are sent. *)
THEOREM SocketTypeCorrect == Spec => []TypeOK
<1>1. SocketInv => TypeOK
  BY SocketBounds
<1> QED
  BY <1>1, StreamInStep, PTL

(* getFrameBodyVector makes of any beginning of the browser's frames the payloads of the
   whole ones and what there is of the next, for all widths of the length fields. *)
THEOREM AnyPieceIsRead == Spec => []PiecesOfFrames
<1>1. SocketInv => size \in Sizes
  BY DEF SocketInv, Typed
<1>2. SocketInv => PiecesOfFrames
  BY <1>1, FramesInPieces
<1> QED
  BY <1>2, StreamInStep, PTL

(* The frames createWebSocketBuffer makes hold exactly the commands. *)
THEOREM CommandsAreUnderstood == Spec => []BrowserUnderstands
<1>1. SocketInv => BrowserUnderstands
  BY SocketUnderstood
<1> QED
  BY <1>1, StreamInStep, PTL

(* A command that depends on an answer is sent only when the answer before it has been
   read to its last byte, however TCP cuts the stream, whatever the sizes. *)
THEOREM CommandsInStep == Spec => []NextCommandInStep
<1>1. SocketInv => NextCommandInStep
  BY SocketInStep
<1> QED
  BY <1>1, StreamInStep, PTL
=============================================================================
