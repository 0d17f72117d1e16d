---------------------------- MODULE Base64_proofs ----------------------------
(***************************************************************************)
(* The decoder of _SaveFile returns the bytes base64 defines, for inputs   *)
(* of every length and of any symbols.  The loop does not build on itself: *)
(* the state holds all that the bytes so far depend on, so an ordinary     *)
(* inductive invariant of the loop does.                                   *)
(***************************************************************************)
EXTENDS Base64, SequenceTheorems, TLAPS

\* Full groups of four have become three bytes each; the array holds the rest.
GroupsInv ==
  /\ \A j \in 1 .. in_ : encoded_string[j] \in Digits
  /\ pc = "tail" => i > 0
  /\ pc # "loop" => ~More
  /\ pc # "done" => \E q \in Nat : in_ = 4 * q + i /\ Len(decoded) = 3 * q
  /\ pc # "done" => \A j \in 0 .. 3 : j < i => char_array_4[j] = encoded_string[in_ - i + j + 1]

\* The bytes so far are those of the stream of bits.
BytesInv == \A k \in 1 .. Len(decoded) : decoded[k] = ByteAt(k - 1)

LengthInv == pc = "done" => Len(decoded) = (6 * in_) \div 8

Inv == TypeOK /\ GroupsInv /\ BytesInv /\ LengthInv

-----------------------------------------------------------------------------
(* Numbers of six bits and bytes. *)

LEMMA Powers ==
  /\ 2 ^ 0 = 1 /\ 2 ^ 1 = 2 /\ 2 ^ 2 = 4 /\ 2 ^ 3 = 8
  /\ 2 ^ 4 = 16 /\ 2 ^ 5 = 32 /\ 2 ^ 6 = 64 /\ 2 ^ 7 = 128
OBVIOUS

\* B(x, w): the bit of weight w.
B(x, w) == (x \div w) % 2

LEMMA SixBits ==
  ASSUME NEW a \in 0 .. 63
  PROVE  a = 32 * B(a, 32) + 16 * B(a, 16) + 8 * B(a, 8) + 4 * B(a, 4) + 2 * B(a, 2) + B(a, 1)
BY DEF B

LEMMA HighBits ==
  ASSUME NEW a \in 0 .. 63
  PROVE  /\ a \div 16 = 2 * B(a, 32) + B(a, 16)
         /\ a \div 4 = 8 * B(a, 32) + 4 * B(a, 16) + 2 * B(a, 8) + B(a, 4)
         /\ a % 16 = 8 * B(a, 8) + 4 * B(a, 4) + 2 * B(a, 2) + B(a, 1)
         /\ a % 4 = 2 * B(a, 2) + B(a, 1)
         /\ a % 64 = a
BY DEF B

LEMMA BitRange ==
  ASSUME NEW a \in 0 .. 63
  PROVE  /\ B(a, 32) \in 0 .. 1 /\ B(a, 16) \in 0 .. 1 /\ B(a, 8) \in 0 .. 1
         /\ B(a, 4) \in 0 .. 1 /\ B(a, 2) \in 0 .. 1 /\ B(a, 1) \in 0 .. 1
BY DEF B

\* What the program computes from two neighbours in the array.
First(x, y) == (x * 4 + (y % 64) \div 16) % 256
Second(x, y) == ((x % 16) * 16 + (y % 64) \div 4) % 256
Third(x, y) == ((x % 4) * 64 + y) % 256

\* The eight bits on from bit 0, 2 or 4 of x.
FirstBits(x, y) ==
  128 * B(x, 32) + 64 * B(x, 16) + 32 * B(x, 8) + 16 * B(x, 4)
  + 8 * B(x, 2) + 4 * B(x, 1) + 2 * B(y, 32) + B(y, 16)
SecondBits(x, y) ==
  128 * B(x, 8) + 64 * B(x, 4) + 32 * B(x, 2) + 16 * B(x, 1)
  + 8 * B(y, 32) + 4 * B(y, 16) + 2 * B(y, 8) + B(y, 4)
ThirdBits(x, y) ==
  128 * B(x, 2) + 64 * B(x, 1) + 32 * B(y, 32) + 16 * B(y, 16)
  + 8 * B(y, 8) + 4 * B(y, 4) + 2 * B(y, 2) + B(y, 1)

LEMMA BytesOfPair ==
  ASSUME NEW x \in 0 .. 63, NEW y \in 0 .. 63
  PROVE  /\ First(x, y) = FirstBits(x, y)
         /\ Second(x, y) = SecondBits(x, y)
         /\ Third(x, y) = ThirdBits(x, y)
<1>1. \A s \in 0 .. 255 : s % 256 = s
  OBVIOUS
<1>2. y % 64 = y
  OBVIOUS
<1>3. x * 4 + y \div 16 \in 0 .. 255 /\ (x % 16) * 16 + y \div 4 \in 0 .. 255 /\ (x % 4) * 64 + y \in 0 .. 255
  OBVIOUS
<1>4. /\ First(x, y) = x * 4 + y \div 16
      /\ Second(x, y) = (x % 16) * 16 + y \div 4
      /\ Third(x, y) = (x % 4) * 64 + y
  BY <1>1, <1>2, <1>3 DEF First, Second, Third
<1>5. First(x, y) = FirstBits(x, y)
  BY <1>4, SixBits, HighBits, BitRange DEF FirstBits
<1>6. Second(x, y) = SecondBits(x, y)
  <2>1. x % 16 = 8 * B(x, 8) + 4 * B(x, 4) + 2 * B(x, 2) + B(x, 1)
    BY HighBits
  <2>2. y \div 4 = 8 * B(y, 32) + 4 * B(y, 16) + 2 * B(y, 8) + B(y, 4)
    BY HighBits
  <2>3. B(x, 8) \in Int /\ B(x, 4) \in Int /\ B(x, 2) \in Int /\ B(x, 1) \in Int
    BY BitRange
  <2>4. B(y, 32) \in Int /\ B(y, 16) \in Int /\ B(y, 8) \in Int /\ B(y, 4) \in Int
    BY BitRange
  <2> QED
    BY <1>4, <2>1, <2>2, <2>3, <2>4 DEF SecondBits
<1>7. Third(x, y) = ThirdBits(x, y)
  <2>1. x % 4 = 2 * B(x, 2) + B(x, 1)
    BY HighBits
  <2>2. y = 32 * B(y, 32) + 16 * B(y, 16) + 8 * B(y, 8) + 4 * B(y, 4) + 2 * B(y, 2) + B(y, 1)
    BY SixBits
  <2>3. B(x, 2) \in Int /\ B(x, 1) \in Int
    BY BitRange
  <2>4. /\ B(y, 32) \in Int /\ B(y, 16) \in Int /\ B(y, 8) \in Int
        /\ B(y, 4) \in Int /\ B(y, 2) \in Int /\ B(y, 1) \in Int
    BY BitRange
  <2>5. (x % 4) * 64 = 128 * B(x, 2) + 64 * B(x, 1)
    BY <2>1, <2>3
  <2> QED
    BY <1>4, <2>2, <2>3, <2>4, <2>5 DEF ThirdBits
<1> QED
  BY <1>5, <1>6, <1>7

LEMMA BytesAreBytes ==
  ASSUME NEW x \in 0 .. 255, NEW y \in 0 .. 255
  PROVE  First(x, y) \in Byte /\ Second(x, y) \in Byte /\ Third(x, y) \in Byte
<1>1. \A s \in Nat : s % 256 \in Byte
  BY DEF Byte
<1>2. x * 4 + (y % 64) \div 16 \in Nat /\ (x % 16) * 16 + (y % 64) \div 4 \in Nat /\ (x % 4) * 64 + y \in Nat
  OBVIOUS
<1> QED
  BY <1>1, <1>2 DEF First, Second, Third

LEMMA ArrayBytes ==
  ASSUME NEW a \in [0 .. 3 -> Byte]
  PROVE  /\ Bytes3(a) = <<First(a[0], a[1]), Second(a[1], a[2]), Third(a[2], a[3])>>
         /\ Bytes3(a) \in Seq(Byte) /\ Len(Bytes3(a)) = 3
<1>1. Bytes3(a) = <<First(a[0], a[1]), Second(a[1], a[2]), Third(a[2], a[3])>>
  BY DEF Bytes3, First, Second, Third
<1>2. a[0] \in 0 .. 255 /\ a[1] \in 0 .. 255 /\ a[2] \in 0 .. 255 /\ a[3] \in 0 .. 255
  BY DEF Byte
<1>3. First(a[0], a[1]) \in Byte /\ Second(a[1], a[2]) \in Byte /\ Third(a[2], a[3]) \in Byte
  BY <1>2, BytesAreBytes
<1> QED
  BY <1>1, <1>3

-----------------------------------------------------------------------------
(* The stream of bits. *)

Symbol(n) == encoded_string[n + 1]

LEMMA StreamBytes ==
  ASSUME NEW q \in Nat
  PROVE  /\ Symbol(4 * q) \in 0 .. 63 /\ Symbol(4 * q + 1) \in 0 .. 63 =>
              ByteAt(3 * q) = FirstBits(Symbol(4 * q), Symbol(4 * q + 1))
         /\ Symbol(4 * q + 1) \in 0 .. 63 /\ Symbol(4 * q + 2) \in 0 .. 63 =>
              ByteAt(3 * q + 1) = SecondBits(Symbol(4 * q + 1), Symbol(4 * q + 2))
         /\ Symbol(4 * q + 2) \in 0 .. 63 /\ Symbol(4 * q + 3) \in 0 .. 63 =>
              ByteAt(3 * q + 2) = ThirdBits(Symbol(4 * q + 2), Symbol(4 * q + 3))
<1>1. ASSUME NEW n \in 0 .. 3, NEW r \in 0 .. 5
      PROVE  Bit(6 * (4 * q + n) + r) = B(Symbol(4 * q + n), 2 ^ (5 - r))
  <2>1. (6 * (4 * q + n) + r) \div 6 = 4 * q + n /\ (6 * (4 * q + n) + r) % 6 = r
    OBVIOUS
  <2> QED
    BY <2>1 DEF Bit, B, Symbol
<1>2. ASSUME NEW n \in 0 .. 3
      PROVE  /\ Bit(24 * q + 6 * n) = B(Symbol(4 * q + n), 32)
             /\ Bit(24 * q + 6 * n + 1) = B(Symbol(4 * q + n), 16)
             /\ Bit(24 * q + 6 * n + 2) = B(Symbol(4 * q + n), 8)
             /\ Bit(24 * q + 6 * n + 3) = B(Symbol(4 * q + n), 4)
             /\ Bit(24 * q + 6 * n + 4) = B(Symbol(4 * q + n), 2)
             /\ Bit(24 * q + 6 * n + 5) = B(Symbol(4 * q + n), 1)
  <2>1. 6 * (4 * q + n) = 24 * q + 6 * n
    OBVIOUS
  <2>2. ASSUME NEW r \in 0 .. 5  PROVE Bit(24 * q + 6 * n + r) = B(Symbol(4 * q + n), 2 ^ (5 - r))
    BY <1>1, <2>1
  <2>3. 24 * q + 6 * n + 0 = 24 * q + 6 * n
    OBVIOUS
  <2> QED
    BY <2>2, <2>3, Powers
<1>3. ASSUME NEW k \in Nat, NEW m \in Nat, m = 8 * k, \A j \in 0 .. 7 : Bit(m + j) \in Int
      PROVE  ByteAt(k) = 128 * Bit(m) + 64 * Bit(m + 1) + 32 * Bit(m + 2) + 16 * Bit(m + 3)
                         + 8 * Bit(m + 4) + 4 * Bit(m + 5) + 2 * Bit(m + 6) + Bit(m + 7)
  <2>1. 8 * k + 0 = m
    BY <1>3
  <2> QED
    BY <1>3, <2>1, Powers DEF ByteAt
<1>4. ASSUME Symbol(4 * q) \in 0 .. 63, Symbol(4 * q + 1) \in 0 .. 63
      PROVE  ByteAt(3 * q) = FirstBits(Symbol(4 * q), Symbol(4 * q + 1))
  <2>1. /\ Bit(24 * q) = B(Symbol(4 * q), 32)
        /\ Bit(24 * q + 1) = B(Symbol(4 * q), 16)
        /\ Bit(24 * q + 2) = B(Symbol(4 * q), 8)
        /\ Bit(24 * q + 3) = B(Symbol(4 * q), 4)
        /\ Bit(24 * q + 4) = B(Symbol(4 * q), 2)
        /\ Bit(24 * q + 5) = B(Symbol(4 * q), 1)
    <3>1. 0 \in 0 .. 3 /\ 24 * q + 6 * 0 = 24 * q /\ 4 * q + 0 = 4 * q
      OBVIOUS
    <3> QED
      BY <1>2, <3>1
  <2>2. /\ Bit(24 * q + 6) = B(Symbol(4 * q + 1), 32)
        /\ Bit(24 * q + 7) = B(Symbol(4 * q + 1), 16)
    <3>1. 1 \in 0 .. 3 /\ 24 * q + 6 * 1 = 24 * q + 6 /\ 4 * q + 1 = 4 * q + 1
      OBVIOUS
    <3>2. /\ 24 * q + 6 + 1 = 24 * q + 7
      OBVIOUS
    <3> QED
      BY <1>2, <3>1, <3>2
  <2>3. /\ 24 * q = 8 * (3 * q) /\ 24 * q \in Nat /\ 3 * q \in Nat
        /\ 24 * q + 0 = 24 * q
    OBVIOUS
  <2>4. /\ Bit(24 * q) \in Int
        /\ Bit(24 * q + 1) \in Int
        /\ Bit(24 * q + 2) \in Int
        /\ Bit(24 * q + 3) \in Int
        /\ Bit(24 * q + 4) \in Int
        /\ Bit(24 * q + 5) \in Int
        /\ Bit(24 * q + 6) \in Int
        /\ Bit(24 * q + 7) \in Int
    BY <1>4, <2>1, <2>2, BitRange
  <2>5. \A j \in 0 .. 7 : Bit(24 * q + j) \in Int
    BY <2>3, <2>4
  <2> QED
    BY <1>3, <2>1, <2>2, <2>3, <2>5 DEF FirstBits
<1>5. ASSUME Symbol(4 * q + 1) \in 0 .. 63, Symbol(4 * q + 2) \in 0 .. 63
      PROVE  ByteAt(3 * q + 1) = SecondBits(Symbol(4 * q + 1), Symbol(4 * q + 2))
  <2>1. /\ Bit(24 * q + 8) = B(Symbol(4 * q + 1), 8)
        /\ Bit(24 * q + 9) = B(Symbol(4 * q + 1), 4)
        /\ Bit(24 * q + 10) = B(Symbol(4 * q + 1), 2)
        /\ Bit(24 * q + 11) = B(Symbol(4 * q + 1), 1)
    <3>1. 1 \in 0 .. 3 /\ 24 * q + 6 * 1 = 24 * q + 6 /\ 4 * q + 1 = 4 * q + 1
      OBVIOUS
    <3>2. /\ 24 * q + 6 + 2 = 24 * q + 8
          /\ 24 * q + 6 + 3 = 24 * q + 9
          /\ 24 * q + 6 + 4 = 24 * q + 10
          /\ 24 * q + 6 + 5 = 24 * q + 11
      OBVIOUS
    <3> QED
      BY <1>2, <3>1, <3>2
  <2>2. /\ Bit(24 * q + 12) = B(Symbol(4 * q + 2), 32)
        /\ Bit(24 * q + 13) = B(Symbol(4 * q + 2), 16)
        /\ Bit(24 * q + 14) = B(Symbol(4 * q + 2), 8)
        /\ Bit(24 * q + 15) = B(Symbol(4 * q + 2), 4)
    <3>1. 2 \in 0 .. 3 /\ 24 * q + 6 * 2 = 24 * q + 12 /\ 4 * q + 2 = 4 * q + 2
      OBVIOUS
    <3>2. /\ 24 * q + 12 + 1 = 24 * q + 13
          /\ 24 * q + 12 + 2 = 24 * q + 14
          /\ 24 * q + 12 + 3 = 24 * q + 15
      OBVIOUS
    <3> QED
      BY <1>2, <3>1, <3>2
  <2>3. /\ 24 * q + 8 = 8 * (3 * q + 1) /\ 24 * q + 8 \in Nat /\ 3 * q + 1 \in Nat
        /\ 24 * q + 8 + 0 = 24 * q + 8
        /\ 24 * q + 8 + 1 = 24 * q + 9
        /\ 24 * q + 8 + 2 = 24 * q + 10
        /\ 24 * q + 8 + 3 = 24 * q + 11
        /\ 24 * q + 8 + 4 = 24 * q + 12
        /\ 24 * q + 8 + 5 = 24 * q + 13
        /\ 24 * q + 8 + 6 = 24 * q + 14
        /\ 24 * q + 8 + 7 = 24 * q + 15
    OBVIOUS
  <2>4. /\ Bit(24 * q + 8) \in Int
        /\ Bit(24 * q + 9) \in Int
        /\ Bit(24 * q + 10) \in Int
        /\ Bit(24 * q + 11) \in Int
        /\ Bit(24 * q + 12) \in Int
        /\ Bit(24 * q + 13) \in Int
        /\ Bit(24 * q + 14) \in Int
        /\ Bit(24 * q + 15) \in Int
    BY <1>5, <2>1, <2>2, BitRange
  <2>5. \A j \in 0 .. 7 : Bit(24 * q + 8 + j) \in Int
    BY <2>3, <2>4
  <2> QED
    BY <1>3, <2>1, <2>2, <2>3, <2>5 DEF SecondBits
<1>6. ASSUME Symbol(4 * q + 2) \in 0 .. 63, Symbol(4 * q + 3) \in 0 .. 63
      PROVE  ByteAt(3 * q + 2) = ThirdBits(Symbol(4 * q + 2), Symbol(4 * q + 3))
  <2>1. /\ Bit(24 * q + 16) = B(Symbol(4 * q + 2), 2)
        /\ Bit(24 * q + 17) = B(Symbol(4 * q + 2), 1)
    <3>1. 2 \in 0 .. 3 /\ 24 * q + 6 * 2 = 24 * q + 12 /\ 4 * q + 2 = 4 * q + 2
      OBVIOUS
    <3>2. /\ 24 * q + 12 + 4 = 24 * q + 16
          /\ 24 * q + 12 + 5 = 24 * q + 17
      OBVIOUS
    <3> QED
      BY <1>2, <3>1, <3>2
  <2>2. /\ Bit(24 * q + 18) = B(Symbol(4 * q + 3), 32)
        /\ Bit(24 * q + 19) = B(Symbol(4 * q + 3), 16)
        /\ Bit(24 * q + 20) = B(Symbol(4 * q + 3), 8)
        /\ Bit(24 * q + 21) = B(Symbol(4 * q + 3), 4)
        /\ Bit(24 * q + 22) = B(Symbol(4 * q + 3), 2)
        /\ Bit(24 * q + 23) = B(Symbol(4 * q + 3), 1)
    <3>1. 3 \in 0 .. 3 /\ 24 * q + 6 * 3 = 24 * q + 18 /\ 4 * q + 3 = 4 * q + 3
      OBVIOUS
    <3>2. /\ 24 * q + 18 + 1 = 24 * q + 19
          /\ 24 * q + 18 + 2 = 24 * q + 20
          /\ 24 * q + 18 + 3 = 24 * q + 21
          /\ 24 * q + 18 + 4 = 24 * q + 22
          /\ 24 * q + 18 + 5 = 24 * q + 23
      OBVIOUS
    <3> QED
      BY <1>2, <3>1, <3>2
  <2>3. /\ 24 * q + 16 = 8 * (3 * q + 2) /\ 24 * q + 16 \in Nat /\ 3 * q + 2 \in Nat
        /\ 24 * q + 16 + 0 = 24 * q + 16
        /\ 24 * q + 16 + 1 = 24 * q + 17
        /\ 24 * q + 16 + 2 = 24 * q + 18
        /\ 24 * q + 16 + 3 = 24 * q + 19
        /\ 24 * q + 16 + 4 = 24 * q + 20
        /\ 24 * q + 16 + 5 = 24 * q + 21
        /\ 24 * q + 16 + 6 = 24 * q + 22
        /\ 24 * q + 16 + 7 = 24 * q + 23
    OBVIOUS
  <2>4. /\ Bit(24 * q + 16) \in Int
        /\ Bit(24 * q + 17) \in Int
        /\ Bit(24 * q + 18) \in Int
        /\ Bit(24 * q + 19) \in Int
        /\ Bit(24 * q + 20) \in Int
        /\ Bit(24 * q + 21) \in Int
        /\ Bit(24 * q + 22) \in Int
        /\ Bit(24 * q + 23) \in Int
    BY <1>6, <2>1, <2>2, BitRange
  <2>5. \A j \in 0 .. 7 : Bit(24 * q + 16 + j) \in Int
    BY <2>3, <2>4
  <2> QED
    BY <1>3, <2>1, <2>2, <2>3, <2>5 DEF ThirdBits
<1> QED
  BY <1>4, <1>5, <1>6

-----------------------------------------------------------------------------
(* The loop. *)

\* The bytes of the array, when its first m symbols are those from number 4 q on.
LEMMA ArrayDecodes ==
  ASSUME NEW q \in Nat, NEW m \in 0 .. 4, NEW a \in [0 .. 3 -> Byte],
         \A j \in 0 .. 3 : j < m => a[j] = Symbol(4 * q + j) /\ Symbol(4 * q + j) \in 0 .. 63
  PROVE  \A n \in 1 .. 3 : n < m => Bytes3(a)[n] = ByteAt(3 * q + n - 1)
<1>1. m > 0 => a[0] = Symbol(4 * q) /\ Symbol(4 * q) \in 0 .. 63
  <2>1. 4 * q + 0 = 4 * q /\ 0 \in 0 .. 3
    OBVIOUS
  <2> QED
    BY <2>1
<1>2. /\ m > 1 => a[1] = Symbol(4 * q + 1) /\ Symbol(4 * q + 1) \in 0 .. 63
      /\ m > 2 => a[2] = Symbol(4 * q + 2) /\ Symbol(4 * q + 2) \in 0 .. 63
      /\ m > 3 => a[3] = Symbol(4 * q + 3) /\ Symbol(4 * q + 3) \in 0 .. 63
  OBVIOUS
<1>3. Bytes3(a)[1] = First(a[0], a[1]) /\ Bytes3(a)[2] = Second(a[1], a[2]) /\ Bytes3(a)[3] = Third(a[2], a[3])
  <2>1. Bytes3(a) = <<First(a[0], a[1]), Second(a[1], a[2]), Third(a[2], a[3])>>
    BY ArrayBytes
  <2> QED
    BY <2>1
<1>4. ASSUME m > 1  PROVE Bytes3(a)[1] = ByteAt(3 * q)
  <2>1. ByteAt(3 * q) = FirstBits(Symbol(4 * q), Symbol(4 * q + 1))
    BY <1>1, <1>2, <1>4, StreamBytes
  <2>2. First(Symbol(4 * q), Symbol(4 * q + 1)) = FirstBits(Symbol(4 * q), Symbol(4 * q + 1))
    BY <1>1, <1>2, <1>4, BytesOfPair
  <2> QED
    BY <1>1, <1>2, <1>3, <1>4, <2>1, <2>2
<1>5. ASSUME m > 2  PROVE Bytes3(a)[2] = ByteAt(3 * q + 1)
  <2>1. ByteAt(3 * q + 1) = SecondBits(Symbol(4 * q + 1), Symbol(4 * q + 2))
    BY <1>1, <1>2, <1>5, StreamBytes
  <2>2. Second(Symbol(4 * q + 1), Symbol(4 * q + 2)) = SecondBits(Symbol(4 * q + 1), Symbol(4 * q + 2))
    BY <1>1, <1>2, <1>5, BytesOfPair
  <2> QED
    BY <1>1, <1>2, <1>3, <1>5, <2>1, <2>2
<1>6. ASSUME m > 3  PROVE Bytes3(a)[3] = ByteAt(3 * q + 2)
  <2>1. ByteAt(3 * q + 2) = ThirdBits(Symbol(4 * q + 2), Symbol(4 * q + 3))
    BY <1>1, <1>2, <1>6, StreamBytes
  <2>2. Third(Symbol(4 * q + 2), Symbol(4 * q + 3)) = ThirdBits(Symbol(4 * q + 2), Symbol(4 * q + 3))
    BY <1>1, <1>2, <1>6, BytesOfPair
  <2> QED
    BY <1>1, <1>2, <1>3, <1>6, <2>1, <2>2
<1>7. 3 * q + 1 - 1 = 3 * q /\ 3 * q + 2 - 1 = 3 * q + 1 /\ 3 * q + 3 - 1 = 3 * q + 2
  OBVIOUS
<1> QED
  BY <1>4, <1>5, <1>6, <1>7

LEMMA StreamKept ==
  ASSUME encoded_string' = encoded_string
  PROVE  (\A k \in Nat : ByteAt(k)' = ByteAt(k)) /\ (\A k \in Nat : Symbol(k)' = Symbol(k))
<1>1. \A k : Bit(k)' = Bit(k)
  BY DEF Bit
<1> QED
  BY <1>1 DEF ByteAt, Symbol

LEMMA SymbolsAreNumbers ==
  ASSUME TypeOK, GroupsInv
  PROVE  \A k \in Nat : k < in_ => Symbol(k) \in 0 .. 63
<1> SUFFICES ASSUME NEW k \in Nat, k < in_ PROVE Symbol(k) \in 0 .. 63
  OBVIOUS
<1>1. k + 1 \in 1 .. in_
  BY DEF TypeOK
<1> QED
  BY <1>1, Base64Assumption DEF GroupsInv, Symbol

LEMMA InitInv == Init => Inv
<1> SUFFICES ASSUME Init PROVE Inv
  OBVIOUS
<1>1. encoded_string \in Seq(Symbols) /\ Len(encoded_string) \in Nat
  <2>1. PICK n \in 0 .. MaxLength : encoded_string \in [1 .. n -> Symbols]
    BY DEF Init
  <2>2. encoded_string \in Seq(Symbols)
    BY <2>1, Base64Assumption
  <2> QED
    BY <2>2, LenProperties
<1>2. TypeOK
  BY <1>1 DEF Init, TypeOK, Byte
<1>3. in_ = 4 * 0 + i /\ Len(decoded) = 3 * 0
  BY DEF Init
<1>4. GroupsInv
  BY <1>3 DEF Init, GroupsInv
<1> QED
  BY <1>2, <1>4 DEF Init, Inv, BytesInv, LengthInv

\* What follows when bytes are put behind those there are.
LEMMA BytesAppended ==
  ASSUME TypeOK, BytesInv, encoded_string' = encoded_string,
         NEW q \in Nat, Len(decoded) = 3 * q,
         NEW s \in Seq(Byte), \A n \in 1 .. Len(s) : s[n] = ByteAt(3 * q + n - 1),
         decoded' = decoded \o s
  PROVE  decoded' \in Seq(Byte) /\ Len(decoded') = Len(decoded) + Len(s) /\ BytesInv'
<1>1. decoded' \in Seq(Byte) /\ Len(decoded') = Len(decoded) + Len(s) /\ Len(s) \in Nat
  BY ConcatProperties, LenProperties DEF TypeOK
<1>2. ASSUME NEW k \in 1 .. Len(decoded')  PROVE decoded'[k] = ByteAt(k - 1)
  <2>1. CASE k <= Len(decoded)
    <3>1. k \in 1 .. Len(decoded) /\ decoded \in Seq(Byte)
      BY <2>1 DEF TypeOK
    <3>2. decoded'[k] = decoded[k]
      BY <3>1, ConcatProperties
    <3> QED
      BY <3>1, <3>2 DEF BytesInv
  <2>2. CASE k > Len(decoded)
    <3>1. k - Len(decoded) \in 1 .. Len(s) /\ 3 * q + (k - Len(decoded)) - 1 = k - 1
      BY <1>1, <2>2
    <3>2. decoded'[k] = s[k - Len(decoded)]
      BY <1>1, <2>2, ConcatProperties DEF TypeOK
    <3> QED
      BY <3>1, <3>2
  <2> QED
    BY <1>1, <2>1, <2>2
<1> QED
  BY <1>1, <1>2, StreamKept DEF BytesInv

LEMMA ConsumeKeeps == Inv /\ Consume => Inv'
<1> SUFFICES ASSUME Inv, Consume PROVE Inv'
  OBVIOUS
<1> DEFINE symbol == encoded_string[in_ + 1]
<1>1. TypeOK /\ GroupsInv /\ BytesInv /\ pc = "loop" /\ pc' = "loop" /\ encoded_string' = encoded_string
  BY DEF Inv, Consume
<1>2. /\ Len(encoded_string) \in Nat /\ in_ < Len(encoded_string) /\ in_ \in Nat
      /\ in_' = in_ + 1 /\ in_' \in 0 .. Len(encoded_string)
  BY <1>1, LenProperties DEF Consume, More, TypeOK
<1>3. symbol \in Digits /\ symbol \in 0 .. 63
  <2>1. symbol \in Symbols
    BY <1>1, <1>2, ElementOfSeq DEF TypeOK
  <2> QED
    BY <2>1, Base64Assumption DEF Consume, More, Symbols
<1>4. /\ i \in 0 .. 3 /\ char_array_4' = [char_array_4 EXCEPT ![i] = symbol]
      /\ char_array_4 \in [0 .. 3 -> Byte] /\ char_array_4' \in [0 .. 3 -> Byte]
  <2>1. i \in 0 .. 3 /\ char_array_4 \in [0 .. 3 -> Byte]
    BY <1>1 DEF TypeOK
  <2>2. char_array_4' = [char_array_4 EXCEPT ![i] = symbol]
    BY DEF Consume
  <2>3. symbol \in Byte
    BY <1>3 DEF Byte
  <2> HIDE DEF symbol
  <2> QED
    BY <2>1, <2>2, <2>3
<1>5. PICK q \in Nat : in_ = 4 * q + i /\ Len(decoded) = 3 * q
  BY <1>1 DEF GroupsInv
<1>6. \A j \in 1 .. in_' : encoded_string[j] \in Digits
  BY <1>1, <1>2, <1>3 DEF GroupsInv
<1>7. \A j \in 0 .. 3 : j < i + 1 => char_array_4'[j] = Symbol(4 * q + j) /\ Symbol(4 * q + j) \in 0 .. 63
  <2> SUFFICES ASSUME NEW j \in 0 .. 3, j < i + 1
               PROVE  char_array_4'[j] = Symbol(4 * q + j) /\ Symbol(4 * q + j) \in 0 .. 63
    OBVIOUS
  <2>1. CASE j = i
    BY <1>3, <1>4, <1>5, <2>1 DEF Symbol
  <2>2. CASE j < i
    <3>1. 4 * q + j \in Nat /\ 4 * q + j < in_ /\ in_ - i + j + 1 = 4 * q + j + 1
      BY <1>4, <1>5, <2>2
    <3>2. Symbol(4 * q + j) \in 0 .. 63
      BY <1>1, <3>1, SymbolsAreNumbers
    <3>3. char_array_4[j] = encoded_string[in_ - i + j + 1]
      BY <1>1, <2>2 DEF GroupsInv
    <3> QED
      BY <1>4, <2>2, <3>1, <3>2, <3>3 DEF Symbol
  <2> QED
    BY <1>4, <2>1, <2>2
<1>8. CASE i = 3
  <2> DEFINE s == Bytes3(char_array_4')
  <2>1. i' = 0 /\ decoded' = decoded \o s
    BY <1>8 DEF Consume
  <2>2. s \in Seq(Byte) /\ Len(s) = 3
    BY <1>4, ArrayBytes
  <2>3. \A n \in 1 .. Len(s) : s[n] = ByteAt(3 * q + n - 1)
    <3>1. \A j \in 0 .. 3 : j < 4 => char_array_4'[j] = Symbol(4 * q + j) /\ Symbol(4 * q + j) \in 0 .. 63
      BY <1>7, <1>8
    <3>2. \A n \in 1 .. 3 : n < 4 => s[n] = ByteAt(3 * q + n - 1)
      <4> HIDE DEF s
      <4>1. 4 \in 0 .. 4
        OBVIOUS
      <4> QED
        BY <1>4, <3>1, <4>1, ArrayDecodes DEF s
    <3> QED
      BY <2>2, <3>2
  <2> HIDE DEF s
  <2>4. decoded' \in Seq(Byte) /\ Len(decoded') = Len(decoded) + 3 /\ BytesInv'
    BY <1>1, <1>5, <2>1, <2>2, <2>3, BytesAppended
  <2>5. TypeOK'
    BY <1>1, <1>2, <1>4, <2>1, <2>4 DEF TypeOK
  <2>6. in_' = 4 * (q + 1) + i' /\ Len(decoded') = 3 * (q + 1)
    BY <1>2, <1>5, <1>8, <2>1, <2>4
  <2>7. GroupsInv'
    <3>1. \E r \in Nat : in_' = 4 * r + i' /\ Len(decoded') = 3 * r
      <4>1. q + 1 \in Nat
        OBVIOUS
      <4> QED
        BY <2>6, <4>1
    <3>2. \A j \in 0 .. 3 : ~(j < i')
      BY <2>1
    <3> QED
      BY <1>1, <1>6, <3>1, <3>2 DEF GroupsInv
  <2> QED
    BY <1>1, <2>4, <2>5, <2>7 DEF Inv, LengthInv
<1>9. CASE i # 3
  <2>1. i' = i + 1 /\ i' \in 0 .. 3 /\ decoded' = decoded
    BY <1>4, <1>9 DEF Consume
  <2>2. TypeOK'
    BY <1>1, <1>2, <1>4, <2>1 DEF TypeOK
  <2>3. in_' = 4 * q + i' /\ Len(decoded') = 3 * q
    BY <1>2, <1>4, <1>5, <2>1
  <2>4. \A j \in 0 .. 3 : j < i' => char_array_4'[j] = encoded_string'[in_' - i' + j + 1]
    <3> SUFFICES ASSUME NEW j \in 0 .. 3, j < i'  PROVE char_array_4'[j] = encoded_string'[in_' - i' + j + 1]
      OBVIOUS
    <3>1. in_' - i' + j + 1 = 4 * q + j + 1
      BY <1>4, <2>1, <2>3
    <3> QED
      BY <1>1, <1>7, <2>1, <3>1 DEF Symbol
  <2>5. GroupsInv'
    BY <1>1, <1>6, <2>3, <2>4 DEF GroupsInv
  <2>6. BytesInv'
    <3>1. \A k \in 1 .. Len(decoded) : k - 1 \in Nat
      BY <1>1, LenProperties DEF TypeOK
    <3> QED
      BY <1>1, <2>1, <3>1, StreamKept DEF BytesInv
  <2> QED
    BY <1>1, <2>2, <2>5, <2>6 DEF Inv, LengthInv
<1> QED
  BY <1>8, <1>9

LEMMA LoopEndsKeeps == Inv /\ LoopEnds => Inv'
<1> SUFFICES ASSUME Inv, LoopEnds PROVE Inv'
  OBVIOUS
<1>1. /\ TypeOK /\ GroupsInv /\ BytesInv /\ pc = "loop" /\ ~More /\ pc' = IF i = 0 THEN "done" ELSE "tail"
      /\ UNCHANGED <<encoded_string, in_, i, char_array_4, decoded>>
  BY DEF Inv, LoopEnds
<1>2. TypeOK'
  BY <1>1 DEF TypeOK
<1>3. GroupsInv'
  <2>1. ~More'
    BY <1>1 DEF More
  <2>2. pc' = "tail" => i' > 0
    BY <1>1 DEF TypeOK
  <2>3. \A j \in 1 .. in_' : encoded_string'[j] \in Digits
    BY <1>1 DEF GroupsInv
  <2>4. \E q \in Nat : in_' = 4 * q + i' /\ Len(decoded') = 3 * q
    BY <1>1 DEF GroupsInv
  <2>5. \A j \in 0 .. 3 : j < i' => char_array_4'[j] = encoded_string'[in_' - i' + j + 1]
    BY <1>1 DEF GroupsInv
  <2> QED
    BY <2>1, <2>2, <2>3, <2>4, <2>5 DEF GroupsInv
<1>4. BytesInv'
  <2>1. \A k \in 1 .. Len(decoded) : k - 1 \in Nat
    BY <1>1, LenProperties DEF TypeOK
  <2> QED
    BY <1>1, <2>1, StreamKept DEF BytesInv
<1>5. LengthInv'
  <2>1. PICK q \in Nat : in_ = 4 * q + i /\ Len(decoded) = 3 * q
    BY <1>1 DEF GroupsInv
  <2>2. (6 * (4 * q)) \div 8 = 3 * q /\ 4 * q + 0 = 4 * q
    OBVIOUS
  <2> QED
    BY <1>1, <2>1, <2>2 DEF LengthInv
<1> QED
  BY <1>2, <1>3, <1>4, <1>5 DEF Inv

LEMMA DecodeTailKeeps == Inv /\ DecodeTail => Inv'
<1> SUFFICES ASSUME Inv, DecodeTail PROVE Inv'
  OBVIOUS
<1> DEFINE s == SubSeq(Bytes3(char_array_4'), 1, i - 1)
<1>1. /\ TypeOK /\ GroupsInv /\ BytesInv /\ pc = "tail" /\ pc' = "done" /\ ~More
      /\ UNCHANGED <<encoded_string, in_, i>> /\ decoded' = decoded \o s
  BY DEF Inv, DecodeTail, GroupsInv
<1>2. i \in 1 .. 3 /\ in_ \in Nat
  BY <1>1, LenProperties DEF TypeOK, GroupsInv
<1>3. /\ char_array_4' \in [0 .. 3 -> Byte]
      /\ \A j \in 0 .. 3 : j < i => char_array_4'[j] = char_array_4[j]
  BY <1>1, <1>2 DEF DecodeTail, TypeOK, Byte
<1>4. PICK q \in Nat : in_ = 4 * q + i /\ Len(decoded) = 3 * q
  BY <1>1 DEF GroupsInv
<1>5. \A j \in 0 .. 3 : j < i => char_array_4'[j] = Symbol(4 * q + j) /\ Symbol(4 * q + j) \in 0 .. 63
  <2> SUFFICES ASSUME NEW j \in 0 .. 3, j < i
               PROVE  char_array_4'[j] = Symbol(4 * q + j) /\ Symbol(4 * q + j) \in 0 .. 63
    OBVIOUS
  <2>1. 4 * q + j \in Nat /\ 4 * q + j < in_ /\ in_ - i + j + 1 = 4 * q + j + 1
    BY <1>2, <1>4
  <2>2. Symbol(4 * q + j) \in 0 .. 63
    BY <1>1, <2>1, SymbolsAreNumbers
  <2>3. char_array_4[j] = encoded_string[in_ - i + j + 1]
    BY <1>1 DEF GroupsInv
  <2> QED
    BY <1>3, <2>1, <2>2, <2>3 DEF Symbol
<1>6. \A n \in 1 .. 3 : n < i => Bytes3(char_array_4')[n] = ByteAt(3 * q + n - 1)
  <2>1. i \in 0 .. 4
    BY <1>2
  <2> QED
    BY <1>3, <1>5, <2>1, ArrayDecodes
<1>7. Bytes3(char_array_4') \in Seq(Byte) /\ Len(Bytes3(char_array_4')) = 3
  BY <1>3, ArrayBytes
<1>8. s \in Seq(Byte) /\ Len(s) = i - 1 /\ \A n \in 1 .. i - 1 : s[n] = Bytes3(char_array_4')[n]
  BY <1>2, <1>7, SubSeqProperties, SMTT(30)
<1>9. \A n \in 1 .. Len(s) : s[n] = ByteAt(3 * q + n - 1)
  <2> SUFFICES ASSUME NEW n \in 1 .. Len(s)  PROVE s[n] = ByteAt(3 * q + n - 1)
    OBVIOUS
  <2>1. n \in 1 .. i - 1
    BY <1>8
  <2>2. n \in 1 .. 3 /\ n < i
    BY <1>2, <2>1
  <2> HIDE DEF s
  <2> QED
    BY <1>6, <1>8, <2>1, <2>2
<1>10. decoded' \in Seq(Byte) /\ Len(decoded') = 3 * q + i - 1 /\ BytesInv'
  <2> HIDE DEF s
  <2>1. decoded' \in Seq(Byte) /\ Len(decoded') = Len(decoded) + Len(s) /\ BytesInv'
    BY <1>1, <1>4, <1>8, <1>9, BytesAppended
  <2> QED
    BY <1>2, <1>4, <1>8, <2>1
<1>11. TypeOK'
  BY <1>1, <1>3, <1>10 DEF TypeOK
<1>12. GroupsInv'
  BY <1>1 DEF GroupsInv, More
<1>13. LengthInv'
  <2>1. (6 * (4 * q + i)) \div 8 = 3 * q + i - 1
    BY <1>2
  <2> QED
    BY <1>1, <1>4, <1>10, <2>1 DEF LengthInv
<1> QED
  BY <1>10, <1>11, <1>12, <1>13 DEF Inv

LEMMA InvHolds == Spec => []Inv
<1>1. Inv /\ UNCHANGED vars => Inv'
  <2> SUFFICES ASSUME Inv, UNCHANGED vars PROVE Inv'
    OBVIOUS
  <2>1. TypeOK' /\ GroupsInv' /\ LengthInv'
    BY DEF Inv, vars, TypeOK, GroupsInv, LengthInv, More
  <2>2. \A k \in 1 .. Len(decoded) : k - 1 \in Nat
    BY LenProperties DEF Inv, TypeOK
  <2>3. BytesInv'
    BY <2>2, StreamKept DEF Inv, vars, BytesInv
  <2> QED
    BY <2>1, <2>3 DEF Inv
<1>2. Inv /\ [Next]_vars => Inv'
  BY <1>1, ConsumeKeeps, LoopEndsKeeps, DecodeTailKeeps DEF Next
<1> QED
  BY <1>2, InitInv, PTL DEF Spec

(* The index stays inside char_array_4, and what is stored is bytes. *)
THEOREM TypeCorrect == Spec => []TypeOK
BY InvHolds, PTL DEF Inv

-----------------------------------------------------------------------------
(* The result. *)

LEMMA PrefixIsConsumed ==
  ASSUME Inv, pc = "done"
  PROVE  ValidLength = in_
<1> DEFINE Valid(n) == /\ \A j \in 1 .. n : encoded_string[j] \notin {PAD, NONE}
                       /\ n < Len(encoded_string) => encoded_string[n + 1] \in {PAD, NONE}
<1>1. /\ in_ \in 0 .. Len(encoded_string) /\ Len(encoded_string) \in Nat
      /\ \A j \in 1 .. in_ : encoded_string[j] \notin {PAD, NONE}
      /\ in_ < Len(encoded_string) => encoded_string[in_ + 1] \in {PAD, NONE}
  BY Base64Assumption, LenProperties DEF Inv, TypeOK, GroupsInv, More, PAD, NONE
<1>2. \A n \in 0 .. Len(encoded_string) : Valid(n) => n = in_
  <2> SUFFICES ASSUME NEW n \in 0 .. Len(encoded_string), Valid(n), n # in_ PROVE FALSE
    OBVIOUS
  <2>1. CASE n < in_
    <3>1. n + 1 \in 1 .. in_ /\ n < Len(encoded_string)
      BY <1>1, <2>1
    <3> QED
      BY <1>1, <3>1
  <2>2. CASE n > in_
    <3>1. in_ + 1 \in 1 .. n /\ in_ < Len(encoded_string)
      BY <1>1, <2>2
    <3> QED
      BY <1>1, <3>1
  <2> QED
    BY <1>1, <2>1, <2>2
<1>3. Valid(in_)
  BY <1>1
<1>4. ValidLength = CHOOSE n \in 0 .. Len(encoded_string) : Valid(n)
  BY DEF ValidLength
<1> HIDE DEF Valid
<1> QED
  BY <1>1, <1>2, <1>3, <1>4

(* The decoder is right: when it is done, its result is the bytes that base64 defines
   for the longest prefix of symbols, whatever symbols are left over after the last
   group of four. *)
THEOREM DecoderIsRight == Spec => []DecodesPrefix
<1>1. Inv => DecodesPrefix
  <2> SUFFICES ASSUME Inv, pc = "done"
               PROVE  decoded = [k \in 1 .. (6 * ValidLength) \div 8 |-> ByteAt(k - 1)]
    BY DEF DecodesPrefix
  <2>1. decoded \in Seq(Byte) /\ Len(decoded) = (6 * ValidLength) \div 8
    BY PrefixIsConsumed DEF Inv, TypeOK, LengthInv
  <2>2. decoded = [k \in 1 .. Len(decoded) |-> decoded[k]]
    BY <2>1, LenProperties
  <2>3. \A k \in 1 .. Len(decoded) : decoded[k] = ByteAt(k - 1)
    BY DEF Inv, BytesInv
  <2> QED
    BY <2>1, <2>2, <2>3
<1> QED
  BY <1>1, InvHolds, PTL
=============================================================================
