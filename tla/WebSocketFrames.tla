-------------------------- MODULE WebSocketFrames --------------------------
(***************************************************************************)
(* createWebSocketBuffer and getFrameBodyVector of cdp_port_util.h: one    *)
(* masked web-socket frame around a command, and the bodies of the frames  *)
(* in a buffer.  The widths are parameters: 256, 2 and 8 in the code.  The *)
(* opcode is data that nothing looks at.                                   *)
(***************************************************************************)
EXTENDS Integers, Sequences, SequencesExt

CONSTANTS
  Base,        \* values of a byte
  ShortBytes,  \* bytes of the shorter of the two extended lengths
  LongBytes    \* bytes of the longer

ASSUME WidthAssumption ==
  /\ Base \in {8, 16, 32, 64, 128, 256}
  /\ ShortBytes \in Nat \ {0} /\ LongBytes \in Nat /\ ShortBytes <= LongBytes

\* How many numbers are written with k bytes.
Power[k \in 0 .. LongBytes] == IF k = 0 THEN 1 ELSE Base * Power[k - 1]

\* The upper half of a byte's values has the top bit: FIN in the first byte of a
\* frame, "masked" in the second.  The lengths 126 and 127 announce extended ones.
Bit == Base \div 2
Short == Bit - 2
Long == Bit - 1
TextFrame == Bit + 1
MaxShort == Power[ShortBytes] - 1

-----------------------------------------------------------------------------
(* createWebSocketBuffer(data, data_len) *)

Digits(n, count) == [i \in 1 .. count |-> (n \div Power[count - i]) % Base]

\* The second byte without the mask bit, and the extended length.
LengthBytes(n) ==
  IF n < Short THEN <<n>>
  ELSE IF n <= MaxShort THEN <<Short>> \o Digits(n, ShortBytes)
  ELSE <<Long>> \o Digits(n, LongBytes)

\* The bits that one of two bytes has.
Xor(a, b) ==
  LET bit(w) == w * ((a \div w + b \div w) % 2)
  IN  bit(1) + bit(2) + bit(4) + bit(8) + bit(16) + bit(32) + bit(64) + bit(128)

Unmask(data, mask) == [i \in DOMAIN data |-> Xor(data[i], mask[((i - 1) % 4) + 1])]

\* No mask is passed, so the mask is what the buffer is filled with.
Mask == <<0, 0, 0, 0>>

\* _buildFrame
BuildFrame(data) ==
  LET n == LengthBytes(Len(data))
  IN  <<TextFrame, Bit + Head(n)>> \o Tail(n) \o Mask \o Unmask(data, Mask)

\* Mutant: the mask has no room.
CalcWithoutMask(n) == n + 2 + (IF n < Short THEN 0 ELSE IF n > MaxShort THEN LongBytes ELSE ShortBytes)

\* _calcFrameSize
CalcFrameSize(n) ==
  n + 2 + (IF n < Short THEN 0 ELSE IF n > MaxShort THEN LongBytes ELSE ShortBytes) + Len(Mask)

\* A buffer of the calculated size, zeros first, then the frame.
CreateWebSocketBuffer(data) ==
  LET frame == BuildFrame(data)
  IN  [i \in 1 .. CalcFrameSize(Len(data)) |-> IF i \in DOMAIN frame THEN frame[i] ELSE 0]

-----------------------------------------------------------------------------
(* getFrameBodyVector(data, len): a parser that takes a byte at a time. *)

Byte == 0 .. Base - 1
Parser == [state : {"start", "head", "length", "mask", "body"}, masked : BOOLEAN, mask : Seq(Nat),
           length : Nat, require : Nat, body : Seq(Nat), bodies : Seq(Seq(Nat))]

NewParser ==
  [state |-> "start", masked |-> FALSE, mask |-> <<>>, length |-> 0, require |-> 0,
   body |-> <<>>, bodies |-> <<>>]

\* After the mask, or where there is none: a frame without a body ends here.
BodyComes(P) ==
  IF P.length > 0 THEN [P EXCEPT !.state = "body", !.require = P.length]
                  ELSE [P EXCEPT !.state = "start"]

LengthKnown(P) ==
  IF P.masked THEN [P EXCEPT !.state = "mask", !.require = 4, !.mask = <<>>] ELSE BodyComes(P)

TakeHead(P, byte) ==
  LET length == byte % Bit
      Q == [P EXCEPT !.masked = byte >= Bit]
  IN  IF length >= Short
      THEN [Q EXCEPT !.length = 0, !.state = "length",
                     !.require = IF length = Long THEN LongBytes ELSE ShortBytes]
      ELSE LengthKnown([Q EXCEPT !.length = length])

TakeLength(P, byte) ==
  LET Q == [P EXCEPT !.length = @ * Base + byte, !.require = @ - 1]
  IN  IF Q.require = 0 THEN LengthKnown(Q) ELSE Q

TakeMask(P, byte) ==
  LET Q == [P EXCEPT !.mask = Append(@, byte), !.require = @ - 1]
  IN  IF Q.require = 0 THEN BodyComes(Q) ELSE Q

\* _onFrameBody
Pushed(P) ==
  [P EXCEPT !.bodies = Append(@, IF P.masked THEN Unmask(P.body, P.mask) ELSE P.body), !.body = <<>>]

TakeBody(P, byte) ==
  LET Q == [P EXCEPT !.body = Append(@, byte), !.require = @ - 1]
  IN  IF Q.require = 0 THEN [Pushed(Q) EXCEPT !.state = "start"] ELSE Q

TakeByte(byte) == [P \in Parser |->
  CASE P.state = "start"  -> [P EXCEPT !.state = "head"]
    [] P.state = "head"   -> TakeHead(P, byte)
    [] P.state = "length" -> TakeLength(P, byte)
    [] P.state = "mask"   -> TakeMask(P, byte)
    [] P.state = "body"   -> TakeBody(P, byte)]

\* The parser after all the bytes.
Execute(data) ==
  LET after[n \in 0 .. Len(data)] == IF n = 0 THEN NewParser ELSE TakeByte(data[n])[after[n - 1]]
  IN  after[Len(data)]

\* Mutant: a body that the data ends in is left out.
WholeBodiesOnly(data) == Execute(data).bodies

\* The parser does not outlive the call: a frame the data ends in gives the part of
\* its body that is there, and its rest would be read as a new frame.
Bodies[P \in Parser] == IF P.body = <<>> THEN P.bodies ELSE Pushed(P).bodies
GetFrameBodyVector(data) == Bodies[Execute(data)]
=============================================================================
