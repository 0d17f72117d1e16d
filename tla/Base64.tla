------------------------------- MODULE Base64 -------------------------------
(***************************************************************************)
(* base64Decode of CDPManager::_SaveFile: the loop that turns the "data" of *)
(* a capture into the bytes of the result file.  A symbol of the alphabet  *)
(* is the number base64_chars.find gives it; '=' and any other character   *)
(* have no number.                                                         *)
(***************************************************************************)
EXTENDS Integers, Sequences

CONSTANTS Digits,    \* the symbols inputs are made of, numbers below 64
          MaxLength  \* bound: length of the input

ASSUME Base64Assumption == Digits \subseteq 0 .. 63 /\ MaxLength \in Nat

PAD == 64     \* '='
NONE == 65    \* a character that is_base64 rejects, such as a line break
Symbols == Digits \cup {PAD, NONE}

Byte == 0 .. 255

VARIABLES
  encoded_string,
  pc,             \* "loop", "tail" after the loop, "done"
  in_,            \* number of symbols consumed
  i,              \* number of symbols in char_array_4
  char_array_4,   \* as numbers, 255 where find() gave npos
  decoded         \* the vector ret

vars == <<encoded_string, pc, in_, i, char_array_4, decoded>>

TypeOK ==
  /\ encoded_string \in Seq(Symbols)
  /\ pc \in {"loop", "tail", "done"}
  /\ in_ \in 0 .. Len(encoded_string)
  /\ i \in 0 .. 3
  /\ char_array_4 \in [0 .. 3 -> Byte]
  /\ decoded \in Seq(Byte)

\* What the array holds before it is filled is never looked at.
Init ==
  /\ \E n \in 0 .. MaxLength : encoded_string \in [1 .. n -> Symbols]
  /\ pc = "loop" /\ in_ = 0 /\ i = 0
  /\ char_array_4 = [j \in 0 .. 3 |-> 0]
  /\ decoded = <<>>

\* char_array_3, computed in unsigned char.
Bytes3(a) ==
  << (a[0] * 4 + (a[1] % 64) \div 16) % 256,
     ((a[1] % 16) * 16 + (a[2] % 64) \div 4) % 256,
     ((a[2] % 4) * 64 + a[3]) % 256 >>

More ==
  /\ in_ < Len(encoded_string)
  /\ encoded_string[in_ + 1] \notin {PAD, NONE}

\* Mutant: i is not reset after a group of four.
ConsumeWithoutReset ==
  /\ pc = "loop" /\ More
  /\ in_' = in_ + 1 /\ i' = i + 1
  /\ char_array_4' = [char_array_4 EXCEPT ![i] = encoded_string[in_ + 1]]
  /\ decoded' = IF i = 3 THEN decoded \o Bytes3(char_array_4') ELSE decoded
  /\ UNCHANGED <<encoded_string, pc>>

\* One symbol; the fourth turns the array into three bytes.
Consume ==
  /\ pc = "loop" /\ More
  /\ in_' = in_ + 1
  /\ char_array_4' = [char_array_4 EXCEPT ![i] = encoded_string[in_ + 1]]
  /\ IF i = 3 THEN i' = 0 /\ decoded' = decoded \o Bytes3(char_array_4')
              ELSE i' = i + 1 /\ UNCHANGED decoded
  /\ UNCHANGED <<encoded_string, pc>>

LoopEnds ==
  /\ pc = "loop" /\ ~More
  /\ pc' = IF i = 0 THEN "done" ELSE "tail"
  /\ UNCHANGED <<encoded_string, in_, i, char_array_4, decoded>>

\* Mutant: as many bytes as symbols are left over.
DecodeLongTail ==
  /\ pc = "tail"
  /\ char_array_4' = [j \in 0 .. 3 |-> IF j < i THEN char_array_4[j] ELSE 255]
  /\ decoded' = decoded \o SubSeq(Bytes3(char_array_4'), 1, i)
  /\ pc' = "done"
  /\ UNCHANGED <<encoded_string, in_, i>>

\* The missing symbols become '\0', whose find() is npos, 255 as unsigned char.
DecodeTail ==
  /\ pc = "tail"
  /\ char_array_4' = [j \in 0 .. 3 |-> IF j < i THEN char_array_4[j] ELSE 255]
  /\ decoded' = decoded \o SubSeq(Bytes3(char_array_4'), 1, i - 1)
  /\ pc' = "done"
  /\ UNCHANGED <<encoded_string, in_, i>>

Next == Consume \/ LoopEnds \/ DecodeTail

Spec == Init /\ [][Next]_vars

-----------------------------------------------------------------------------
(* Base64 by its definition: the symbols are a stream of six bits each, and the
   bytes are the whole eights of that stream. *)

ValidLength == CHOOSE n \in 0 .. Len(encoded_string) :
  /\ \A j \in 1 .. n : encoded_string[j] \notin {PAD, NONE}
  /\ n < Len(encoded_string) => encoded_string[n + 1] \in {PAD, NONE}

Bit(k) == (encoded_string[k \div 6 + 1] \div 2 ^ (5 - (k % 6))) % 2
ByteAt(k) == LET b(j) == Bit(8 * k + j) * 2 ^ (7 - j)
             IN  b(0) + b(1) + b(2) + b(3) + b(4) + b(5) + b(6) + b(7)

(* When the loop is done, the result is the bytes of the longest prefix made of
   symbols: the number 255 that stands for a missing symbol reaches none of them,
   whatever is left over after the last group of four. *)
DecodesPrefix ==
  pc = "done" => decoded = [k \in 1 .. (6 * ValidLength) \div 8 |-> ByteAt(k - 1)]
=============================================================================
