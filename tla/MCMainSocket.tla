---------------------------- MODULE MCMainSocket ----------------------------
(* A small instance of MainSocket for TLC: bytes of 32 values, so that a body of up to
   13 bytes has its length in the header, one of 14 to 31 in one byte more, and a longer
   one in two; a buffer of 17 bytes, which some answers fill, once or twice. *)
EXTENDS MainSocket

SmallSizes ==
  {<<3, h, a, e, s, 1>> : h \in {3, 16}, a \in {1, 13, 31}, e \in {1, 10}, s \in {1, 3}}
  \cup {<<3, 3, 1, 1, 1, c>> : c \in {14, 31, 32}}
=============================================================================
