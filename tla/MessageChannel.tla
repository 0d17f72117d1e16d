--------------------------- MODULE MessageChannel ---------------------------
(***************************************************************************)
(* What CDPPipe::Read promises its caller: the messages of the browser,    *)
(* each exactly once, whole and in the order they were sent.  The one way  *)
(* to lose something is a call that gives up in the middle of a message:   *)
(* then everything sent so far is gone, and what arrives next is the rest  *)
(* of that message.                                                        *)
(*                                                                         *)
(* Two weaker promises are actions of their own, outside Next: Drop, for a *)
(* reader whose cancelled reads still consume, and EndTorn, for one that   *)
(* takes a message the browser did not finish for a message.               *)
(***************************************************************************)
EXTENDS Integers, Sequences, SequencesExt

CONSTANTS
  Message,     \* whole messages
  Fragment     \* what is left of a message that has lost its beginning

VARIABLES
  chan,        \* sent and not yet returned
  got,         \* returned, in order
  cut,         \* the message being sent has lost its beginning
  open         \* the browser is there

channelVars == <<chan, got, cut, open>>

Init == chan = <<>> /\ got = <<>> /\ cut = FALSE /\ open = TRUE

\* The browser completes a message.
Send ==
  /\ open
  /\ \E s \in IF cut THEN Fragment ELSE Message : chan' = Append(chan, s)
  /\ cut' = FALSE
  /\ UNCHANGED <<got, open>>

\* Read returns true.
Deliver ==
  /\ chan # <<>>
  /\ got' = Append(got, Head(chan)) /\ chan' = Tail(chan)
  /\ UNCHANGED <<cut, open>>

\* Read returns false with a message half read.
Lose ==
  /\ open
  /\ chan' = <<>> /\ cut' = TRUE
  /\ UNCHANGED <<got, open>>

\* The browser is gone.  What it has sent can still be read.
End ==
  /\ open /\ open' = FALSE /\ cut' = FALSE
  /\ UNCHANGED <<chan, got>>

\* Any number of the oldest messages is lost, the first that is left perhaps cut.
Drop ==
  /\ \E k \in 0 .. Len(chan) :
       \/ chan' = SubSeq(chan, k + 1, Len(chan))
       \/ /\ k < Len(chan)
          /\ \E f \in Fragment :
               IsSuffix(f, chan[k + 1]) /\ chan' = <<f>> \o SubSeq(chan, k + 2, Len(chan))
  /\ cut' \in {cut, open /\ chan' = <<>>}
  /\ UNCHANGED <<got, open>>

\* The browser is gone, and what it had begun to send is read as a message.
EndTorn ==
  /\ open /\ open' = FALSE /\ cut' = FALSE
  /\ \E f \in Fragment : chan' = Append(chan, f)
  /\ UNCHANGED got

Next == Send \/ Deliver \/ Lose \/ End

Spec == Init /\ [][Next]_channelVars
=============================================================================
