------------------------------ MODULE MCCDPPipes ------------------------------
(* Small instances of CDPPipes for TLC.  BUF_LEN is 2 bytes, so that chunks end
   inside messages, at their NULs and between two of them. *)
EXTENDS CDPPipes

TwoMessages == <<2, 3>>
ThreeMessages == <<1, 2, 1>>

\* The first command fills the pipe; the second meets a full one, or one with room
\* for some of its bytes.
Nothing == <<>>
TwoCommands == <<2, 1>>

\* On Linux 1.4 s is rounded to 1 s, and 0.4 s to 0 s.
TwoSettings == {400, 1400}
AllSettings == {400, 1400, INFINITE}
NoSettings == {}
=============================================================================
