------------------------------ MODULE CDPPipes ------------------------------
(***************************************************************************)
(* The three implementations of CDPPipe side by side: a program is built   *)
(* with one of them (port), and what callers rely on is stated once for    *)
(* all, with the differences between them in the open.                     *)
(***************************************************************************)
EXTENDS CDPPipeLinux, CDPPipeWindows, CDPPipeNode, FiniteSetsExt

StartCall == ReadFromQueue \/ LinuxStarts \/ WindowsStarts \/ NodeStarts
CallStep == LinuxStep \/ WindowsStep \/ NodeStep
BrowserStep == BrowserWrites \/ BrowserReads \/ BrowserDies

Next == StartCall \/ CallStep \/ WindowsWriteGoesOn \/ BrowserStep

Spec == Init /\ [][Next]_vars

\* The calling thread runs; time passes.  Nothing is asked of the browser.
FairSpec == Spec /\ WF_vars(CallStep)

-----------------------------------------------------------------------------
(* Properties. *)

Sent == heard \o outPipe
LongestCommand == Max({Len(Command(c)) : c \in DOMAIN CommandSize} \cup {0})

(* CDPPipe_Linux::Write without signals puts a whole command into the pipe or none
   of it: the select() before the first byte is the only place that gives up. *)
CommandsWhole ==
  port = "linux" /\ ~signals /\ ~Writing /\ pc # "killed" => Sent = <<>> \/ Last(Sent) = NUL

(* What the browser is sent is the commands in order, each cut off somewhere or not
   there at all, and one whose Write returned true is whole: a cancelled, interrupted
   or refused write never passes for a written command, and no byte is sent twice.
   (After a Write that returned false a part of its command, or all of it, may be in
   the pipe, and the next command follows right behind.) *)
CommandsAsReported ==
  \E n \in [1 .. commands -> 0 .. LongestCommand] :
    /\ \A c \in 1 .. commands : n[c] <= Len(Command(c))
    /\ \A c \in DOMAIN reports : reports[c] => n[c] = Len(Command(c))
    /\ Sent = FlattenSeq([c \in 1 .. commands |-> SubSeq(Command(c), 1, n[c])])

(* A Read ends when the browser has died, and on Linux and Windows when a time-out is
   set, also one that is rounded to 0 s, however the browser cuts its messages and wherever
   it falls silent.  The node port has no time-out to end it.  (The time-out is that of
   one chunk: a browser that sends bytes for ever and never a NUL at the end of a
   chunk would hold up all three; here it has a number of messages to send.) *)
ReadReturns ==
  (Reading /\ (~alive \/ (TimeoutSet /\ port # "node"))) ~> ~Reading

(* A Write with a time-out ends, or the node port's at any time, with one exception:
   write() on Linux, which select() has promised room for one byte, blocks on a full
   pipe for as long as the browser does not read, and no time-out ends that.  (A
   program that keeps being interrupted there is another matter.) *)
WriteReturns ==
  (Writing /\ (TimeoutSet \/ port = "node") /\ ~signals) ~> (~Writing \/ (pc = "write" /\ Room = 0))

(* With signals, time-outs inside messages and a dying browser, what Read returns
   or has queued may be a piece of a message, or empty; it is never bytes of two messages in
   one string, a message twice, or one out of order. *)
MessagesNeverGlued ==
  LET strings == got \o m_MessageQueue
  IN  \E from \in [DOMAIN strings -> DOMAIN MessageSize] :
        /\ \A i \in DOMAIN strings : IsSuffix(strings[i], Payload(from[i]))
        /\ \A i, j \in DOMAIN strings : i < j => from[i] < from[j]

(* Each implementation is the channel the manager relies on.  A message is sent
   when its NUL enters the pipe; it has lost its beginning when the first byte that
   this or the next Read can still return is in the middle of it. *)
Unread == byteBuf \o inPipe
FirstUnread == written - Len(Unread)
ChannelCut ==
  alive /\ FirstUnread > 0 /\ Stream[FirstUnread] # NUL /\ \A j \in DOMAIN Unread : Unread[j] # NUL
StringsOf(bytes) == IF port = "node" /\ ~alive THEN NodeStrings(bytes) ELSE Split(bytes)

ChanNow == m_MessageQueue \o StringsOf(Unread)
Opened == alive \/ pc = "new"

Payloads == {Payload(i) : i \in DOMAIN MessageSize}
Fragments == {SubSeq(Payload(i), j, MessageSize[i]) : i \in DOMAIN MessageSize, j \in 1 .. Len(Stream)}

Channel == INSTANCE MessageChannel WITH
  Message <- Payloads, Fragment <- Fragments,
  chan <- ChanNow, cut <- ChannelCut, open <- Opened

(* On Linux without signals Read loses the messages a time-out cuts in two and nothing
   else.  On Windows a cancelled read may take any of the oldest with it, and the end of
   the pipe the ones before it.  The node port loses none and adds one, the end of the
   pipe in the middle of a message. *)
ImplementsChannel ==
  Channel!Init
    /\ [][ \/ signals
           \/ Channel!Next
           \/ port = "windows" /\ Channel!Drop
           \/ port = "node" /\ Channel!EndTorn ]_(Channel!channelVars)
=============================================================================
