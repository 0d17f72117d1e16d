----------------------------- MODULE MainSocket -----------------------------
(***************************************************************************)
(* mainSocket.cpp: getWebSocketDebuggerUrl and takeScreenshot, a client of *)
(* the browser's debugging port that reads a TCP stream and takes a read   *)
(* that does not fill its buffer for the end of an answer.  The browser    *)
(* sends an answer per command, except that attaching to a tab also        *)
(* brings an event; TCP hands the bytes on in pieces of any size.          *)
(***************************************************************************)
EXTENDS WebSocketFrames, FiniteSets

CONSTANTS
  BufLen,   \* BUF_LEN; the HTTP answers are read into one byte less
  Sizes,    \* the sizes of the messages of this instance
  Faults    \* a subset of {"split", "close"}

\* The browser's messages.  A payload byte tells which message it is of.
Version == 1     \* the body of GET /json/version, on a connection of its own
Handshake == 2   \* the answer to the upgrade request
Targets == 3     \* the answer to Target.getTargets
Attached == 4    \* the event Target.attachedToTarget
Session == 5     \* the answer to Target.attachToTarget
Capture == 6     \* the answer to Page.captureScreenshot
Messages == 1 .. 6
Framed == Targets .. Capture

ASSUME SocketAssumption ==
  /\ Capture < Short  \* the bytes of a message are text
  /\ BufLen \in Nat \ {0, 1} /\ Faults \subseteq {"split", "close"}
  /\ Sizes \subseteq [Messages -> Nat \ {0}]
  \* A length, that of a command with an identifier too, fits the widest form.
  /\ \A s \in Sizes, m \in Messages : s[m] + 1 < Power[LongBytes]

VARIABLES
  size,     \* the sizes of this run's messages
  faults,   \* what may happen in this run
  pc,       \* the answer takeScreenshot is reading
  byteBuf,  \* bytes of it so far
  net,      \* bytes the kernel has for the client
  coming,   \* the messages on their way, each a sequence of bytes
  open,     \* the browser has not closed this connection
  sent,     \* bytes of the web-socket commands
  commands, \* the commands themselves
  saved     \* what mainSocket-screenshot.png shows

vars == <<size, faults, pc, byteBuf, net, coming, open, sent, commands, saved>>

Payload(m) == [i \in 1 .. size[m] |-> m]

\* The browser's frames are not masked.
Wire(m) == IF m \in Framed THEN <<TextFrame>> \o LengthBytes(size[m]) \o Payload(m) ELSE Payload(m)

Answers == [version |-> <<Version>>, handshake |-> <<Handshake>>, targets |-> <<Targets>>,
            attach |-> <<Attached, Session>>, capture |-> <<Capture>>]
Reading == DOMAIN Answers \cup {"attachAgain"}
Ends == {"done", "returned", "threw", "undefined", "killed"}

AllBytes == FlattenSeq([m \in Messages |-> Wire(m)])

TypeOK ==
  /\ size \in Sizes /\ faults \subseteq Faults
  /\ pc \in Reading \cup Ends
  /\ byteBuf \in Seq(0 .. Base - 1) /\ net \in Seq(0 .. Base - 1) /\ coming \in Seq(Seq(0 .. Base - 1))
  /\ Len(byteBuf \o net) <= Len(AllBytes)
  /\ open \in BOOLEAN
  /\ sent \in Seq(0 .. Base - 1) /\ Len(commands) <= 3
  /\ saved \in BOOLEAN

Expect(answers) == [i \in DOMAIN answers |-> Wire(answers[i])]

Init ==
  /\ size \in Sizes /\ faults \in SUBSET Faults
  /\ pc = "version" /\ byteBuf = <<>> /\ net = <<>> /\ coming = Expect(Answers.version)
  /\ open = TRUE /\ sent = <<>> /\ commands = <<>> /\ saved = FALSE

-----------------------------------------------------------------------------
(* One recv(): what there is, up to the buffer's size. *)

Room == IF pc \in {"version", "handshake"} THEN BufLen - 1 ELSE BufLen
RecvBytes == IF Len(net) < Room THEN Len(net) ELSE Room
Received == byteBuf \o SubSeq(net, 1, RecvBytes)
Receives == pc \in Reading /\ net # <<>> /\ net' = SubSeq(net, RecvBytes + 1, Len(net))

\* Mutant: the bytes are read again.
ReadsAgain ==
  /\ pc \in Reading /\ net # <<>> /\ RecvBytes = Room
  /\ byteBuf' = Received
  /\ UNCHANGED <<size, faults, pc, net, coming, open, sent, commands, saved>>

\* A full buffer: there may be more.
ReadsOn ==
  /\ Receives /\ RecvBytes = Room
  /\ byteBuf' = Received
  /\ UNCHANGED <<size, faults, pc, coming, open, sent, commands, saved>>

\* Mutant: the answer ends with any read.
EndsWithAnyRead(stage) == pc = stage /\ Receives

\* "Less than the buffer: this means the end of the data."
AnswerEnds(stage) == pc = stage /\ Receives /\ RecvBytes < Room

\* The program is over, in one of several ways.
Stops(how) ==
  /\ pc' = how /\ byteBuf' = <<>> /\ coming' = <<>>
  /\ UNCHANGED <<size, faults, open, sent, commands, saved>>

\* The next command, and the loop that reads its answer.
Asks(stage, command) ==
  /\ byteBuf' = <<>>
  /\ sent' = sent \o CreateWebSocketBuffer(command) /\ commands' = Append(commands, command)
  /\ \/ open /\ pc' = stage /\ coming' = coming \o Expect(Answers[stage])
     \/ ~open /\ pc' \in {stage, "killed"} /\ UNCHANGED coming
  /\ UNCHANGED <<size, faults, open, saved>>

\* The first command has no parameters; the others contain an identifier of the answer.
GetTargets == <<1>>
AttachToTarget == <<2>> \o Payload(Targets)
CaptureScreenshot == <<3>> \o Payload(Session)

-----------------------------------------------------------------------------
(* std::string getWebSocketDebuggerUrl(addr, port) *)

\* json::parse throws, or there is no body and hence no address to connect to.  The
\* browser's address is connected to, or not any more.
GetsVersion ==
  /\ AnswerEnds("version")
  /\ \/ /\ Received = Payload(Version)
        /\ pc' = "handshake" /\ open' = TRUE /\ byteBuf' = <<>> /\ coming' = Expect(Answers.handshake)
        /\ UNCHANGED <<size, faults, sent, commands, saved>>
     \/ "close" \in faults /\ Received = Payload(Version) /\ Stops("returned")
     \/ /\ Received # Payload(Version)
        /\ \E how \in {"threw", "returned"} : Stops(how)

(* void takeScreenshot(webSocketDebuggerUrl).  Nobody looks at the handshake. *)

GetsHandshake == AnswerEnds("handshake") /\ Asks("targets", GetTargets)

\* frameBodyVector[0], of a vector that may be empty.
FirstBody(m) == LET bodies == GetFrameBodyVector(Received)
                IN  bodies # <<>> /\ Head(bodies) = Payload(m)
FirstBodyFails(m) ==
  LET bodies == GetFrameBodyVector(Received)
  IN  IF bodies = <<>> THEN Stops("undefined") ELSE Head(bodies) # Payload(m) /\ Stops("threw")

\* An answer that does not parse, or has no targets in it, throws.
GetsTargets ==
  /\ AnswerEnds("targets")
  /\ \/ FirstBody(Targets) /\ Asks("attach", AttachToTarget)
     \/ FirstBodyFails(Targets)

\* Mutant: the event is taken for the answer, which is not read.
AttachNeedsOne ==
  /\ AnswerEnds("attach")
  /\ IF FirstBody(Attached) THEN Asks("capture", CaptureScreenshot) ELSE FirstBodyFails(Attached)

(* One body is the event, and the answer is still to come; two are both; all are
   parsed, so that one that is cut off throws. *)
GetsAttached ==
  LET bodies == GetFrameBodyVector(Received)
      whole == \A i \in DOMAIN bodies : \E m \in Framed : bodies[i] = Payload(m)
  IN  /\ AnswerEnds("attach")
      /\ \/ ~whole /\ Stops("threw")
         \/ /\ whole /\ Len(bodies) = 1
            /\ pc' = "attachAgain" /\ byteBuf' = <<>>
            /\ UNCHANGED <<size, faults, coming, open, sent, commands, saved>>
         \/ /\ whole /\ Len(bodies) = 2
            /\ IF bodies[2] = Payload(Session) THEN Asks("capture", CaptureScreenshot) ELSE Stops("threw")
         \/ whole /\ Len(bodies) \notin {1, 2} /\ Stops("returned")

GetsSession ==
  /\ AnswerEnds("attachAgain")
  /\ \/ FirstBody(Session) /\ Asks("capture", CaptureScreenshot)
     \/ FirstBodyFails(Session)

GetsCapture ==
  /\ AnswerEnds("capture")
  /\ \/ /\ FirstBody(Capture)
        /\ pc' = "done" /\ saved' = TRUE /\ byteBuf' = <<>>
        /\ UNCHANGED <<size, faults, coming, open, sent, commands>>
     \/ FirstBodyFails(Capture)

\* recv() returns 0.
MeetsEnd ==
  /\ pc \in Reading /\ net = <<>> /\ ~open /\ coming = <<>>
  /\ UNCHANGED net /\ Stops("returned")

-----------------------------------------------------------------------------
(* External: the browser and TCP. *)

\* A message arrives, in one piece or in several.
Arrives ==
  /\ coming # <<>>
  /\ \E n \in 1 .. Len(Head(coming)) :
       /\ n < Len(Head(coming)) => "split" \in faults
       /\ net' = net \o SubSeq(Head(coming), 1, n)
       /\ coming' = IF n < Len(Head(coming))
                    THEN <<SubSeq(Head(coming), n + 1, Len(Head(coming)))>> \o Tail(coming)
                    ELSE Tail(coming)
  /\ UNCHANGED <<size, faults, pc, byteBuf, open, sent, commands, saved>>

BrowserCloses ==
  /\ "close" \in faults /\ open /\ pc \in Reading
  /\ open' = FALSE /\ coming' = <<>>
  /\ UNCHANGED <<size, faults, pc, byteBuf, net, sent, commands, saved>>

ClientStep ==
  \/ ReadsOn \/ MeetsEnd
  \/ GetsVersion \/ GetsHandshake \/ GetsTargets \/ GetsAttached \/ GetsSession \/ GetsCapture

Next == ClientStep \/ Arrives \/ BrowserCloses

\* The program runs and TCP delivers.
Spec == Init /\ [][Next]_vars /\ WF_vars(ClientStep) /\ WF_vars(Arrives)

-----------------------------------------------------------------------------
(* Properties. *)

(* getFrameBodyVector, of any beginning of the browser's frames: the payloads of the
   whole ones in order, whichever of the three forms their length has, and what is there of
   the last.  (Evaluated once per choice of sizes.) *)
Frames == <<Targets, Attached, Session, Capture>>
FirstFrames(k) == FlattenSeq([i \in 1 .. k |-> Wire(Frames[i])])
PiecesOfFrames ==
  pc = "version" /\ net = <<>> /\ open =>
    \A k \in 1 .. 4 : \A n \in 0 .. Len(Wire(Frames[k])) :
      LET header == 1 + Len(LengthBytes(size[Frames[k]]))
          part == SubSeq(Payload(Frames[k]), 1, n - header)
      IN  GetFrameBodyVector(FirstFrames(k - 1) \o SubSeq(Wire(Frames[k]), 1, n)) =
            [i \in 1 .. k - 1 |-> Payload(Frames[i])] \o (IF part = <<>> THEN <<>> ELSE <<part>>)

(* The browser, reading the masked frames by the same rules, finds exactly the
   commands: the size calculated for a buffer is that of the frame put into it, at both
   boundaries between the forms of the length. *)
BrowserUnderstands == GetFrameBodyVector(sent) = commands

(* A command that depends on an answer is sent only when the answer before it has
   been read to its last byte: nothing of an earlier answer, and no frame without its
   beginning, is left in the connection, however TCP cut the stream. *)
NextCommandInStep ==
  /\ pc = "attach" => IsPrefix(byteBuf \o net, Wire(Attached) \o Wire(Session))
  /\ pc = "capture" => IsPrefix(byteBuf \o net, Wire(Capture))

(* When every message arrives in one piece the screenshot is saved, with one
   exception: an answer that fills the last buffer to the brim is waited for for ever.
   (When TCP splits an answer the program may also throw, return, or run into an empty
   vector.) *)
WaitsAfterFullBuffer ==
  pc \in Reading /\ net = <<>> /\ coming = <<>> /\ byteBuf # <<>> /\ Len(byteBuf) % Room = 0
SavesOrWaits == faults = {} => <>(saved \/ WaitsAfterFullBuffer)
=============================================================================
