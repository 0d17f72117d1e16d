------------------------------- MODULE CDPPipe -------------------------------
(***************************************************************************)
(* struct CDPPipe of ConvertHtmlModule.cpp and what its implementations    *)
(* have in common: two kernel pipes to a browser, commands and messages    *)
(* that end with a NUL, and a queue of the messages one read has brought   *)
(* in.  The implementations are CDPPipeLinux, CDPPipeWindows and           *)
(* CDPPipeNode; CDPPipes composes them.                                    *)
(*                                                                         *)
(* A message is some payload bytes and a NUL.  The payload bytes of the    *)
(* i-th message are all i, so a string that was cut or glued shows.        *)
(***************************************************************************)
EXTENDS Integers, Sequences, SequencesExt

CONSTANTS
  Ports,        \* the implementations of this instance
  MessageSize,  \* payload lengths of the messages the browser writes
  CommandSize,  \* payload lengths of the commands the client writes
  BufLen,       \* BUF_LEN, the size of one read
  PipeCap,      \* bytes a kernel pipe holds
  Settings,     \* the milliseconds SetTimeout is called with
  INFINITE,     \* the largest of them, 0xFFFFFFFF in the code
  MaxSettings,  \* bound: calls of SetTimeout
  Faults        \* the failures of this instance, a subset of FaultKinds

FaultKinds == {"slow",    \* time passes while a call waits
               "signal",  \* a signal interrupts select(), read() or write()
               "handles", \* Windows cannot create a pipe, process or event
               "crash"}   \* the browser dies

ASSUME PortAssumption == Ports \subseteq {"linux", "windows", "node"}
ASSUME SizeAssumption == MessageSize \in Seq(Nat \ {0}) /\ CommandSize \in Seq(Nat \ {0})
ASSUME BufferAssumption == BufLen \in Nat \ {0} /\ PipeCap \in Nat \ {0}
ASSUME SettingsAssumption == INFINITE \in Nat /\ Settings \subseteq 0 .. INFINITE /\ MaxSettings \in Nat
ASSUME PipeFaultAssumption == Faults \subseteq FaultKinds

NUL == 0
Framed(i, size) == [j \in 1 .. size + 1 |-> IF j <= size THEN i ELSE NUL]
Command(i) == Framed(i, CommandSize[i])

\* Everything the browser writes, in order.
Stream == FlattenSeq([i \in DOMAIN MessageSize |-> Framed(i, MessageSize[i])])
Payload(i) == [j \in 1 .. MessageSize[i] |-> i]

VARIABLES
  port,           \* which implementation the program was built with
  signals,        \* the program handles a signal without SA_RESTART
  pc,             \* where the client is in a call
  outcome,        \* how the last call ended; got and reports tell what it returned
  byteBuf,        \* local of Read: bytes read by this call
  m_MessageQueue,
  m_Timeout,      \* the stored time-out in the port's unit, or NoTimeout
  setting,        \* what SetTimeout last made of it
  settings,       \* number of calls of SetTimeout
  got,            \* the messages Read has returned
  writeBuf,       \* local of Write: bytes of the command not written yet
  reports,        \* what each Write that has returned returned
  commands,       \* number of commands Write has been called for
  ours,           \* Windows: the handles this process holds
  inPipe,         \* bytes in the pipe from the browser
  outPipe,        \* bytes in the pipe to the browser
  heard,          \* bytes the browser has read
  written,        \* number of bytes of Stream the browser has written
  alive           \* the browser runs and holds its ends of the pipes

program == <<port, signals>>
readVars == <<byteBuf, m_MessageQueue, got>>
timeVars == <<m_Timeout, setting, settings>>
writeVars == <<writeBuf, reports, commands>>
browserVars == <<heard, written, alive>>
vars == <<program, pc, outcome, readVars, timeVars, writeVars, ours, inPipe, outPipe, browserVars>>

NoTimeout == -1
TimeoutSet == m_Timeout # NoTimeout

LinuxReading == {"readSelect", "read", "split"}
LinuxWriting == {"writeSelect", "write"}
WindowsReading == {"readPending", "readCancel"}
WindowsWriting == {"writePending", "writeCancel"}
Reading == pc \in LinuxReading \cup WindowsReading \cup {"readSync"}
Writing == pc \in LinuxWriting \cup WindowsWriting \cup {"writeSync"}

Handles == {"fd3.read", "fd3.write", "fd4.read", "fd4.write", "process", "thread"}

TypeOK ==
  /\ port \in Ports /\ signals \in BOOLEAN
  /\ Reading \/ Writing \/ pc \in {"idle", "killed", "new", "closed"}
  /\ outcome \in {"returned", "assert", "undefined", "threw"}
  /\ byteBuf \in Seq(Nat) /\ m_MessageQueue \in Seq(Seq(Nat)) /\ got \in Seq(Seq(Nat))
  /\ m_Timeout \in Nat \cup {NoTimeout} /\ setting \in Nat \cup {NoTimeout}
  /\ settings \in 0 .. MaxSettings
  /\ writeBuf \in Seq(Nat) /\ reports \in Seq(BOOLEAN) /\ commands \in 0 .. Len(CommandSize)
  /\ ours \subseteq Handles
  /\ inPipe \in Seq(Nat) /\ outPipe \in Seq(Nat) /\ heard \in Seq(Nat)
  /\ Len(inPipe) <= PipeCap /\ Len(outPipe) <= PipeCap
  /\ written \in 0 .. Len(Stream) /\ alive \in BOOLEAN

\* Connected, except on Windows, whose Launch is modelled with the calls.
Init ==
  /\ port \in Ports
  /\ signals \in {FALSE, port = "linux" /\ "signal" \in Faults}
  /\ pc = IF port = "windows" THEN "new" ELSE "idle"
  /\ outcome = "returned" /\ ours = {} /\ alive = (port # "windows")
  /\ byteBuf = <<>> /\ m_MessageQueue = <<>> /\ got = <<>>
  /\ m_Timeout = NoTimeout /\ setting = NoTimeout /\ settings = 0
  /\ writeBuf = <<>> /\ reports = <<>> /\ commands = 0
  /\ inPipe = <<>> /\ outPipe = <<>> /\ heard = <<>> /\ written = 0

-----------------------------------------------------------------------------
(* Steps of every implementation. *)

Return(what) == pc' = "idle" /\ outcome' = what

SetsTimeout(value) ==
  /\ pc = "idle" /\ settings < MaxSettings
  /\ m_Timeout' = value /\ setting' = value
  /\ settings' = settings + 1
  /\ UNCHANGED <<program, pc, outcome, readVars, writeVars, ours, inPipe, outPipe, browserVars>>

\* A call goes on at another place and nothing else happens.
Goes(place) ==
  /\ pc' = place
  /\ UNCHANGED <<program, outcome, readVars, timeVars, writeVars, ours, inPipe, outPipe, browserVars>>

\* The first thing Read does.
ReadFromQueue ==
  /\ pc = "idle" /\ m_MessageQueue # <<>>
  /\ got' = Append(got, Head(m_MessageQueue)) /\ m_MessageQueue' = Tail(m_MessageQueue)
  /\ Return("returned")
  /\ UNCHANGED <<program, byteBuf, timeVars, writeVars, ours, inPipe, outPipe, browserVars>>

StartsRead == pc = "idle" /\ m_MessageQueue = <<>>

\* One read takes what there is, up to BUF_LEN bytes.
ChunkLength == IF Len(inPipe) < BufLen THEN Len(inPipe) ELSE BufLen
Chunk == SubSeq(inPipe, 1, ChunkLength)
TakesChunk == inPipe' = SubSeq(inPipe, ChunkLength + 1, Len(inPipe))

\* The strings a buffer's NULs end, with the empty ones or without; what follows the
\* last NUL is dropped.
Strings(bytes, withEmpty) ==
  FoldLeft(LAMBDA acc, b :
             IF b # NUL THEN [acc EXCEPT !.rest = Append(@, b)]
             ELSE [strings |-> IF acc.rest = <<>> /\ ~withEmpty THEN acc.strings
                               ELSE Append(acc.strings, acc.rest),
                   rest |-> <<>>],
           [strings |-> <<>>, rest |-> <<>>], bytes).strings

Split(bytes) == Strings(bytes, TRUE)

\* Mutant: of the strings one read has found, only the first survives.
DeliversOne(strings) ==
  /\ got' = Append(got, Head(strings))
  /\ byteBuf' = <<>> /\ UNCHANGED m_MessageQueue
  /\ Return("returned")

\* Read queues the strings it has found and returns the first.
Delivers(strings) ==
  /\ got' = Append(got, Head(strings))
  /\ m_MessageQueue' = m_MessageQueue \o Tail(strings)
  /\ byteBuf' = <<>>
  /\ Return("returned")

\* Read returns without a message; what it has gathered goes out of scope.
ReadFails ==
  /\ Return("returned") /\ byteBuf' = <<>>
  /\ UNCHANGED <<program, m_MessageQueue, got, timeVars, writeVars, ours, outPipe, browserVars>>

StartsWrite == pc = "idle" /\ commands < Len(CommandSize)

WriteBegins(place) ==
  /\ StartsWrite
  /\ commands' = commands + 1
  /\ writeBuf' = Command(commands')
  /\ pc' = place
  /\ UNCHANGED <<program, outcome, readVars, timeVars, reports, ours, inPipe, outPipe, browserVars>>

\* As many bytes of the command as there is room for.
Room == PipeCap - Len(outPipe)
MovesBytes ==
  LET n == IF Len(writeBuf) < Room THEN Len(writeBuf) ELSE Room
  IN  /\ outPipe' = outPipe \o SubSeq(writeBuf, 1, n)
      /\ writeBuf' = SubSeq(writeBuf, n + 1, Len(writeBuf))

\* Write returns.
Reports(value) ==
  /\ reports' = Append(reports, value)
  /\ Return("returned")

WriteFails ==
  /\ Reports(FALSE) /\ writeBuf' = <<>>
  /\ UNCHANGED <<program, readVars, timeVars, commands, ours, inPipe, outPipe, browserVars>>

-----------------------------------------------------------------------------
(* The browser, external. *)

\* Some more bytes of the stream, which has an end; a write across a message's end is
\* two steps.
BrowserWrites ==
  /\ alive /\ written < Len(Stream)
  /\ \E n \in 1 .. PipeCap - Len(inPipe) :
       /\ written + n <= Len(Stream)
       /\ \A j \in 1 .. n - 1 : Stream[written + j] # NUL
       /\ inPipe' = inPipe \o SubSeq(Stream, written + 1, written + n)
       /\ written' = written + n
  /\ UNCHANGED <<program, pc, outcome, readVars, timeVars, writeVars, ours, outPipe, heard, alive>>

BrowserReads ==
  /\ alive
  /\ \E n \in 1 .. Len(outPipe) :
       heard' = heard \o SubSeq(outPipe, 1, n) /\ outPipe' = SubSeq(outPipe, n + 1, Len(outPipe))
  /\ UNCHANGED <<program, pc, outcome, readVars, timeVars, writeVars, ours, inPipe, written, alive>>

BrowserDies ==
  /\ "crash" \in Faults /\ alive
  /\ alive' = FALSE
  /\ UNCHANGED <<program, pc, outcome, readVars, timeVars, writeVars, ours, inPipe, outPipe, heard, written>>
=============================================================================
