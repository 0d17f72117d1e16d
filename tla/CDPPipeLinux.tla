---------------------------- MODULE CDPPipeLinux ----------------------------
(***************************************************************************)
(* class CDPPipe_Linux of ConvertHtmlModule.cpp once it is connected:      *)
(* Read, Write and SetTimeout with select(), the stored time-out, signals, *)
(* and a browser that may stop reading, stop writing in the middle of a    *)
(* message, or die.  Launch and Exit are in LaunchLinux.                   *)
(***************************************************************************)
EXTENDS CDPPipe

-----------------------------------------------------------------------------
(* void SetTimeout(uint32_t milliseconds): whole seconds, rounded. *)

ToSeconds(ms) == IF ms = INFINITE THEN NoTimeout ELSE (ms + 500) \div 1000

LinuxSetTimeout(ms) == port = "linux" /\ SetsTimeout(ToSeconds(ms))

-----------------------------------------------------------------------------
(* select(): both callers pass a pointer to the stored time-out, and Linux
   writes the time not slept back through it. *)

InReady  == inPipe # <<>> \/ ~alive
OutReady == Room > 0 \/ ~alive

SelectWaits ==
  \/ pc = "readSelect" /\ ~InReady
  \/ pc = "writeSelect" /\ ~OutReady

\* Mutant: the time-out that is not set counts down as well.
SecondAlwaysPasses ==
  /\ SelectWaits /\ "slow" \in Faults
  /\ m_Timeout # 0
  /\ m_Timeout' = m_Timeout - 1
  /\ UNCHANGED <<program, pc, outcome, readVars, setting, settings, writeVars, ours,
                 inPipe, outPipe, browserVars>>

SecondPasses ==
  /\ SelectWaits /\ "slow" \in Faults
  /\ m_Timeout > 0
  /\ m_Timeout' = m_Timeout - 1
  /\ UNCHANGED <<program, pc, outcome, readVars, setting, settings, writeVars, ours,
                 inPipe, outPipe, browserVars>>

GivesUp ==
  \/ pc = "readSelect" /\ ReadFails /\ UNCHANGED inPipe
  \/ pc = "writeSelect" /\ WriteFails

\* Mutant: a write does not look at the time-out.
OnlyReadTimesOut == pc = "readSelect" /\ ~InReady /\ m_Timeout = 0 /\ GivesUp

SelectTimesOut == SelectWaits /\ m_Timeout = 0 /\ GivesUp

SelectInterrupted == SelectWaits /\ signals /\ GivesUp

-----------------------------------------------------------------------------
(* bool Read(std::string& message) *)

LinuxReadStarts == port = "linux" /\ StartsRead /\ Goes("readSelect")

ReadSelected == pc = "readSelect" /\ InReady /\ Goes("read")

\* One chunk; the loop goes on unless the chunk ends with a NUL.
ReadChunk ==
  /\ pc = "read" /\ inPipe # <<>>
  /\ byteBuf' = byteBuf \o Chunk /\ TakesChunk
  /\ pc' = IF Last(Chunk) = NUL THEN "split" ELSE "readSelect"
  /\ UNCHANGED <<program, outcome, m_MessageQueue, got, timeVars, writeVars, ours, outPipe, browserVars>>

ReadEnd == pc = "read" /\ inPipe = <<>> /\ ~alive /\ Goes("split")

\* EINTR: "continue" goes to the loop's condition, which readBytes = -1 ends.
ReadInterrupted == pc = "read" /\ signals /\ Goes("split")

\* Nothing was read: the assertion, or "return false" in a build without it.
SplitNothing ==
  /\ pc = "split" /\ byteBuf = <<>>
  /\ \/ pc' = "killed" /\ outcome' = "assert"
     \/ Return("returned")
  /\ UNCHANGED <<program, readVars, timeVars, writeVars, ours, inPipe, outPipe, browserVars>>

SplitMessages ==
  /\ pc = "split" /\ Split(byteBuf) # <<>>
  /\ Delivers(Split(byteBuf))
  /\ UNCHANGED <<program, timeVars, writeVars, ours, inPipe, outPipe, browserVars>>

\* No NUL: front() and pop() of the empty queue.
SplitNoMessage ==
  /\ pc = "split" /\ byteBuf # <<>> /\ Split(byteBuf) = <<>>
  /\ byteBuf' = <<>>
  /\ pc' = "killed" /\ outcome' = "undefined"
  /\ UNCHANGED <<program, m_MessageQueue, got, timeVars, writeVars, ours, inPipe, outPipe, browserVars>>

-----------------------------------------------------------------------------
(* bool Write(const std::string& command) *)

LinuxWriteStarts == port = "linux" /\ WriteBegins("writeSelect")

WriteSelected == pc = "writeSelect" /\ OutReady /\ Goes("write")

\* Mutant: Write returns after the first write().
WriteOnce ==
  /\ pc = "write" /\ alive /\ Room > 0
  /\ LET n == IF Len(writeBuf) < Room THEN Len(writeBuf) ELSE Room
     IN  outPipe' = outPipe \o SubSeq(writeBuf, 1, n)
  /\ writeBuf' = <<>> /\ Reports(TRUE)
  /\ UNCHANGED <<program, readVars, timeVars, commands, ours, inPipe, browserVars>>

\* write() on a blocking pipe comes back when the last byte is in.
WriteBytes ==
  /\ pc = "write" /\ alive /\ Room > 0
  /\ MovesBytes
  /\ IF writeBuf' = <<>> THEN Reports(TRUE) ELSE UNCHANGED <<pc, outcome, reports>>
  /\ UNCHANGED <<program, readVars, timeVars, commands, ours, inPipe, browserVars>>

\* Interrupted with some bytes written, or with EINTR: back to select().
WriteInterrupted == pc = "write" /\ alive /\ signals /\ Goes("writeSelect")

\* SIGPIPE.
WriteBroken == pc = "write" /\ ~alive /\ Goes("killed")

-----------------------------------------------------------------------------

LinuxStarts ==
  \/ LinuxReadStarts \/ LinuxWriteStarts
  \/ \E ms \in Settings : LinuxSetTimeout(ms)

LinuxStep ==
  \/ SecondPasses \/ SelectTimesOut \/ SelectInterrupted
  \/ ReadSelected \/ ReadChunk \/ ReadEnd \/ ReadInterrupted
  \/ SplitNothing \/ SplitMessages \/ SplitNoMessage
  \/ WriteSelected \/ WriteBytes \/ WriteInterrupted \/ WriteBroken

-----------------------------------------------------------------------------
(* Properties of this implementation. *)

(* "m_Timeout // 타임아웃설정(초)" and "SetTimeout": the time-out of every wait is the
   one that was set. *)
TimeoutIsTheSetting == m_Timeout = setting

(* "시그널에 의해 호출이 중단된 경우, 다시 시도" (a call interrupted by a signal is
   tried again): signals alone make Read neither find nothing to return, the
   assertion "No data read from the pipe", nor take from an empty queue. *)
InterruptedReadIsRetried == outcome \notin {"assert", "undefined"}
=============================================================================
