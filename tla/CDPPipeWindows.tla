--------------------------- MODULE CDPPipeWindows ---------------------------
(***************************************************************************)
(* class CDPPipe_Windows of ConvertHtmlModule.cpp, from Launch to Exit:    *)
(* overlapped reads and writes that are waited for with a time-out and     *)
(* then cancelled.  The kernel works on a pending call while the client    *)
(* waits, decides to give up, and has not cancelled it yet.                *)
(***************************************************************************)
EXTENDS CDPPipe

-----------------------------------------------------------------------------
(* bool Launch() and void Exit() *)

\* Mutant: Launch keeps the browser's end of the message pipe.
LaunchKeepsEnd ==
  /\ pc = "new"
  /\ \/ /\ "handles" \in Faults
        /\ ours' \in {{}, {"fd3.read", "fd3.write"},
                      {"fd3.read", "fd3.write", "fd4.read", "fd4.write"}}
        /\ pc' = "closed" /\ outcome' = "returned" /\ UNCHANGED alive
     \/ /\ ours' = {"fd3.write", "fd4.read", "fd4.write", "process", "thread"}
        /\ alive' = TRUE /\ Return("returned")
  /\ UNCHANGED <<program, readVars, timeVars, writeVars, inPipe, outPipe, heard, written>>

(* A Launch that fails at the second pipe or at CreateProcess keeps what it had
   opened.  One that does not closes the browser's ends. *)
WindowsLaunch ==
  /\ pc = "new"
  /\ \/ /\ "handles" \in Faults
        /\ ours' \in {{}, {"fd3.read", "fd3.write"},
                      {"fd3.read", "fd3.write", "fd4.read", "fd4.write"}}
        /\ pc' = "closed" /\ outcome' = "returned" /\ UNCHANGED alive
     \/ /\ ours' = {"fd3.write", "fd4.read", "process", "thread"}
        /\ alive' = TRUE /\ Return("returned")
  /\ UNCHANGED <<program, readVars, timeVars, writeVars, inPipe, outPipe, heard, written>>

\* The process is ended; its handle and its thread's stay open.
WindowsExit ==
  /\ port = "windows" /\ pc = "idle"
  /\ ours' = ours \ {"fd3.write", "fd4.read"}
  /\ alive' = FALSE /\ pc' = "closed"
  /\ UNCHANGED <<program, outcome, readVars, timeVars, writeVars, inPipe, outPipe, heard, written>>

\* void SetTimeout(uint32_t milliseconds): as it is.
WindowsSetTimeout(ms) ==
  port = "windows" /\ SetsTimeout(IF ms = INFINITE THEN NoTimeout ELSE ms)

-----------------------------------------------------------------------------

\* WaitForSingleObject may return WAIT_TIMEOUT.  Each wait has the whole time.
WaitMayEnd == TimeoutSet /\ ("slow" \in Faults \/ m_Timeout = 0)

\* The other side of a pipe has gone: nobody holds that end any more.
WritersGone == ~alive /\ "fd4.write" \notin ours
ReadersGone == ~alive /\ "fd3.read" \notin ours

-----------------------------------------------------------------------------
(* bool Read(std::string& message) *)

WindowsReadStarts == port = "windows" /\ StartsRead /\ Goes("readPending")

\* CreateEvent fails.
WindowsReadCannot ==
  port = "windows" /\ StartsRead /\ "handles" \in Faults /\ ReadFails /\ UNCHANGED inPipe

\* ReadFile has data, at once or later; the loop goes on unless it ends with a NUL.
WindowsReadChunk ==
  /\ pc = "readPending" /\ inPipe # <<>>
  /\ TakesChunk
  /\ IF Last(Chunk) = NUL
     THEN Delivers(Split(byteBuf \o Chunk))
     ELSE /\ byteBuf' = byteBuf \o Chunk
          /\ UNCHANGED <<pc, outcome, m_MessageQueue, got>>
  /\ UNCHANGED <<program, timeVars, writeVars, ours, outPipe, browserVars>>

\* ERROR_BROKEN_PIPE: complete messages this call has gathered go as well.
WindowsReadBroken ==
  pc = "readPending" /\ inPipe = <<>> /\ WritersGone /\ ReadFails /\ UNCHANGED inPipe

\* WAIT_TIMEOUT: CancelIo comes next.
WindowsReadTimesOut == pc = "readPending" /\ inPipe = <<>> /\ WaitMayEnd /\ Goes("readCancel")

\* Mutant: what a read has gathered is kept for the next.
CancelKeepsBytes ==
  /\ pc = "readCancel" /\ TakesChunk
  /\ Return("returned") /\ UNCHANGED byteBuf
  /\ UNCHANGED <<program, m_MessageQueue, got, timeVars, writeVars, ours, outPipe, browserVars>>

\* A read that has completed since then is not looked at: its bytes, the first or
\* all of those that have come, are lost.
WindowsReadCancels ==
  /\ pc = "readCancel"
  /\ \E n \in 0 .. ChunkLength :
       /\ n > 0 \/ inPipe = <<>>
       /\ inPipe' = SubSeq(inPipe, n + 1, Len(inPipe))
  /\ ReadFails

-----------------------------------------------------------------------------
(* bool Write(const std::string& command) *)

WindowsWriteStarts == port = "windows" /\ WriteBegins("writePending")

\* CreateEvent fails.
WindowsWriteCannot ==
  /\ port = "windows" /\ StartsWrite /\ "handles" \in Faults
  /\ commands' = commands + 1 /\ Reports(FALSE)
  /\ UNCHANGED <<program, readVars, timeVars, writeBuf, ours, inPipe, outPipe, browserVars>>

\* The kernel takes what fits, whatever the client is doing meanwhile.
WindowsWriteGoesOn ==
  /\ pc \in WindowsWriting /\ alive /\ writeBuf # <<>> /\ Room > 0
  /\ MovesBytes
  /\ UNCHANGED <<program, pc, outcome, readVars, timeVars, reports, commands, ours, inPipe, browserVars>>

WindowsWriteCompletes ==
  /\ pc = "writePending" /\ writeBuf = <<>>
  /\ Reports(TRUE)
  /\ UNCHANGED <<program, readVars, timeVars, writeBuf, commands, ours, inPipe, outPipe, browserVars>>

WindowsWriteBroken ==
  pc = "writePending" /\ writeBuf # <<>> /\ ReadersGone /\ WriteFails

WindowsWriteTimesOut ==
  pc = "writePending" /\ writeBuf # <<>> /\ WaitMayEnd /\ Goes("writeCancel")

\* Mutant: a cancelled write counts as a written one.
CancelReportsTrue ==
  /\ pc = "writeCancel" /\ Reports(TRUE) /\ writeBuf' = <<>>
  /\ UNCHANGED <<program, readVars, timeVars, commands, ours, inPipe, outPipe, browserVars>>

\* What the pipe has taken stays there: part of the command, or even all of it.
WindowsWriteCancels == pc = "writeCancel" /\ WriteFails

-----------------------------------------------------------------------------

WindowsStarts ==
  \/ WindowsLaunch \/ WindowsExit
  \/ WindowsReadStarts \/ WindowsReadCannot \/ WindowsWriteStarts \/ WindowsWriteCannot
  \/ \E ms \in Settings : WindowsSetTimeout(ms)

WindowsStep ==
  \/ WindowsReadChunk \/ WindowsReadBroken \/ WindowsReadTimesOut \/ WindowsReadCancels
  \/ WindowsWriteCompletes \/ WindowsWriteBroken \/ WindowsWriteTimesOut \/ WindowsWriteCancels
=============================================================================
