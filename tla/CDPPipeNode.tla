----------------------------- MODULE CDPPipeNode -----------------------------
(***************************************************************************)
(* class CDPPipe of node/ConvertHtmlModule.js: readSync and writeSync on   *)
(* descriptors that do not block.  A read that finds nothing sleeps and    *)
(* tries again, a write that finds no room fails; the time-out is stored   *)
(* and never looked at.                                                    *)
(***************************************************************************)
EXTENDS CDPPipe

NodeSetTimeout(ms) == port = "node" /\ SetsTimeout(ms)

-----------------------------------------------------------------------------
(* Read() *)

NodeReadStarts == port = "node" /\ StartsRead /\ Goes("readSync")

(* The buffer without its last byte, split at the NULs, without empty strings:
   the end of a message that was cut off is a string too. *)
NodeStrings(bytes) == Strings(Append(SubSeq(bytes, 1, Len(bytes) - 1), NUL), FALSE)

NodeReadChunk ==
  /\ pc = "readSync" /\ inPipe # <<>>
  /\ TakesChunk
  /\ IF Last(Chunk) = NUL
     THEN Delivers(NodeStrings(byteBuf \o Chunk))
     ELSE /\ byteBuf' = byteBuf \o Chunk
          /\ UNCHANGED <<pc, outcome, m_MessageQueue, got>>
  /\ UNCHANGED <<program, timeVars, writeVars, ours, outPipe, browserVars>>

NodeMeetsEnd == pc = "readSync" /\ inPipe = <<>> /\ ~alive

NodeReadNothing == NodeMeetsEnd /\ byteBuf = <<>> /\ ReadFails /\ UNCHANGED inPipe

\* The buffer's last message has lost its end.
CutOff == byteBuf # <<>> /\ NodeStrings(byteBuf) # Split(byteBuf)

\* JSON.parse of the cut-off message throws, after it was queued with the others.
NodeReadThrows ==
  /\ NodeMeetsEnd /\ CutOff
  /\ m_MessageQueue' = m_MessageQueue \o NodeStrings(byteBuf)
  /\ byteBuf' = <<>> /\ Return("threw")
  /\ UNCHANGED <<program, got, timeVars, writeVars, ours, inPipe, outPipe, browserVars>>

\* One byte of it is no string at all, and before it there may be none either.
NodeReadRest ==
  /\ NodeMeetsEnd /\ byteBuf # <<>> /\ ~CutOff
  /\ IF NodeStrings(byteBuf) # <<>>
     THEN Delivers(NodeStrings(byteBuf))
     ELSE Return("undefined") /\ byteBuf' = <<>> /\ UNCHANGED <<m_MessageQueue, got>>
  /\ UNCHANGED <<program, timeVars, writeVars, ours, inPipe, outPipe, browserVars>>

-----------------------------------------------------------------------------
(* Write(command) *)

NodeWriteStarts == port = "node" /\ WriteBegins("writeSync")

NodeWriteBytes ==
  /\ pc = "writeSync" /\ alive /\ Room > 0
  /\ MovesBytes
  /\ IF writeBuf' = <<>> THEN Reports(TRUE) ELSE UNCHANGED <<pc, outcome, reports>>
  /\ UNCHANGED <<program, readVars, timeVars, commands, ours, inPipe, browserVars>>

\* EAGAIN or EPIPE, also after a part of the command.
NodeWriteThrows == pc = "writeSync" /\ (Room = 0 \/ ~alive) /\ WriteFails

-----------------------------------------------------------------------------

NodeStarts ==
  \/ NodeReadStarts \/ NodeWriteStarts
  \/ \E ms \in Settings : NodeSetTimeout(ms)

NodeStep ==
  \/ NodeReadChunk \/ NodeReadNothing \/ NodeReadThrows \/ NodeReadRest
  \/ NodeWriteBytes \/ NodeWriteThrows
=============================================================================
