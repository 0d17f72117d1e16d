------------------------ MODULE CDPPipesChannel_proofs ------------------------
(***************************************************************************)
(* Proofs about writing to the pipes, and that the three of them implement *)
(* module MessageChannel, for every stream of messages, every buffer and   *)
(* pipe size and every fault.  A step of the program moves the parts the   *)
(* stream is in: what is held, what is in the pipe.  Each lemma on a step  *)
(* says what that does to the strings of what has not been returned.       *)
(***************************************************************************)
EXTENDS CDPPipes_proofs

-----------------------------------------------------------------------------
(* The invariants of writing. *)

(* Without signals Write is in one of two places, and in the first the browser has
   been sent nothing of this command yet. *)
WholeInv ==
  port = "linux" /\ ~signals =>
    /\ pc \notin {"write", "killed"} => Sent = <<>> \/ Last(Sent) = NUL
    /\ pc \in LinuxWriting => writeBuf # <<>> /\ Last(writeBuf) = NUL

(* Every command has been sent up to some byte: the one that is being written up to
   what is left of it, the ones reported as written to their end. *)
FirstBytes(n, k) == [c \in 1 .. k |-> SubSeq(Command(c), 1, n[c])]
SentUpTo(n) ==
  /\ \A c \in 1 .. commands : n[c] <= Len(Command(c))
  /\ \A c \in DOMAIN reports : reports[c] => n[c] = Len(Command(c))
  /\ Sent = FlattenSeq(FirstBytes(n, commands))
  /\ Writing => writeBuf = SubSeq(Command(commands), n[commands] + 1, Len(Command(commands)))
ReportsInv ==
  /\ Len(reports) <= commands
  /\ Writing => commands = Len(reports) + 1
  /\ ~Writing /\ pc # "killed" => commands = Len(reports)
  /\ \E n \in [1 .. commands -> 0 .. LongestCommand] : SentUpTo(n)

-----------------------------------------------------------------------------
(* CDPPipe_Linux::Write. *)

LEMMA BytesAssociative ==
  \A a, b, c \in Seq(Nat) : (a \o b) \o c = a \o (b \o c)
BY ConcatAssociative, SMTT(30)

\* Reading from the pipe to the browser takes nothing from what was sent.
LEMMA BrowserReadsSent ==
  ASSUME TypeOK, BrowserReads
  PROVE  Sent' = Sent
<1>1. PICK n \in 1 .. Len(outPipe) :
        heard' = heard \o SubSeq(outPipe, 1, n) /\ outPipe' = SubSeq(outPipe, n + 1, Len(outPipe))
  BY DEF BrowserReads
<1>2. outPipe \in Seq(Nat) /\ heard \in Seq(Nat) /\ Len(outPipe) \in Nat
  BY LenProperties DEF TypeOK
<1>3. n \in 0 .. Len(outPipe)
  BY <1>2
<1>4. /\ SubSeq(outPipe, 1, n) \in Seq(Nat) /\ SubSeq(outPipe, n + 1, Len(outPipe)) \in Seq(Nat)
      /\ SubSeq(outPipe, 1, n) \o SubSeq(outPipe, n + 1, Len(outPipe)) = outPipe
  BY <1>2, <1>3, CutInTwo
<1>5. (heard \o SubSeq(outPipe, 1, n)) \o SubSeq(outPipe, n + 1, Len(outPipe))
        = heard \o (SubSeq(outPipe, 1, n) \o SubSeq(outPipe, n + 1, Len(outPipe)))
  BY <1>2, <1>4, BytesAssociative
<1> QED
  BY <1>1, <1>4, <1>5 DEF Sent

\* A write moves bytes from what is left of the command to the end of what was sent.
LEMMA MovesBytesSent ==
  ASSUME TypeOK, MovesBytes, heard' = heard
  PROVE  \E n \in 0 .. Len(writeBuf) :
           /\ Sent' = Sent \o SubSeq(writeBuf, 1, n)
           /\ writeBuf' = SubSeq(writeBuf, n + 1, Len(writeBuf))
<1>1. PICK n \in 0 .. Len(writeBuf) :
        /\ outPipe' = outPipe \o SubSeq(writeBuf, 1, n)
        /\ writeBuf' = SubSeq(writeBuf, n + 1, Len(writeBuf))
  BY MovesBytesType
<1>2. outPipe \in Seq(Nat) /\ heard \in Seq(Nat) /\ writeBuf \in Seq(Nat) /\ SubSeq(writeBuf, 1, n) \in Seq(Nat)
  BY CutInTwo DEF TypeOK
<1>3. heard \o (outPipe \o SubSeq(writeBuf, 1, n)) = (heard \o outPipe) \o SubSeq(writeBuf, 1, n)
  BY <1>2, BytesAssociative
<1> QED
  BY <1>1, <1>3 DEF Sent

Whole(s) == s = <<>> \/ Last(s) = NUL

LEMMA LastOfConcat ==
  ASSUME NEW s \in Seq(Nat), NEW t \in Seq(Nat), t # <<>>, Last(t) = NUL
  PROVE  Last(s \o t) = NUL
<1>1. Len(s) \in Nat /\ Len(t) \in Nat /\ Len(t) > 0
  BY LenProperties, EmptySeq
<1>2. /\ Len(s \o t) = Len(s) + Len(t)
      /\ \A i \in 1 .. Len(s) + Len(t) : (s \o t)[i] = IF i <= Len(s) THEN s[i] ELSE t[i - Len(s)]
  BY ConcatProperties
<1>3. Len(s) + Len(t) \in 1 .. Len(s) + Len(t) /\ ~(Len(s) + Len(t) <= Len(s)) /\ (Len(s) + Len(t)) - Len(s) = Len(t)
  BY <1>1
<1> QED
  BY <1>2, <1>3 DEF Last

LEMMA ProgramKept == [Next]_vars => UNCHANGED program
<1> SUFFICES ASSUME [Next]_vars PROVE UNCHANGED program
  OBVIOUS
<1>1. CASE UNCHANGED vars
  BY <1>1 DEF vars
<1>2. CASE ReadFromQueue
  BY <1>2 DEF ReadFromQueue
<1>3. CASE LinuxStarts
  BY <1>3 DEF LinuxStarts, LinuxReadStarts, LinuxWriteStarts, LinuxSetTimeout, Goes, WriteBegins, SetsTimeout
<1>4. CASE WindowsStarts
  BY <1>4 DEF WindowsStarts, WindowsLaunch, WindowsExit, WindowsReadStarts, WindowsReadCannot, WindowsWriteStarts,
       WindowsWriteCannot, WindowsSetTimeout, Goes, WriteBegins, SetsTimeout, ReadFails
<1>5. CASE NodeStarts
  BY <1>5 DEF NodeStarts, NodeReadStarts, NodeWriteStarts, NodeSetTimeout, Goes, WriteBegins, SetsTimeout
<1>6. CASE LinuxStep
  BY <1>6 DEF LinuxStep, SecondPasses, SelectTimesOut, SelectInterrupted, GivesUp, ReadFails, WriteFails,
       ReadSelected, ReadChunk, ReadEnd, ReadInterrupted, SplitNothing, SplitMessages, SplitNoMessage,
       WriteSelected, WriteBytes, WriteInterrupted, WriteBroken, Goes
<1>7. CASE WindowsStep \/ WindowsWriteGoesOn
  BY <1>7 DEF WindowsStep, WindowsReadChunk, WindowsReadBroken, WindowsReadTimesOut, WindowsReadCancels,
       WindowsWriteCompletes, WindowsWriteBroken, WindowsWriteTimesOut, WindowsWriteCancels, WindowsWriteGoesOn,
       Goes, ReadFails, WriteFails
<1>8. CASE NodeStep
  BY <1>8 DEF NodeStep, NodeReadChunk, NodeReadNothing, NodeReadThrows, NodeReadRest, NodeWriteBytes,
       NodeWriteThrows, ReadFails, WriteFails
<1>9. CASE BrowserStep
  BY <1>9 DEF BrowserStep, BrowserWrites, BrowserReads, BrowserDies
<1> QED
  BY <1>1, <1>2, <1>3, <1>4, <1>5, <1>6, <1>7, <1>8, <1>9 DEF Next, StartCall, CallStep

LEMMA WholeInvStep == PipeInv /\ WholeInv /\ [Next]_vars => WholeInv'
<1> SUFFICES ASSUME PipeInv, WholeInv, [Next]_vars, port = "linux", ~signals, port' = port, signals' = signals
             PROVE  /\ pc' \notin {"write", "killed"} => Whole(Sent')
                    /\ pc' \in LinuxWriting => writeBuf' # <<>> /\ Last(writeBuf') = NUL
  <2>1. [Next]_vars => port' = port /\ signals' = signals
    BY ProgramKept DEF program
  <2> QED
    BY <2>1 DEF WholeInv, Whole
<1> USE DEF program, readVars, timeVars, writeVars, browserVars, Return, Reports, ReadFails, WriteFails
<1> USE DEF LinuxReading, LinuxWriting
<1>0. /\ pc \notin {"write", "killed"} => Whole(Sent)
      /\ pc \in LinuxWriting => writeBuf # <<>> /\ Last(writeBuf) = NUL
      /\ pc \notin WindowsReading \cup WindowsWriting \cup {"new", "readSync", "writeSync"}
  BY DEF WholeInv, Whole, PipeInv, PlacesOK
<1>1. ASSUME Sent' = Sent, writeBuf' = writeBuf, pc' \in LinuxWriting => pc \in LinuxWriting,
             pc' \notin {"write", "killed"} => pc \notin {"write", "killed"}
      PROVE  /\ pc' \notin {"write", "killed"} => Whole(Sent')
             /\ pc' \in LinuxWriting => writeBuf' # <<>> /\ Last(writeBuf') = NUL
  BY <1>0, <1>1
<1> HIDE DEF LinuxReading
<1>2. CASE UNCHANGED vars
  BY <1>1, <1>2 DEF vars, Sent
<1>3. CASE ReadFromQueue
  BY <1>1, <1>3 DEF ReadFromQueue, Sent
<1>4. CASE LinuxReadStarts \/ ReadSelected \/ ReadEnd \/ ReadInterrupted \/ WriteSelected \/ WriteBroken
  BY <1>1, <1>4 DEF LinuxReadStarts, StartsRead, ReadSelected, ReadEnd, ReadInterrupted, WriteSelected, WriteBroken,
       Goes, Sent
<1>5. CASE \E ms \in Settings : LinuxSetTimeout(ms)
  BY <1>1, <1>5 DEF LinuxSetTimeout, SetsTimeout, Sent
<1>6. CASE SecondPasses \/ ReadChunk \/ SplitNothing \/ SplitMessages \/ SplitNoMessage
  BY <1>1, <1>6 DEF SecondPasses, ReadChunk, SplitNothing, SplitMessages, SplitNoMessage, Delivers, Sent
<1>7. CASE BrowserWrites \/ BrowserDies
  BY <1>1, <1>7 DEF BrowserWrites, BrowserDies, Sent
<1>8. CASE BrowserReads
  <2>1. Sent' = Sent
    BY <1>8, BrowserReadsSent DEF PipeInv
  <2> QED
    BY <1>1, <1>8, <2>1 DEF BrowserReads
<1>9. CASE LinuxWriteStarts
  <2> USE <1>9 DEF LinuxWriteStarts, WriteBegins, StartsWrite
  <2>1. commands + 1 \in 1 .. Len(CommandSize)
    BY SizeAssumption, LenProperties DEF PipeInv, TypeOK
  <2>2. /\ Command(commands + 1) \in Seq(Nat) /\ Len(Command(commands + 1)) = CommandSize[commands + 1] + 1
        /\ CommandSize[commands + 1] \in Nat /\ Last(Command(commands + 1)) = NUL
    BY <2>1, CommandType
  <2>3. Command(commands + 1) # <<>>
    BY <2>2, EmptySeq
  <2> QED
    BY <1>0, <2>2, <2>3 DEF Sent
<1>10. CASE SelectTimesOut \/ SelectInterrupted
  BY <1>0, <1>10 DEF SelectTimesOut, SelectInterrupted, GivesUp, Sent
<1>11. CASE WriteInterrupted
  BY <1>11 DEF WriteInterrupted
<1>12. CASE WriteBytes
  <2> USE <1>12 DEF WriteBytes
  <2>1. PICK n \in 0 .. Len(writeBuf) :
          /\ Sent' = Sent \o SubSeq(writeBuf, 1, n)
          /\ writeBuf' = SubSeq(writeBuf, n + 1, Len(writeBuf))
    BY MovesBytesSent DEF PipeInv
  <2>2. /\ writeBuf \in Seq(Nat) /\ Len(writeBuf) \in Nat /\ Sent \in Seq(Nat)
        /\ writeBuf # <<>> /\ Last(writeBuf) = NUL
    BY <1>0, ConcatProperties, LenProperties DEF PipeInv, TypeOK, Sent
  <2>3. writeBuf' \in Seq(Nat) /\ Len(writeBuf') = Len(writeBuf) - n
    BY <2>1, <2>2, CutInTwo
  <2>4. CASE writeBuf' = <<>>
    <3>1. n = Len(writeBuf)
      BY <2>2, <2>3, <2>4, EmptySeq
    <3>2. SubSeq(writeBuf, 1, n) = writeBuf
      BY <2>2, <3>1, SubSeqFull
    <3>3. Last(Sent') = NUL
      BY <2>1, <2>2, <3>2, LastOfConcat
    <3>4. pc' = "idle"
      BY <2>4
    <3> QED
      BY <3>3, <3>4 DEF Whole
  <2>5. CASE writeBuf' # <<>>
    <3>1. Last(writeBuf') = NUL
      <4>1. Len(writeBuf) - n \in Nat /\ Len(writeBuf) - n > 0 /\ n \in Nat
        BY <2>2, <2>3, <2>5, LenProperties, EmptySeq
      <4>2. writeBuf'[Len(writeBuf) - n] = writeBuf[Len(writeBuf)]
        BY <2>1, <2>2, <4>1
      <4> QED
        BY <2>2, <2>3, <4>2 DEF Last
    <3>2. pc' = "write"
      BY <2>5
    <3> QED
      BY <2>5, <3>1, <3>2
  <2> QED
    BY <2>4, <2>5
<1>13. ~(WindowsStarts \/ WindowsStep \/ WindowsWriteGoesOn \/ NodeStarts \/ NodeStep)
  BY <1>0 DEF WindowsStarts, WindowsStep, WindowsWriteGoesOn, NodeStarts, NodeStep, WindowsReading, WindowsWriting,
       WindowsLaunch, WindowsExit, WindowsReadStarts, WindowsReadCannot, WindowsWriteStarts, WindowsWriteCannot,
       WindowsSetTimeout, WindowsReadChunk, WindowsReadBroken, WindowsReadTimesOut, WindowsReadCancels,
       WindowsWriteCompletes, WindowsWriteBroken, WindowsWriteTimesOut, WindowsWriteCancels,
       NodeReadStarts, NodeWriteStarts, NodeSetTimeout, NodeReadChunk, NodeReadNothing, NodeReadThrows,
       NodeReadRest, NodeWriteBytes, NodeWriteThrows, NodeMeetsEnd
<1> QED
  BY <1>2, <1>3, <1>4, <1>5, <1>6, <1>7, <1>8, <1>9, <1>10, <1>11, <1>12, <1>13
     DEF Next, StartCall, CallStep, BrowserStep, LinuxStarts, LinuxStep

(* Without signals CDPPipe_Linux::Write sends commands whole or not at all, for
   commands and pipes of every size: its loop does not give up between two parts. *)
THEOREM LinuxCommandsWhole == Spec => []CommandsWhole
<1>1. Init => WholeInv
  <2> SUFFICES ASSUME Init PROVE WholeInv
    OBVIOUS
  <2>1. Sent = <<>>
    BY ConcatEmptySeq, EmptySeq DEF Init, Sent
  <2> QED
    BY <2>1 DEF Init, WholeInv, LinuxWriting
<1>2. WholeInv => CommandsWhole
  BY DEF WholeInv, CommandsWhole, Writing, LinuxWriting
<1> QED
  BY <1>1, <1>2, WholeInvStep, PipeInvHolds, PTL DEF Spec

-----------------------------------------------------------------------------
(* What every Write reports. *)

LEMMA LongestIs ==
  /\ LongestCommand \in Nat
  /\ \A c \in 1 .. Len(CommandSize) : Len(Command(c)) \in 0 .. LongestCommand
<1> DEFINE K == Len(CommandSize)
           Lengths == {Len(Command(c)) : c \in 1 .. K}
           S == {n \in Nat : n <= K => \E k \in Nat : \A c \in 1 .. n : Len(Command(c)) <= k}
<1>1. K \in Nat /\ DOMAIN CommandSize = 1 .. K
  BY SizeAssumption, LenProperties
<1>2. \A c \in 1 .. K : Len(Command(c)) \in Nat /\ Len(Command(c)) >= 1
  BY CommandType
<1> HIDE DEF K
<1>3. 0 \in S
  OBVIOUS
<1>4. ASSUME NEW n \in Nat, n \in S  PROVE n + 1 \in S
  <2> SUFFICES ASSUME n + 1 <= K
               PROVE  \E k \in Nat : \A c \in 1 .. n + 1 : Len(Command(c)) <= k
    OBVIOUS
  <2>1. PICK k \in Nat : \A c \in 1 .. n : Len(Command(c)) <= k
    BY <1>1, <1>4
  <2> DEFINE x == Len(Command(n + 1))
             y == IF k < x THEN x ELSE k
  <2>2. x \in Nat /\ n + 1 \in 1 .. K
    BY <1>1, <1>2
  <2>3. y \in Nat /\ k <= y /\ x <= y
    BY <2>2
  <2> HIDE DEF y
  <2>4. \A c \in 1 .. n + 1 : Len(Command(c)) <= y
    <3> SUFFICES ASSUME NEW c \in 1 .. n + 1 PROVE Len(Command(c)) <= y
      OBVIOUS
    <3>1. c = n + 1 \/ c \in 1 .. n
      OBVIOUS
    <3>2. c \in 1 .. K
      BY <1>1
    <3>3. Len(Command(c)) \in Nat
      BY <1>2, <3>2
    <3>4. CASE c = n + 1
      BY <2>3, <3>4
    <3>5. CASE c \in 1 .. n
      <4>1. Len(Command(c)) <= k
        BY <2>1, <3>5
      <4> QED
        BY <2>3, <3>3, <4>1
    <3> QED
      BY <3>1, <3>4, <3>5
  <2> QED
    BY <2>3, <2>4
<1>5. K \in S
  <2> HIDE DEF S
  <2> QED
    BY <1>1, <1>3, <1>4, Induction
<1>6. PICK k \in Nat : \A c \in 1 .. K : Len(Command(c)) <= k
  BY <1>1, <1>5
<1>7. \E m \in Lengths \cup {0} : m \in Nat /\ \A x \in Lengths \cup {0} : m >= x
  <2>1. CASE Lengths = {}
    BY <2>1
  <2>2. CASE Lengths # {}
    <3>1. Lengths \subseteq 1 .. k
      BY <1>2, <1>6
    <3> HIDE DEF Lengths
    <3>2. PICK m \in Lengths : \A x \in Lengths : m >= x
      BY <2>2, <3>1, LargestElement
    <3>3. m \in Nat /\ m >= 0
      BY <3>1
    <3> QED
      BY <3>2, <3>3
  <2> QED
    BY <2>1, <2>2
<1>8. LongestCommand = CHOOSE m \in Lengths \cup {0} : \A x \in Lengths \cup {0} : m >= x
  BY <1>1 DEF LongestCommand, Max
<1>9. LongestCommand \in Lengths \cup {0} /\ \A x \in Lengths \cup {0} : LongestCommand >= x
  <2> HIDE DEF Lengths
  <2> QED
    BY <1>7, <1>8
<1>10. LongestCommand \in Nat
  BY <1>2, <1>9
<1>11. \A c \in 1 .. K : Len(Command(c)) \in 0 .. LongestCommand
  <2> SUFFICES ASSUME NEW c \in 1 .. K PROVE Len(Command(c)) \in 0 .. LongestCommand
    OBVIOUS
  <2>1. Len(Command(c)) \in Lengths /\ Len(Command(c)) \in Nat
    BY <1>2
  <2> QED
    BY <1>9, <1>10, <2>1
<1> QED
  BY <1>10, <1>11 DEF K

LEMMA FirstAndRest ==
  ASSUME NEW q \in Seq(Nat), NEW n \in Nat, Len(q) = n, NEW m \in Nat, m <= n
  PROVE  /\ SubSeq(q, 1, m) \in Seq(Nat) /\ Len(SubSeq(q, 1, m)) = m
         /\ \A i \in 1 .. m : SubSeq(q, 1, m)[i] = q[i]
         /\ SubSeq(q, m + 1, n) \in Seq(Nat) /\ Len(SubSeq(q, m + 1, n)) = n - m
         /\ \A i \in 1 .. n - m : SubSeq(q, m + 1, n)[i] = q[m + i]
<1>1. \A i \in 1 .. n : q[i] \in Nat
  OBVIOUS
<1>2. /\ SubSeq(q, 1, m) \in Seq(Nat) /\ Len(SubSeq(q, 1, m)) = (IF 1 <= m THEN m - 1 + 1 ELSE 0)
      /\ \A i \in 1 .. m - 1 + 1 : SubSeq(q, 1, m)[i] = q[1 + i - 1]
  <2>1. 1 \in Int /\ m \in Int /\ \A i \in 1 .. m : q[i] \in Nat
    BY <1>1
  <2> QED
    BY <2>1, SubSeqProperties, SMTT(30)
<1>3. /\ SubSeq(q, m + 1, n) \in Seq(Nat)
      /\ Len(SubSeq(q, m + 1, n)) = (IF m + 1 <= n THEN n - (m + 1) + 1 ELSE 0)
      /\ \A i \in 1 .. n - (m + 1) + 1 : SubSeq(q, m + 1, n)[i] = q[(m + 1) + i - 1]
  <2>1. m + 1 \in Int /\ n \in Int /\ \A i \in m + 1 .. n : q[i] \in Nat
    BY <1>1
  <2> QED
    BY <2>1, SubSeqProperties, SMTT(30)
<1> QED
  BY <1>2, <1>3

\* Bytes p + 1 on of a command, and the first k of these.
LEMMA RestOfCommand ==
  ASSUME NEW s \in Seq(Nat), NEW p \in 0 .. Len(s), NEW k \in 0 .. Len(s) - p
  PROVE  LET w == SubSeq(s, p + 1, Len(s))
         IN  /\ w \in Seq(Nat) /\ Len(w) = Len(s) - p
             /\ SubSeq(s, 1, p) \in Seq(Nat) /\ SubSeq(w, 1, k) \in Seq(Nat)
             /\ SubSeq(s, 1, p + k) = SubSeq(s, 1, p) \o SubSeq(w, 1, k)
             /\ SubSeq(w, k + 1, Len(w)) = SubSeq(s, p + k + 1, Len(s))
<1> DEFINE w == SubSeq(s, p + 1, Len(s))
           a == SubSeq(s, 1, p)
           b == SubSeq(w, 1, k)
           c == SubSeq(w, k + 1, Len(w))
           u == SubSeq(s, 1, p + k)
           v == SubSeq(s, p + k + 1, Len(s))
           L == Len(s)
<1>1. L \in Nat /\ p \in Nat /\ k \in Nat /\ p <= L /\ p + k <= L
  BY LenProperties
<1>2. /\ w \in Seq(Nat) /\ Len(w) = L - p /\ \A i \in 1 .. L - p : w[i] = s[p + i]
  BY <1>1, FirstAndRest
<1>3. /\ a \in Seq(Nat) /\ Len(a) = p /\ \A i \in 1 .. p : a[i] = s[i]
  BY <1>1, FirstAndRest
<1>4. /\ u \in Seq(Nat) /\ Len(u) = p + k /\ \A i \in 1 .. p + k : u[i] = s[i]
  BY <1>1, FirstAndRest
<1>5. /\ v \in Seq(Nat) /\ Len(v) = L - (p + k) /\ \A i \in 1 .. L - (p + k) : v[i] = s[(p + k) + i]
  BY <1>1, FirstAndRest
<1> HIDE DEF w, a, u, v, L
<1>6. /\ b \in Seq(Nat) /\ Len(b) = k /\ \A i \in 1 .. k : b[i] = w[i]
  BY <1>1, <1>2, FirstAndRest
<1>7. /\ c \in Seq(Nat) /\ Len(c) = (L - p) - k /\ \A i \in 1 .. (L - p) - k : c[i] = w[k + i]
  BY <1>1, <1>2, FirstAndRest
<1> HIDE DEF b, c
<1>8. u = a \o b
  <2>1. /\ a \o b \in Seq(Nat) /\ Len(a \o b) = p + k
        /\ \A i \in 1 .. p + k : (a \o b)[i] = IF i <= p THEN a[i] ELSE b[i - p]
    BY <1>3, <1>6, ConcatProperties, ZenonT(60)
  <2>2. \A i \in 1 .. Len(u) : u[i] = (a \o b)[i]
    <3> SUFFICES ASSUME NEW i \in 1 .. p + k PROVE u[i] = (a \o b)[i]
      BY <1>4
    <3>1. CASE i <= p
      <4>1. i \in 1 .. p
        BY <1>1, <3>1
      <4>2. a[i] = s[i]
        BY <1>3, <4>1
      <4>3. u[i] = s[i]
        BY <1>4
      <4>4. (a \o b)[i] = a[i]
        BY <2>1, <3>1
      <4> QED
        BY <4>2, <4>3, <4>4
    <3>2. CASE ~(i <= p)
      <4>1. i - p \in 1 .. k /\ i - p \in 1 .. L - p /\ p + (i - p) = i
        BY <1>1, <3>2
      <4>2. b[i - p] = w[i - p] /\ w[i - p] = s[i]
        BY <1>2, <1>6, <4>1
      <4> QED
        BY <1>4, <2>1, <3>2, <4>2
    <3> QED
      BY <3>1, <3>2
  <2> QED
    BY <1>4, <2>1, <2>2, SeqEqual
<1>9. c = v
  <2>1. Len(c) = Len(v)
    BY <1>1, <1>5, <1>7
  <2>2. \A i \in 1 .. Len(c) : c[i] = v[i]
    <3> SUFFICES ASSUME NEW i \in 1 .. (L - p) - k PROVE c[i] = v[i]
      BY <1>7
    <3>1. k + i \in 1 .. L - p /\ i \in 1 .. L - (p + k) /\ p + (k + i) = (p + k) + i
      BY <1>1
    <3>2. c[i] = w[k + i] /\ w[k + i] = s[(p + k) + i] /\ v[i] = s[(p + k) + i]
      BY <1>2, <1>5, <1>7, <3>1
    <3> QED
      BY <3>2
  <2> QED
    BY <1>5, <1>7, <2>1, <2>2, SeqEqual
<1> QED
  BY <1>2, <1>3, <1>6, <1>8, <1>9 DEF w, a, b, c, u, v, L

LEMMA FirstBytesStep ==
  ASSUME NEW n, NEW k \in Nat, k <= Len(CommandSize),
         \A c \in 1 .. k : n[c] \in Nat /\ n[c] <= Len(Command(c))
  PROVE  /\ FirstBytes(n, k) \in Seq(Seq(Nat))
         /\ \A m \in Nat : k = m + 1 =>
              FirstBytes(n, k) = Append(FirstBytes(n, m), SubSeq(Command(k), 1, n[k]))
<1> DEFINE Bytes(c) == SubSeq(Command(c), 1, n[c])
<1>1. \A c \in 1 .. k : Bytes(c) \in Seq(Nat)
  <2> SUFFICES ASSUME NEW c \in 1 .. k PROVE Bytes(c) \in Seq(Nat)
    OBVIOUS
  <2>1. c \in 1 .. Len(CommandSize)
    BY SizeAssumption, LenProperties
  <2>2. Command(c) \in Seq(Nat) /\ n[c] \in 0 .. Len(Command(c))
    BY <2>1, CommandType
  <2> QED
    BY <2>2, CutInTwo
<1>2. ASSUME NEW m \in Nat, m <= k
      PROVE  /\ FirstBytes(n, m) \in Seq(Seq(Nat)) /\ Len(FirstBytes(n, m)) = m
             /\ \A c \in 1 .. m : FirstBytes(n, m)[c] = Bytes(c)
  <2>1. \A c \in 1 .. m : Bytes(c) \in Seq(Nat)
    BY <1>1, <1>2
  <2>2. FirstBytes(n, m) = [c \in 1 .. m |-> Bytes(c)]
    BY DEF FirstBytes
  <2> HIDE DEF Bytes
  <2>3. FirstBytes(n, m) \in [1 .. m -> Seq(Nat)]
    BY <2>1, <2>2
  <2> QED
    BY <2>2, <2>3
<1>3. ASSUME NEW m \in Nat, k = m + 1
      PROVE  FirstBytes(n, k) = Append(FirstBytes(n, m), Bytes(k))
  <2> DEFINE s == FirstBytes(n, m)
             t == FirstBytes(n, k)
             x == Bytes(k)
  <2>1. k <= k /\ m <= k /\ k \in 1 .. k
    BY <1>3
  <2>2. s \in Seq(Seq(Nat)) /\ Len(s) = m /\ \A c \in 1 .. m : s[c] = Bytes(c)
    BY <1>2, <2>1
  <2>3. t \in Seq(Seq(Nat)) /\ Len(t) = k /\ \A c \in 1 .. k : t[c] = Bytes(c)
    BY <1>2, <2>1
  <2>4. x \in Seq(Nat)
    BY <1>1, <2>1
  <2> HIDE DEF s, t, Bytes
  <2>5. t[k] = x /\ \A c \in 1 .. m : t[c] = s[c]
    <3>1. \A c \in 1 .. m : c \in 1 .. k
      BY <1>3
    <3>2. \A c \in 1 .. m : t[c] = Bytes(c) /\ s[c] = Bytes(c)
      BY <2>2, <2>3, <3>1
    <3>3. t[k] = x
      BY <2>1, <2>3
    <3> QED
      BY <3>2, <3>3
  <2> HIDE DEF x
  <2>6. /\ Append(s, x) \in Seq(Seq(Nat)) /\ Len(Append(s, x)) = m + 1 /\ Append(s, x)[m + 1] = x
        /\ \A c \in 1 .. m : Append(s, x)[c] = s[c]
    BY <2>2, <2>4, AppendProperties
  <2>7. \A c \in 1 .. Len(t) : t[c] = Append(s, x)[c]
    <3> SUFFICES ASSUME NEW c \in 1 .. m + 1 PROVE t[c] = Append(s, x)[c]
      BY <1>3, <2>3
    <3>1. c = m + 1 \/ c \in 1 .. m
      OBVIOUS
    <3> QED
      BY <1>3, <2>5, <2>6, <3>1
  <2>8. t = Append(s, x)
    BY <1>3, <2>3, <2>6, <2>7, SeqEqual
  <2> QED
    BY <2>8 DEF s, t, x
<1>4. FirstBytes(n, k) \in Seq(Seq(Nat))
  <2>1. k <= k
    OBVIOUS
  <2> QED
    BY <1>2, <2>1
<1> QED
  BY <1>3, <1>4

LEMMA FlattenBytes ==
  /\ FlattenSeq(<<>>) = <<>>
  /\ \A s \in Seq(Seq(Nat)) : FlattenSeq(s) \in Seq(Nat)
  /\ \A s \in Seq(Seq(Nat)), t \in Seq(Nat) : FlattenSeq(Append(s, t)) = FlattenSeq(s) \o t
  /\ \A t \in Seq(Nat) : t \o <<>> = t
BY FlattenEmpty, FlattenAppend, FlattenType, ConcatEmptySeq

\* A step of the browser or of a Read changes nothing of all this.
LEMMA StillReported ==
  ASSUME ReportsInv, UNCHANGED <<commands, reports, writeBuf>>, Sent' = Sent,
         Writing' => Writing, ~Writing' /\ pc' # "killed" => ~Writing /\ pc # "killed"
  PROVE  ReportsInv'
<1>1. PICK n \in [1 .. commands -> 0 .. LongestCommand] : SentUpTo(n)
  BY DEF ReportsInv
<1>2. SentUpTo(n)'
  BY <1>1 DEF SentUpTo, FirstBytes, Command
<1>3. n \in [1 .. commands' -> 0 .. LongestCommand]
  OBVIOUS
<1>4. /\ Len(reports') <= commands'
      /\ Writing' => commands' = Len(reports') + 1
      /\ ~Writing' /\ pc' # "killed" => commands' = Len(reports')
  BY DEF ReportsInv
<1> QED
  BY <1>2, <1>3, <1>4 DEF ReportsInv

\* Only what n says of the first k commands counts.
LEMMA SameFirstBytes ==
  ASSUME NEW n, NEW m, NEW k \in Nat, \A c \in 1 .. k : m[c] = n[c]
  PROVE  FirstBytes(m, k) = FirstBytes(n, k)
BY DEF FirstBytes

LEMMA NothingOf ==
  ASSUME NEW s \in Seq(Nat)
  PROVE  SubSeq(s, 1, 0) = <<>> /\ SubSeq(s, 0 + 1, Len(s)) = s
<1>1. Len(s) \in Nat /\ 0 + 1 = 1
  BY LenProperties
<1>2. Len(SubSeq(s, 1, 0)) = 0 /\ SubSeq(s, 1, 0) \in Seq(Nat)
  BY <1>1
<1>3. Len(SubSeq(s, 1, Len(s))) = Len(s) /\ SubSeq(s, 1, Len(s)) \in Seq(Nat)
      /\ \A i \in 1 .. Len(s) : SubSeq(s, 1, Len(s))[i] = s[i]
  BY <1>1
<1>4. SubSeq(s, 1, Len(s)) = s
  BY <1>3, SeqEqual
<1> QED
  BY <1>1, <1>2, <1>4, EmptySeq

LEMMA AppendReport ==
  ASSUME NEW s \in Seq(BOOLEAN), NEW v \in BOOLEAN
  PROVE  /\ Len(Append(s, v)) = Len(s) + 1 /\ DOMAIN Append(s, v) = 1 .. Len(s) + 1
         /\ Append(s, v)[Len(s) + 1] = v
         /\ \A c \in 1 .. Len(s) : Append(s, v)[c] = s[c]
<1>1. /\ Append(s, v) \in Seq(BOOLEAN) /\ Len(Append(s, v)) = Len(s) + 1
      /\ \A c \in 1 .. Len(s) : Append(s, v)[c] = s[c]
      /\ Append(s, v)[Len(s) + 1] = v
  BY AppendProperties
<1>2. DOMAIN Append(s, v) = 1 .. Len(Append(s, v))
  BY <1>1, LenProperties
<1> QED
  BY <1>1, <1>2

LEMMA AppendDiffers == \A s \in Seq(BOOLEAN), v \in BOOLEAN : Append(s, v) # s
<1> SUFFICES ASSUME NEW s \in Seq(BOOLEAN), NEW v \in BOOLEAN PROVE Append(s, v) # s
  OBVIOUS
<1>1. Len(Append(s, v)) = Len(s) + 1 /\ Len(s) \in Nat
  BY AppendReport, LenProperties
<1>2. Len(s) + 1 # Len(s)
  BY <1>1
<1> QED
  BY <1>1, <1>2

\* A Write begins, or fails before it begins: nothing of its command is sent.
LEMMA OneMoreCommand ==
  ASSUME TypeOK, ReportsInv, ~Writing, pc # "killed", commands < Len(CommandSize),
         commands' = commands + 1, Sent' = Sent,
         \/ Writing' /\ reports' = reports /\ writeBuf' = Command(commands')
         \/ ~Writing' /\ reports' = Append(reports, FALSE)
  PROVE  ReportsInv'
<1> DEFINE K == commands + 1
<1>1. /\ commands \in Nat /\ K \in Nat /\ Len(CommandSize) \in Nat /\ K <= Len(CommandSize)
      /\ K \in 1 .. Len(CommandSize) /\ \A c \in 1 .. commands : c \in 1 .. K /\ c # K
      /\ \A c \in 1 .. K : c \in 1 .. Len(CommandSize) /\ (c \in 1 .. commands \/ c = K)
  BY SizeAssumption, LenProperties DEF TypeOK
<1>2. /\ reports \in Seq(BOOLEAN) /\ Len(reports) = commands /\ DOMAIN reports = 1 .. commands
  BY LenProperties DEF TypeOK, ReportsInv
<1>3. PICK n \in [1 .. commands -> 0 .. LongestCommand] : SentUpTo(n)
  BY DEF ReportsInv
<1> PICK m : m = [c \in 1 .. K |-> IF c = K THEN 0 ELSE n[c]]
  OBVIOUS
<1>4. LongestCommand \in Nat /\ 0 \in 0 .. LongestCommand
  BY LongestIs
<1>5. m \in [1 .. K -> 0 .. LongestCommand]
  BY <1>1, <1>3, <1>4
<1>6. m[K] = 0 /\ \A c \in 1 .. commands : m[c] = n[c]
  BY <1>1
<1>7. \A c \in 1 .. K : Command(c) \in Seq(Nat) /\ Len(Command(c)) \in Nat
  BY <1>1, CommandType
<1>8. \A c \in 1 .. K : m[c] \in Nat /\ m[c] <= Len(Command(c))
  <2> SUFFICES ASSUME NEW c \in 1 .. K PROVE m[c] \in Nat /\ m[c] <= Len(Command(c))
    OBVIOUS
  <2>1. m[c] \in Nat
    BY <1>4, <1>5
  <2>2. CASE c = K
    BY <1>6, <1>7, <2>2
  <2>3. CASE c \in 1 .. commands
    BY <1>3, <1>6, <2>1, <2>3 DEF SentUpTo
  <2> QED
    BY <1>1, <2>2, <2>3
<1>9. Sent = FlattenSeq(FirstBytes(m, K))
  <2>1. \A c \in 1 .. commands : m[c] \in Nat /\ m[c] <= Len(Command(c))
    BY <1>1, <1>8
  <2>2. commands <= Len(CommandSize)
    BY <1>1
  <2>3. FirstBytes(m, commands) \in Seq(Seq(Nat))
    BY <1>1, <2>1, <2>2, FirstBytesStep
  <2>4. FirstBytes(m, K) = Append(FirstBytes(m, commands), SubSeq(Command(K), 1, m[K]))
    <3> HIDE DEF K
    <3>1. K = commands + 1
      BY DEF K
    <3> QED
      BY <1>1, <1>8, <3>1, FirstBytesStep, ZenonT(60)
  <2>5. SubSeq(Command(K), 1, m[K]) = <<>>
    <3>1. Command(K) \in Seq(Nat)
      BY <1>1, CommandType
    <3> QED
      BY <1>6, <3>1, NothingOf
  <2>6. <<>> \in Seq(Nat)
    OBVIOUS
  <2>7. FlattenSeq(FirstBytes(m, K)) = FlattenSeq(FirstBytes(m, commands)) \o <<>>
    <3> DEFINE s == FirstBytes(m, commands)
    <3> HIDE DEF s
    <3>1. FlattenSeq(Append(s, <<>>)) = FlattenSeq(s) \o <<>>
      BY <2>3, <2>6, FlattenBytes DEF s
    <3>2. FirstBytes(m, K) = Append(s, <<>>)
      BY <2>4, <2>5 DEF s
    <3> QED
      BY <3>1, <3>2 DEF s
  <2>8. FlattenSeq(FirstBytes(m, K)) = FlattenSeq(FirstBytes(m, commands))
    BY <2>3, <2>7, FlattenBytes
  <2>9. FirstBytes(m, commands) = FirstBytes(n, commands)
    BY <1>1, <1>6, SameFirstBytes
  <2> QED
    BY <1>3, <2>8, <2>9 DEF SentUpTo
<1>10. \A c \in DOMAIN reports' : reports'[c] => m[c] = Len(Command(c))
  <2>1. \A c \in DOMAIN reports : reports[c] => m[c] = Len(Command(c))
    BY <1>2, <1>3, <1>6 DEF SentUpTo
  <2>2. CASE reports' = reports
    BY <2>1, <2>2
  <2>3. CASE reports' = Append(reports, FALSE)
    <3>1. /\ DOMAIN Append(reports, FALSE) = 1 .. K
          /\ ~Append(reports, FALSE)[K]
          /\ \A c \in 1 .. commands : Append(reports, FALSE)[c] = reports[c]
      BY <1>2, AppendReport
    <3> QED
      BY <1>1, <1>2, <2>1, <2>3, <3>1
  <2> QED
    BY <2>2, <2>3
<1>11. Writing' => writeBuf' = SubSeq(Command(K), m[K] + 1, Len(Command(K)))
  <2>1. Command(K) \in Seq(Nat)
    BY <1>1, <1>7
  <2>2. SubSeq(Command(K), m[K] + 1, Len(Command(K))) = Command(K)
    BY <1>6, <2>1, NothingOf
  <2> QED
    BY <2>2 DEF Command
<1>12. SentUpTo(m)'
  <2>1. commands' = K /\ Sent' = FlattenSeq(FirstBytes(m, K))
    BY <1>9
  <2> HIDE DEF K
  <2>2. \A c \in 1 .. commands' : m[c] <= Len(Command(c))
    BY <1>8, <2>1
  <2>3. Writing' => writeBuf' = SubSeq(Command(commands'), m[commands'] + 1, Len(Command(commands')))
    BY <1>11, <2>1
  <2> QED
    BY <1>10, <2>1, <2>2, <2>3 DEF SentUpTo, FirstBytes, Command
<1>13. /\ Len(reports') <= commands'
       /\ Writing' => commands' = Len(reports') + 1
       /\ ~Writing' => commands' = Len(reports')
  <2>1. CASE Writing' /\ reports' = reports
    BY <1>1, <1>2, <2>1
  <2>2. CASE ~Writing' /\ reports' = Append(reports, FALSE)
    <3>1. Len(Append(reports, FALSE)) = commands + 1
      BY <1>2, AppendReport
    <3> QED
      BY <1>1, <2>2, <3>1
  <2> QED
    BY <2>1, <2>2
<1>14. m \in [1 .. commands' -> 0 .. LongestCommand]
  BY <1>5
<1> QED
  BY <1>12, <1>13, <1>14 DEF ReportsInv

\* A write sends k more bytes of the command; the call goes on with the rest, or returns,
\* TRUE with the last of them.
LEMMA SendsMore ==
  ASSUME TypeOK, ReportsInv, Writing, NEW k \in 0 .. Len(writeBuf), commands' = commands,
         Sent' = Sent \o SubSeq(writeBuf, 1, k),
         \/ reports' = reports /\ writeBuf' = SubSeq(writeBuf, k + 1, Len(writeBuf))
         \/ /\ ~Writing'
            /\ \E v \in BOOLEAN : reports' = Append(reports, v) /\ (v => k = Len(writeBuf)),
         reports' = reports => Writing' \/ pc' = "killed"
  PROVE  ReportsInv'
<1> DEFINE K == commands
           s == Command(K)
<1>1. PICK n \in [1 .. K -> 0 .. LongestCommand] : SentUpTo(n)
  BY DEF ReportsInv
<1>2. PICK m : m = [n EXCEPT ![K] = @ + k]
  OBVIOUS
<1>3. /\ K \in Nat /\ Len(CommandSize) \in Nat /\ K <= Len(CommandSize)
      /\ reports \in Seq(BOOLEAN) /\ DOMAIN reports = 1 .. Len(reports)
      /\ Len(reports) \in Nat /\ K = Len(reports) + 1
      /\ writeBuf \in Seq(Nat) /\ Len(writeBuf) \in Nat /\ Sent \in Seq(Nat)
  <2>1. Sent \in Seq(Nat)
    BY ConcatProperties DEF Sent, TypeOK
  <2> QED
    BY <2>1, SizeAssumption, LenProperties DEF TypeOK, ReportsInv
<1>4. PICK j \in Nat : K = j + 1 /\ j = Len(reports)
  BY <1>3
<1>5. /\ K \in 1 .. K /\ K \in 1 .. Len(CommandSize) /\ \A c \in 1 .. j : c \in 1 .. K /\ c # K
      /\ \A c \in 1 .. K : c \in 1 .. Len(CommandSize) /\ (c \in 1 .. j \/ c = K)
  BY <1>3, <1>4, SMTT(30)
<1>6. /\ \A c \in 1 .. K : Command(c) \in Seq(Nat) /\ Len(Command(c)) \in 0 .. LongestCommand
      /\ LongestCommand \in Nat
  BY <1>5, CommandType, LongestIs
<1>7. /\ n[K] \in Nat /\ n[K] <= Len(s) /\ Len(s) \in Nat /\ s \in Seq(Nat) /\ Len(s) <= LongestCommand
      /\ n[K] \in 0 .. Len(s)
  BY <1>1, <1>5, <1>6 DEF SentUpTo
<1>8. writeBuf = SubSeq(s, n[K] + 1, Len(s))
  BY <1>1 DEF SentUpTo
<1> HIDE DEF s
<1>9. Len(writeBuf) = Len(s) - n[K] /\ k \in 0 .. Len(s) - n[K]
  <2>1. 0 \in 0 .. Len(s) - n[K]
    BY <1>7
  <2>2. Len(SubSeq(s, n[K] + 1, Len(s))) = Len(s) - n[K]
    BY <1>7, <2>1, RestOfCommand
  <2> QED
    BY <1>8, <2>2
<1>10. m[K] = n[K] + k /\ (\A c \in 1 .. j : m[c] = n[c]) /\ DOMAIN m = 1 .. K
  BY <1>2, <1>5, <1>1
<1>11. m[K] \in Nat /\ m[K] <= Len(s)
  <2>1. \A x, y, z \in Nat : y <= x /\ z \in 0 .. x - y => y + z \in Nat /\ y + z <= x
    OBVIOUS
  <2> QED
    BY <1>7, <1>9, <1>10, <2>1, SMTT(30)
<1>12. \A c \in 1 .. K : m[c] \in Nat /\ m[c] <= Len(Command(c)) /\ n[c] \in Nat /\ n[c] <= Len(Command(c))
  <2> SUFFICES ASSUME NEW c \in 1 .. K
               PROVE  m[c] \in Nat /\ m[c] <= Len(Command(c)) /\ n[c] \in Nat /\ n[c] <= Len(Command(c))
    OBVIOUS
  <2>1. n[c] \in Nat /\ n[c] <= Len(Command(c))
    <3>1. n[c] \in 0 .. LongestCommand
      BY <1>1
    <3>2. n[c] <= Len(Command(c))
      BY <1>1 DEF SentUpTo
    <3> QED
      BY <1>6, <3>1, <3>2
  <2>2. CASE c = K
    BY <1>11, <2>1, <2>2 DEF s
  <2>3. CASE c \in 1 .. j
    BY <1>10, <2>1, <2>3
  <2> QED
    BY <1>5, <2>2, <2>3
<1>13. m \in [1 .. K -> 0 .. LongestCommand]
  <2>1. \A c \in 1 .. K : m[c] \in 0 .. LongestCommand
    BY <1>6, <1>12
  <2> QED
    BY <1>2, <1>10, <2>1, <1>1
<1>14. /\ SubSeq(s, 1, n[K]) \in Seq(Nat) /\ SubSeq(writeBuf, 1, k) \in Seq(Nat)
       /\ SubSeq(s, 1, m[K]) = SubSeq(s, 1, n[K]) \o SubSeq(writeBuf, 1, k)
       /\ SubSeq(writeBuf, k + 1, Len(writeBuf)) = SubSeq(s, m[K] + 1, Len(s))
  BY <1>7, <1>8, <1>9, <1>10, RestOfCommand, ZenonT(60)
<1>15. Sent' = FlattenSeq(FirstBytes(m, K))
  <2> DEFINE f == FirstBytes(n, j)
             a == SubSeq(s, 1, n[K])
             b == SubSeq(writeBuf, 1, k)
  <2>1. j <= Len(CommandSize) /\ \A c \in 1 .. j : n[c] \in Nat /\ n[c] <= Len(Command(c))
    BY <1>3, <1>4, <1>5, <1>12
  <2>2. f \in Seq(Seq(Nat))
    BY <2>1, FirstBytesStep
  <2>3. FirstBytes(n, K) = Append(f, a)
    BY <1>3, <1>4, <1>12, FirstBytesStep DEF s
  <2>4. FirstBytes(m, K) = Append(FirstBytes(m, j), SubSeq(s, 1, m[K]))
    BY <1>3, <1>4, <1>12, FirstBytesStep DEF s
  <2>5. FirstBytes(m, j) = f
    BY <1>10, SameFirstBytes
  <2>6. a \in Seq(Nat) /\ b \in Seq(Nat) /\ SubSeq(s, 1, m[K]) = a \o b
    BY <1>14
  <2>7. Sent = FlattenSeq(FirstBytes(n, K)) /\ Sent' = Sent \o b
    BY <1>1 DEF SentUpTo
  <2> HIDE DEF f, a, b
  <2>8. a \o b \in Seq(Nat)
    BY <2>6, ConcatProperties
  <2>9. Sent = FlattenSeq(f) \o a
    BY <2>2, <2>3, <2>6, <2>7, FlattenBytes
  <2>10. FlattenSeq(FirstBytes(m, K)) = FlattenSeq(f) \o (a \o b)
    <3>1. FirstBytes(m, K) = Append(f, a \o b)
      BY <2>4, <2>5, <2>6
    <3>2. FlattenSeq(Append(f, a \o b)) = FlattenSeq(f) \o (a \o b)
      BY <2>2, <2>8, FlattenBytes
    <3> QED
      BY <3>1, <3>2
  <2>11. (FlattenSeq(f) \o a) \o b = FlattenSeq(f) \o (a \o b)
    BY <2>2, <2>6, FlattenBytes, BytesAssociative, ZenonT(60)
  <2> QED
    BY <2>7, <2>9, <2>10, <2>11
<1>16. \A c \in DOMAIN reports : reports[c] => m[c] = Len(Command(c))
  BY <1>1, <1>3, <1>4, <1>10 DEF SentUpTo
<1>17. CASE reports' = reports /\ writeBuf' = SubSeq(writeBuf, k + 1, Len(writeBuf))
  <2>1. SentUpTo(m)'
    BY <1>12, <1>14, <1>15, <1>16, <1>17 DEF SentUpTo, FirstBytes, Command, s
  <2>2. Writing' \/ pc' = "killed"
    BY <1>17
  <2>4. Len(reports') <= commands' /\ commands' = Len(reports') + 1
    BY <1>3, <1>17
  <2>5. ~(~Writing' /\ pc' # "killed")
    BY <2>2
  <2> QED
    BY <1>13, <2>1, <2>4, <2>5 DEF ReportsInv
<1>18. ASSUME NEW v \in BOOLEAN, ~Writing', reports' = Append(reports, v), v => k = Len(writeBuf)
       PROVE  ReportsInv'
  <2>1. /\ Len(reports') = K /\ DOMAIN reports' = 1 .. K /\ reports'[K] = v
        /\ \A c \in 1 .. j : reports'[c] = reports[c]
    BY <1>3, <1>4, <1>18, AppendReport
  <2>2. v => m[K] = Len(s)
    BY <1>7, <1>9, <1>10, <1>18
  <2>3. \A c \in DOMAIN reports' : reports'[c] => m[c] = Len(Command(c))
    <3> SUFFICES ASSUME NEW c \in 1 .. K, reports'[c] PROVE m[c] = Len(Command(c))
      BY <2>1
    <3>1. CASE c = K
      BY <2>1, <2>2, <3>1 DEF s
    <3>2. CASE c \in 1 .. j
      BY <1>3, <1>4, <1>16, <2>1, <3>2
    <3> QED
      BY <1>5, <3>1, <3>2
  <2>4. SentUpTo(m)'
    BY <1>12, <1>15, <1>18, <2>3 DEF SentUpTo, FirstBytes, Command
  <2>5. Len(reports') <= commands' /\ commands' = Len(reports')
    BY <1>3, <2>1
  <2> QED
    BY <1>13, <1>18, <2>4, <2>5 DEF ReportsInv
<1> QED
  BY <1>17, <1>18

\* A Write returns FALSE, or TRUE with nothing left, and sends no more.
LEMMA WriteEnds ==
  ASSUME TypeOK, ReportsInv, Writing, NEW v \in BOOLEAN, Reports(v), v => writeBuf = <<>>,
         commands' = commands, Sent' = Sent
  PROVE  ReportsInv'
<1>1. writeBuf \in Seq(Nat) /\ Len(writeBuf) \in Nat /\ reports \in Seq(BOOLEAN) /\ Len(reports) \in Nat
      /\ Sent \in Seq(Nat)
  BY ConcatProperties, LenProperties DEF TypeOK, Sent
<1>2. 0 \in 0 .. Len(writeBuf) /\ SubSeq(writeBuf, 1, 0) = <<>>
  BY <1>1, NothingOf
<1>3. Sent' = Sent \o SubSeq(writeBuf, 1, 0)
  BY <1>1, <1>2, FlattenBytes
<1>4. v => 0 = Len(writeBuf)
  BY EmptySeq
<1>5. ~Writing' /\ reports' = Append(reports, v)
  BY DEF Reports, Return, Writing, LinuxWriting, WindowsWriting
<1>6. reports' # reports
  BY <1>1, <1>5, AppendDiffers
<1>7. \E u \in BOOLEAN : reports' = Append(reports, u) /\ (u => 0 = Len(writeBuf))
  BY <1>4, <1>5
<1> QED
  BY <1>2, <1>3, <1>5, <1>6, <1>7, SendsMore

LEMMA WriteFailsReports ==
  ASSUME TypeOK, ReportsInv, Writing, WriteFails
  PROVE  ReportsInv'
<1>1. Reports(FALSE) /\ commands' = commands /\ Sent' = Sent
  BY DEF WriteFails, browserVars, Sent
<1> QED
  BY <1>1, WriteEnds

\* The pipe takes a part of the command, or all that is left of it.
LEMMA WriteMoves ==
  ASSUME TypeOK, ReportsInv, Writing, MovesBytes, heard' = heard, commands' = commands,
         \/ UNCHANGED <<pc, reports>>
         \/ writeBuf' = <<>> /\ Reports(TRUE)
  PROVE  ReportsInv'
<1>1. PICK k \in 0 .. Len(writeBuf) :
        /\ Sent' = Sent \o SubSeq(writeBuf, 1, k)
        /\ writeBuf' = SubSeq(writeBuf, k + 1, Len(writeBuf))
  BY MovesBytesSent
<1>2. CASE UNCHANGED <<pc, reports>>
  <2>1. Writing'
    BY <1>2 DEF Writing
  <2> QED
    BY <1>1, <1>2, <2>1, SendsMore
<1>3. CASE writeBuf' = <<>> /\ Reports(TRUE)
  <2>1. writeBuf \in Seq(Nat) /\ Len(writeBuf) \in Nat /\ reports \in Seq(BOOLEAN) /\ Len(reports) \in Nat
    BY LenProperties DEF TypeOK
  <2>2. Len(writeBuf') = Len(writeBuf) - k
    BY <1>1, <2>1, CutInTwo
  <2>3. k = Len(writeBuf)
    BY <1>3, <2>1, <2>2, EmptySeq
  <2>4. ~Writing' /\ reports' = Append(reports, TRUE)
    BY <1>3 DEF Reports, Return, Writing, LinuxWriting, WindowsWriting
  <2>5. reports' # reports
    BY <2>1, <2>4, AppendDiffers
  <2>6. \E u \in BOOLEAN : reports' = Append(reports, u) /\ (u => k = Len(writeBuf))
    BY <2>3, <2>4
  <2> QED
    BY <1>1, <2>4, <2>5, <2>6, SendsMore
<1> QED
  BY <1>2, <1>3

LEMMA ReportsInvStep == PipeInv /\ ReportsInv /\ [Next]_vars => ReportsInv'
<1> SUFFICES ASSUME PipeInv, ReportsInv, [Next]_vars PROVE ReportsInv'
  OBVIOUS
<1>0. TypeOK
  BY DEF PipeInv
<1> USE DEF program, readVars, timeVars, writeVars, browserVars
<1> USE DEF Writing, LinuxWriting, WindowsWriting
<1>1. CASE UNCHANGED vars
  BY <1>1, StillReported DEF vars, Sent
<1>2. CASE ReadFromQueue
  BY <1>2, StillReported DEF ReadFromQueue, Return, Sent
<1>3. CASE LinuxReadStarts \/ ReadSelected \/ ReadEnd \/ ReadInterrupted \/ WriteSelected \/ WriteInterrupted \/ WriteBroken
  BY <1>3, StillReported DEF LinuxReadStarts, StartsRead, ReadSelected, ReadEnd, ReadInterrupted, WriteSelected,
       WriteInterrupted, WriteBroken, Goes, Sent
<1>4. CASE \/ \E ms \in Settings : LinuxSetTimeout(ms) \/ WindowsSetTimeout(ms) \/ NodeSetTimeout(ms)
           \/ SecondPasses \/ ReadChunk \/ SplitNothing \/ SplitMessages \/ SplitNoMessage
  BY <1>4, StillReported DEF LinuxSetTimeout, WindowsSetTimeout, NodeSetTimeout, SetsTimeout, SecondPasses,
       SelectWaits, ReadChunk, SplitNothing, SplitMessages, SplitNoMessage, Delivers, Return, Sent
<1>5. CASE BrowserWrites \/ BrowserDies
  BY <1>5, StillReported DEF BrowserWrites, BrowserDies, Sent
<1>6. CASE BrowserReads
  <2>1. Sent' = Sent
    BY <1>0, <1>6, BrowserReadsSent
  <2> QED
    BY <1>6, <2>1, StillReported DEF BrowserReads
<1>7. CASE LinuxWriteStarts \/ WindowsWriteStarts \/ NodeWriteStarts
  BY <1>0, <1>7, OneMoreCommand DEF LinuxWriteStarts, WindowsWriteStarts, NodeWriteStarts, WriteBegins, StartsWrite, Sent
<1>8. CASE WindowsWriteCannot
  BY <1>0, <1>8, OneMoreCommand DEF WindowsWriteCannot, StartsWrite, Reports, Return, Sent
<1>9. CASE SelectTimesOut \/ SelectInterrupted
  <2>1. CASE pc = "writeSelect" /\ WriteFails
    BY <1>0, <2>1, WriteFailsReports
  <2>2. CASE pc = "readSelect" /\ ReadFails
    BY <2>2, StillReported DEF ReadFails, Return, Sent
  <2> QED
    BY <1>9, <2>1, <2>2 DEF SelectTimesOut, SelectInterrupted, GivesUp
<1>10. CASE WindowsWriteBroken \/ WindowsWriteCancels \/ NodeWriteThrows
  BY <1>0, <1>10, WriteFailsReports DEF WindowsWriteBroken, WindowsWriteCancels, NodeWriteThrows
<1>11. CASE WriteBytes \/ NodeWriteBytes
  BY <1>0, <1>11, WriteMoves DEF WriteBytes, NodeWriteBytes
<1>12. CASE WindowsWriteGoesOn
  BY <1>0, <1>12, WriteMoves DEF WindowsWriteGoesOn
<1>13. CASE WindowsWriteCompletes
  <2>1. Reports(TRUE) /\ writeBuf = <<>> /\ commands' = commands /\ Sent' = Sent /\ Writing
    BY <1>13 DEF WindowsWriteCompletes, Sent
  <2> QED
    BY <1>0, <2>1, WriteEnds
<1>14. CASE WindowsLaunch \/ WindowsExit
  BY <1>14, StillReported DEF WindowsLaunch, WindowsExit, Return, Sent
<1>15. CASE WindowsReadStarts \/ WindowsReadTimesOut \/ WindowsWriteTimesOut \/ NodeReadStarts
  BY <1>15, StillReported DEF WindowsReadStarts, StartsRead, WindowsReadTimesOut, WindowsWriteTimesOut,
       NodeReadStarts, Goes, Sent
<1>16. CASE WindowsReadCannot \/ WindowsReadBroken \/ WindowsReadCancels \/ NodeReadNothing
  BY <1>16, StillReported DEF WindowsReadCannot, StartsRead, WindowsReadBroken, WindowsReadCancels,
       NodeReadNothing, NodeMeetsEnd, ReadFails, Return, Sent
<1>17. CASE WindowsReadChunk \/ NodeReadChunk
  BY <1>17, StillReported DEF WindowsReadChunk, NodeReadChunk, Delivers, Return, Sent
<1>18. CASE NodeReadThrows \/ NodeReadRest
  BY <1>18, StillReported DEF NodeReadThrows, NodeReadRest, NodeMeetsEnd, Delivers, Return, Sent
<1> QED
  BY <1>1, <1>2, <1>3, <1>4, <1>5, <1>6, <1>7, <1>8, <1>9, <1>10, <1>11, <1>12, <1>13, <1>14, <1>15, <1>16, <1>17, <1>18
     DEF Next, StartCall, CallStep, BrowserStep, LinuxStarts, LinuxStep, WindowsStarts, WindowsStep, NodeStarts, NodeStep

(* In every port what a Write reports is what it did: one that returned true has sent
   its whole command, the others a beginning of theirs, and the pipe holds nothing
   else, for commands and pipes of every size. *)
THEOREM WritesReported == Spec => []CommandsAsReported
<1>1. Init => ReportsInv
  <2> SUFFICES ASSUME Init PROVE ReportsInv
    OBVIOUS
  <2> DEFINE n == [c \in 1 .. 0 |-> 0]
  <2>1. Sent = <<>> /\ commands = 0 /\ reports = <<>> /\ ~Writing
    BY ConcatEmptySeq, EmptySeq DEF Init, Sent, Writing, LinuxWriting, WindowsWriting
  <2>2. 1 .. 0 = {} /\ Len(reports) = 0 /\ DOMAIN reports = {}
    BY <2>1
  <2>3. n \in [1 .. commands -> 0 .. LongestCommand]
    BY <2>1, <2>2
  <2>4. FirstBytes(n, commands) = <<>>
    <3>1. FirstBytes(n, 0) \in Seq(Nat) /\ Len(FirstBytes(n, 0)) = 0
      BY <2>2 DEF FirstBytes
    <3> QED
      BY <2>1, <3>1, EmptySeq
  <2>5. SentUpTo(n)
    BY <2>1, <2>2, <2>4, FlattenBytes DEF SentUpTo
  <2>6. \E m \in [1 .. commands -> 0 .. LongestCommand] : SentUpTo(m)
    <3> HIDE DEF n
    <3> QED
      BY <2>3, <2>5
  <2>7. Len(reports) = commands /\ Len(reports) <= commands
    BY <2>1, <2>2
  <2> HIDE DEF n
  <2> QED
    BY <2>1, <2>6, <2>7 DEF ReportsInv
<1>2. ReportsInv => CommandsAsReported
  BY DEF ReportsInv, SentUpTo, FirstBytes, CommandsAsReported
<1> QED
  BY <1>1, <1>2, ReportsInvStep, PipeInvHolds, PTL DEF Spec

-----------------------------------------------------------------------------
(* Messages and their ends in a part of the stream. *)

LEMMA EndsAreNul ==
  ASSUME NEW n \in Nat, n + 1 <= Messages
  PROVE  /\ Stream[End(n + 1)] = NUL /\ End(n + 1) \in Nat /\ End(n) \in Nat
         /\ End(n + 1) = End(n) + MessageSize[n + 1] + 1
         /\ MessageSize[n + 1] \in Nat /\ MessageSize[n + 1] > 0 /\ End(n + 1) <= Len(Stream)
<1>1. /\ Messages \in Nat /\ n + 1 \in 1 .. Messages /\ n + 1 \in 0 .. Messages /\ n <= Messages
      /\ Messages \in 0 .. Messages
  BY MessageSizes
<1>2. MessageSize[n + 1] \in Nat /\ MessageSize[n + 1] > 0
  BY <1>1, MessageSizes
<1>3. End(n) \in Nat /\ End(n + 1) = End(n) + MessageSize[n + 1] + 1
  BY <1>1, EndStep
<1>4. MessageSize[n + 1] + 1 \in 1 .. MessageSize[n + 1] + 1 /\ ~(MessageSize[n + 1] + 1 <= MessageSize[n + 1])
  BY <1>2
<1>5. Stream[End(n) + (MessageSize[n + 1] + 1)] = NUL
  BY <1>4, StreamLayout
<1>6. End(n + 1) <= Len(Stream)
  <2>1. End(n + 1) <= End(Messages)
    BY <1>1, EndMonotone
  <2> QED
    BY <2>1, StreamLayout
<1> QED
  BY <1>2, <1>3, <1>5, <1>6

\* Bytes a + 1 to w hold a NUL exactly when a message ends there.
LEMMA NulsOfPart ==
  ASSUME NEW a \in Nat, NEW w \in Nat, a <= w, w <= Len(Stream)
  PROVE  (\A j \in 1 .. w - a : Stream[a + j] # NUL) <=> Closed(a) = Closed(w)
<1>1. /\ Closed(a) \in Nat /\ Closed(w) \in Nat /\ Closed(a) <= Closed(w) /\ Len(Stream) \in Nat
      /\ a \in 0 .. Len(Stream) /\ w \in 0 .. Len(Stream)
  BY ClosedMonotone, StreamLayout, LenProperties
<1>2. Ended(a, Closed(a)) /\ Ended(w, Closed(w))
  BY <1>1, ClosedIs
<1>3. ASSUME Closed(a) # Closed(w)
      PROVE  \E j \in 1 .. w - a : Stream[a + j] = NUL
  <2> DEFINE e == End(Closed(a) + 1)
  <2>1. Closed(a) + 1 <= Closed(w) /\ Closed(w) <= Messages /\ Messages \in Nat /\ Closed(a) < Messages
    BY <1>1, <1>2, <1>3, MessageSizes DEF Ended
  <2>2. Stream[e] = NUL /\ e \in Nat
    BY <1>1, <2>1, EndsAreNul
  <2>3. a < e
    BY <1>2, <2>1 DEF Ended
  <2>4. e <= End(Closed(w)) /\ End(Closed(w)) \in Nat
    <3>1. Closed(a) + 1 \in 0 .. Messages /\ Closed(w) \in 0 .. Messages
      BY <1>1, <2>1
    <3> QED
      BY <2>1, <3>1, EndMonotone
  <2>5. End(Closed(w)) <= w
    BY <1>2 DEF Ended
  <2> HIDE DEF e
  <2>6. e - a \in 1 .. w - a /\ a + (e - a) = e
    BY <2>2, <2>3, <2>4, <2>5
  <2> QED
    BY <2>2, <2>6
<1>4. ASSUME NEW j \in 1 .. w - a, Stream[a + j] = NUL
      PROVE  Closed(a) # Closed(w)
  <2>1. a + j \in Nat /\ a < a + j /\ a + j <= w /\ a + j <= Len(Stream)
    BY <1>1
  <2>2. Closed(a) < Closed(a + j)
    BY <1>4, <2>1, EndsWithMessage
  <2>3. Closed(a + j) \in Nat /\ Closed(a + j) <= Closed(w)
    BY <2>1, ClosedMonotone
  <2> QED
    BY <1>1, <2>2, <2>3
<1> QED
  BY <1>3, <1>4

(* The message that comes next has lost its beginning: the bytes up to a, which are gone,
   end inside it, and those up to w do not end it. *)
Cut(a, w) == End(Closed(a)) # a /\ Closed(a) = Closed(w)

LEMMA InsideMessage ==
  ASSUME NEW a \in Nat, a <= Len(Stream)
  PROVE  a > 0 /\ Stream[a] # NUL <=> End(Closed(a)) # a
<1>1. a \in 0 .. Len(Stream) /\ Len(Stream) \in Nat
  BY StreamLayout, LenProperties
<1>2. CASE a = 0
  <2>1. 0 \in 0 .. Messages /\ End(0) = 0
    BY MessageSizes, EndStep
  <2>2. Closed(End(0)) = 0
    BY <2>1, ClosedEnd
  <2> QED
    BY <1>2, <2>1, <2>2
<1>3. CASE a > 0 /\ Stream[a] = NUL
  <2>1. 0 \in Nat /\ 0 < a
    BY <1>3
  <2> QED
    BY <1>3, <2>1, EndsWithMessage
<1>4. CASE a > 0 /\ Stream[a] # NUL
  <2>1. SUFFICES ASSUME End(Closed(a)) = a  PROVE FALSE
    BY <1>4
  <2>2. Ended(a, Closed(a))
    BY <1>1, ClosedIs
  <2>3. Closed(a) # 0
    BY <1>4, <2>1, EndStep
  <2>4. PICK n \in Nat : Closed(a) = n + 1
    <3>1. Closed(a) - 1 \in Nat /\ Closed(a) = (Closed(a) - 1) + 1
      BY <2>2, <2>3, MessageSizes DEF Ended
    <3> QED
      BY <3>1
  <2>5. n + 1 <= Messages
    BY <2>2, <2>4, MessageSizes DEF Ended
  <2>6. Stream[End(n + 1)] = NUL
    BY <2>5, EndsAreNul
  <2> QED
    BY <1>4, <2>1, <2>4, <2>6
<1> QED
  BY <1>2, <1>3, <1>4

\* The strings of a shorter part of the stream are the last ones of a longer one's.
LEMMA SameString ==
  ASSUME NEW a \in Nat, NEW b \in Nat, NEW w \in Nat, a <= b, b <= w, w <= Len(Stream),
         NEW d \in Nat, Closed(b) = Closed(a) + d,
         NEW k \in 1 .. Closed(w) - Closed(b), k > 1 \/ End(Closed(b)) = b
  PROVE  StringAt(b, k) = StringAt(a, d + k)
<1>1. /\ Closed(a) \in Nat /\ Closed(b) \in Nat /\ Closed(w) \in Nat
      /\ b \in 0 .. Len(Stream) /\ w \in 0 .. Len(Stream)
  BY ClosedMonotone, StreamLayout, LenProperties
<1>2. Ended(b, Closed(b)) /\ Ended(w, Closed(w))
  BY <1>1, ClosedIs
<1>3. PICK n \in Nat : n = Closed(b) + k - 1
  BY <1>1
<1>4. /\ Closed(a) + (d + k) - 1 = n /\ Closed(a) + (d + k) = n + 1 /\ Closed(b) + k = n + 1
      /\ n + 1 <= Messages /\ n \in 0 .. Messages
      /\ Closed(b) <= n /\ (k > 1 => Closed(b) + 1 <= n)
  <2>1. Messages \in Nat /\ Closed(w) <= Messages
    BY <1>2, MessageSizes DEF Ended
  <2>2. Closed(b) + k = n + 1 /\ n + 1 <= Closed(w) /\ k \in Nat
    BY <1>1, <1>3, SMTT(30)
  <2>3. Closed(a) + (d + k) = Closed(b) + k
    BY <1>1, <2>2
  <2>4. n + 1 <= Messages /\ n \in 0 .. Messages
    BY <1>1, <2>1, <2>2
  <2>5. Closed(b) <= n /\ (k > 1 => Closed(b) + 1 <= n)
    BY <1>1, <2>2, SMTT(30)
  <2>6. PICK x \in Nat : x = Closed(a) + (d + k)
    BY <1>1, <2>2
  <2>7. x = n + 1 /\ x - 1 = n
    BY <2>2, <2>3, <2>6
  <2>8. Closed(a) + (d + k) - 1 = n /\ Closed(a) + (d + k) = n + 1
    BY <1>1, <2>2, <2>6, <2>7, SMTT(30)
  <2> QED
    BY <2>2, <2>4, <2>5, <2>8, Zenon
<1>5. b <= End(n) /\ End(n) \in Nat
  <2>1. End(n) \in Nat
    BY <1>4, EndMonotone
  <2>2. CASE k > 1
    <3>1. Closed(b) + 1 \in 0 .. Messages /\ Closed(b) < Messages
      <4>1. Closed(b) + 1 <= n /\ n + 1 <= Messages /\ Messages \in Nat
        BY <1>4, <2>2, MessageSizes
      <4> QED
        BY <1>1, <4>1, SMTT(30)
    <3>2. End(Closed(b) + 1) <= End(n) /\ b < End(Closed(b) + 1) /\ End(Closed(b) + 1) \in Nat
      BY <1>2, <1>4, <2>2, <3>1, EndMonotone DEF Ended
    <3> QED
      BY <2>1, <3>2
  <2>3. CASE End(Closed(b)) = b
    <3>1. Closed(b) \in 0 .. Messages
      BY <1>2 DEF Ended
    <3>2. End(Closed(b)) <= End(n)
      BY <1>4, <3>1, EndMonotone
    <3> QED
      BY <2>1, <2>3, <3>2
  <2> QED
    BY <2>2, <2>3
<1>6. From(b, n) = From(a, n)
  <2>1. \A e, x, y \in Nat : x <= y /\ y <= e =>
          (IF e < y THEN y ELSE e) = (IF e < x THEN x ELSE e)
    OBVIOUS
  <2> QED
    BY <1>5, <2>1 DEF From
<1> QED
  BY <1>3, <1>4, <1>6 DEF StringAt

LEMMA SplitAtEnd ==
  ASSUME NEW a \in Nat, NEW b \in Nat, NEW w \in Nat, a <= b, b <= w, w <= Len(Stream),
         End(Closed(b)) = b
  PROVE  /\ Split(Part(a, w)) = Split(Part(a, b)) \o Split(Part(b, w))
         /\ Split(Part(a, b)) \in Seq(Seq(Nat)) /\ Split(Part(b, w)) \in Seq(Seq(Nat))
<1> DEFINE x == Split(Part(a, b))
           y == Split(Part(b, w))
           z == Split(Part(a, w))
<1>1. /\ Closed(a) \in Nat /\ Closed(b) \in Nat /\ Closed(w) \in Nat
      /\ Closed(a) <= Closed(b) /\ Closed(b) <= Closed(w)
  <2>1. b <= Len(Stream) /\ Len(Stream) \in Nat
    BY StreamLayout, LenProperties
  <2> QED
    BY <2>1, ClosedMonotone
<1>2. /\ x \in Seq(Seq(Nat)) /\ Len(x) = Closed(b) - Closed(a) /\ \A k \in 1 .. Len(x) : x[k] = StringAt(a, k)
  <2>1. b <= Len(Stream)
    BY StreamLayout, LenProperties
  <2> QED
    BY <2>1, SplitOfPart
<1>3. /\ y \in Seq(Seq(Nat)) /\ Len(y) = Closed(w) - Closed(b) /\ \A k \in 1 .. Len(y) : y[k] = StringAt(b, k)
  BY SplitOfPart
<1>4. /\ z \in Seq(Seq(Nat)) /\ Len(z) = Closed(w) - Closed(a) /\ \A k \in 1 .. Len(z) : z[k] = StringAt(a, k)
  <2>1. a <= w
    OBVIOUS
  <2> QED
    BY <2>1, SplitOfPart
<1> HIDE DEF x, y, z
<1>5. PICK d \in Nat : Closed(b) = Closed(a) + d /\ d = Len(x)
  BY <1>1, <1>2
<1>6. PICK e \in Nat : e = Len(y) /\ Len(z) = d + e
  BY <1>1, <1>2, <1>3, <1>4, <1>5, SMTT(30)
<1>7. /\ x \o y \in Seq(Seq(Nat)) /\ Len(x \o y) = d + e
      /\ \A k \in 1 .. d + e : (x \o y)[k] = IF k <= d THEN x[k] ELSE y[k - d]
  <2>1. /\ x \o y \in Seq(Seq(Nat)) /\ Len(x \o y) = Len(x) + Len(y)
        /\ \A k \in 1 .. Len(x) + Len(y) : (x \o y)[k] = IF k <= Len(x) THEN x[k] ELSE y[k - Len(x)]
    BY <1>2, <1>3, ConcatProperties, ZenonT(60)
  <2> QED
    BY <1>5, <1>6, <2>1
<1>8. \A k \in 1 .. Len(z) : z[k] = (x \o y)[k]
  <2> SUFFICES ASSUME NEW k \in 1 .. d + e  PROVE z[k] = (x \o y)[k]
    BY <1>6
  <2>1. z[k] = StringAt(a, k)
    BY <1>4, <1>6
  <2>2. CASE k <= d
    <3>1. x[k] = StringAt(a, k)
      BY <1>2, <1>5, <2>2
    <3> QED
      BY <1>7, <2>1, <2>2, <3>1
  <2>3. CASE ~(k <= d)
    <3>1. PICK i \in 1 .. e : k = d + i /\ k - d = i
      <4>1. k - d \in 1 .. e /\ k = d + (k - d)
        BY <2>3
      <4> QED
        BY <4>1
    <3>2. y[i] = StringAt(b, i)
      BY <1>3, <1>6
    <3>3. i \in 1 .. Closed(w) - Closed(b)
      BY <1>3, <1>6
    <3>4. StringAt(b, i) = StringAt(a, d + i)
      BY <1>5, <3>3, SameString
    <3> QED
      BY <1>7, <2>1, <2>3, <3>1, <3>2, <3>4
  <2> QED
    BY <2>2, <2>3
<1>9. z = x \o y
  BY <1>4, <1>6, <1>7, <1>8, SeqEqual
<1> QED
  BY <1>2, <1>3, <1>9 DEF x, y, z

\* How long a string of a part is, and when it is a whole message.
LEMMA StringLength ==
  ASSUME NEW a \in Nat, NEW w \in Nat, a <= w, w <= Len(Stream),
         NEW k \in 1 .. Closed(w) - Closed(a)
  PROVE  /\ Closed(a) + k \in 1 .. Messages
         /\ Len(StringAt(a, k)) = End(Closed(a) + k) - 1 - From(a, Closed(a) + k - 1)
         /\ k > 1 \/ End(Closed(a)) = a => StringAt(a, k) = Payload(Closed(a) + k)
<1>1. /\ Closed(a) \in Nat /\ Closed(w) \in Nat /\ Closed(a) <= Closed(w)
      /\ a \in 0 .. Len(Stream) /\ w \in 0 .. Len(Stream) /\ Len(Stream) \in Nat
  BY ClosedMonotone, StreamLayout, LenProperties
<1>2. Ended(a, Closed(a)) /\ Ended(w, Closed(w))
  BY <1>1, ClosedIs
<1>3. PICK n \in Nat : n = Closed(a) + k - 1 /\ n + 1 = Closed(a) + k
  <2>1. Closed(a) + k - 1 \in Nat /\ (Closed(a) + k - 1) + 1 = Closed(a) + k
    BY <1>1
  <2> QED
    BY <2>1
<1>4. /\ n + 1 <= Messages /\ n \in 0 .. Messages /\ n + 1 \in 1 .. Messages
      /\ Closed(a) <= n /\ (k > 1 => Closed(a) + 1 <= n) /\ (k = 1 => n = Closed(a))
  <2>1. Messages \in Nat /\ Closed(w) <= Messages
    BY <1>2, MessageSizes DEF Ended
  <2>2. n + 1 <= Closed(w) /\ k \in Nat
    BY <1>1, <1>3
  <2>3. n + 1 <= Messages /\ n \in 0 .. Messages /\ n + 1 \in 1 .. Messages
    BY <1>1, <2>1, <2>2
  <2>4. Closed(a) <= n /\ (k > 1 => Closed(a) + 1 <= n) /\ (k = 1 => n = Closed(a))
    BY <1>1, <1>3, <2>2
  <2> QED
    BY <2>3, <2>4
<1>5. /\ End(n + 1) \in Nat /\ End(n) \in Nat /\ End(n + 1) = End(n) + MessageSize[n + 1] + 1
      /\ MessageSize[n + 1] \in Nat /\ MessageSize[n + 1] > 0 /\ End(n + 1) <= Len(Stream)
  BY <1>4, EndsAreNul
<1>6. a < End(n + 1)
  <2>1. Closed(a) + 1 \in 0 .. Messages /\ Closed(a) < Messages /\ n + 1 \in 0 .. Messages
        /\ Closed(a) + 1 <= n + 1
    BY <1>1, <1>4, MessageSizes, SMTT(30)
  <2>2. End(Closed(a) + 1) <= End(n + 1) /\ a < End(Closed(a) + 1) /\ End(Closed(a) + 1) \in Nat
    BY <1>2, <2>1, EndMonotone DEF Ended
  <2> QED
    BY <1>5, <2>2
<1>7. /\ From(a, n) \in Nat /\ From(a, n) <= End(n + 1) - 1 /\ End(n + 1) - 1 \in Nat
      /\ End(n + 1) - 1 <= Len(Stream)
  <2>1. \A e, f, x, s \in Nat : x < f /\ e < f /\ f <= s =>
          LET m == IF e < x THEN x ELSE e
          IN  m \in Nat /\ m <= f - 1 /\ f - 1 \in Nat /\ f - 1 <= s
    OBVIOUS
  <2>2. End(n) < End(n + 1)
    BY <1>5
  <2> QED
    BY <1>1, <1>5, <1>6, <2>1, <2>2 DEF From
<1>8. StringAt(a, k) = Part(From(a, n), End(n + 1) - 1)
  BY <1>3 DEF StringAt
<1>9. Len(StringAt(a, k)) = End(n + 1) - 1 - From(a, n)
  BY <1>7, <1>8, PartStep
<1>10. Piece(StringAt(a, k), n + 1)
  BY <1>3, StringIsPiece
<1>11. ASSUME k > 1 \/ End(Closed(a)) = a  PROVE From(a, n) = End(n)
  <2>1. CASE k > 1
    <3>1. Closed(a) + 1 \in 0 .. Messages /\ Closed(a) < Messages /\ n \in 0 .. Messages
          /\ Closed(a) + 1 <= n
      BY <1>1, <1>4, <2>1, MessageSizes
    <3>2. End(Closed(a) + 1) <= End(n) /\ a < End(Closed(a) + 1) /\ End(Closed(a) + 1) \in Nat
      BY <1>2, <3>1, EndMonotone DEF Ended
    <3> QED
      BY <1>5, <3>2 DEF From
  <2>2. CASE k = 1 /\ End(Closed(a)) = a
    <3>1. n = Closed(a)
      BY <1>4, <2>2
    <3> QED
      BY <2>2, <3>1 DEF From
  <2> QED
    BY <1>11, <2>1, <2>2
<1>12. ASSUME k > 1 \/ End(Closed(a)) = a  PROVE StringAt(a, k) = Payload(n + 1)
  <2>1. Len(StringAt(a, k)) = MessageSize[n + 1]
    BY <1>5, <1>9, <1>11, <1>12, SMTT(30)
  <2> QED
    BY <1>4, <1>10, <2>1, PayloadIsPiece
<1> QED
  BY <1>3, <1>4, <1>9, <1>12

LEMMA PieceIsFragment ==
  ASSUME NEW m, NEW s, Piece(s, m)
  PROVE  s \in Fragments
<1> DEFINE size == MessageSize[m]
           j == size - Len(s) + 1
           p == Payload(m)
<1>1. /\ m \in 1 .. Messages /\ s \in Seq(Nat) /\ Len(s) \in Nat /\ Len(s) <= size
      /\ \A i \in 1 .. Len(s) : s[i] = m
  BY LenProperties DEF Piece
<1>2. size \in Nat /\ m \in DOMAIN MessageSize /\ Messages \in Nat
  BY <1>1, MessageSizes
<1>3. p \in Seq(Nat) /\ Len(p) = size /\ \A i \in 1 .. size : p[i] = m
  BY <1>1, PayloadIs
<1>4. j \in 1 .. Len(Stream)
  <2>1. PICK n \in Nat : m = n + 1
    <3>1. m - 1 \in Nat /\ m = (m - 1) + 1
      BY <1>1
    <3> QED
      BY <3>1
  <2>2. /\ End(n) \in Nat /\ End(m) = End(n) + size + 1 /\ End(m) <= Len(Stream)
    BY <1>1, <1>2, <2>1, EndsAreNul
  <2>3. Len(Stream) \in Nat
    BY StreamLayout, LenProperties
  <2>4. \A l, z, e, f \in Nat : l <= z /\ e + z + 1 <= f => z - l + 1 \in 1 .. f
    OBVIOUS
  <2> QED
    BY <1>1, <1>2, <2>2, <2>3, <2>4
<1>5. j \in Int /\ size \in Int /\ \A i \in j .. size : p[i] \in Nat
  BY <1>1, <1>2, <1>3
<1> HIDE DEF p, size
<1>6. /\ SubSeq(p, j, size) \in Seq(Nat)
      /\ Len(SubSeq(p, j, size)) = (IF j <= size THEN size - j + 1 ELSE 0)
      /\ \A i \in 1 .. size - j + 1 : SubSeq(p, j, size)[i] = p[j + i - 1]
  BY <1>5, SubSeqProperties, SMTT(30)
<1>7. Len(SubSeq(p, j, size)) = Len(s)
  BY <1>1, <1>2, <1>6
<1>8. \A i \in 1 .. Len(s) : SubSeq(p, j, size)[i] = s[i]
  <2> SUFFICES ASSUME NEW i \in 1 .. Len(s)  PROVE SubSeq(p, j, size)[i] = s[i]
    OBVIOUS
  <2>1. i \in 1 .. size - j + 1 /\ j + i - 1 \in 1 .. size
    BY <1>1, <1>2
  <2>2. SubSeq(p, j, size)[i] = p[j + i - 1]
    BY <1>6, <2>1
  <2>3. p[j + i - 1] = m /\ s[i] = m
    BY <1>1, <1>3, <2>1
  <2> QED
    BY <2>2, <2>3
<1>9. SubSeq(p, j, size) = s
  BY <1>1, <1>6, <1>7, <1>8, SeqEqual
<1>10. m \in DOMAIN MessageSize
  BY <1>2
<1>11. s = SubSeq(Payload(m), j, MessageSize[m])
  BY <1>9 DEF p, size
<1> HIDE DEF j
<1> DEFINE Rest(x, y) == SubSeq(Payload(x), y, MessageSize[x])
<1>12. Fragments = {Rest(x, y) : x \in DOMAIN MessageSize, y \in 1 .. Len(Stream)}
  BY DEF Fragments
<1>13. s = Rest(m, j)
  BY <1>11
<1> HIDE DEF Rest
<1> QED
  BY <1>4, <1>10, <1>12, <1>13

LEMMA FragmentType ==
  ASSUME NEW s \in Fragments
  PROVE  s \in Seq(Nat)
<1> DEFINE Rest(x, y) == SubSeq(Payload(x), y, MessageSize[x])
<1>1. Fragments = {Rest(x, y) : x \in DOMAIN MessageSize, y \in 1 .. Len(Stream)}
  BY DEF Fragments
<1>2. \A x \in DOMAIN MessageSize, y \in 1 .. Len(Stream) : Rest(x, y) \in Seq(Nat)
  <2> SUFFICES ASSUME NEW x \in DOMAIN MessageSize, NEW y \in 1 .. Len(Stream)  PROVE Rest(x, y) \in Seq(Nat)
    OBVIOUS
  <2>1. /\ Payload(x) \in Seq(Nat) /\ Len(Payload(x)) = MessageSize[x]
        /\ \A i \in 1 .. MessageSize[x] : Payload(x)[i] = x
        /\ MessageSize[x] \in Nat /\ x \in Nat /\ y \in Nat /\ y > 0
    BY PayloadIs, MessageSizes, SMTT(30)
  <2>2. y \in Int /\ MessageSize[x] \in Int /\ \A i \in y .. MessageSize[x] : Payload(x)[i] \in Nat
    BY <2>1
  <2> QED
    BY <2>2, SubSeqProperties, SMTT(30)
<1> HIDE DEF Rest
<1>3. PICK x \in DOMAIN MessageSize, y \in 1 .. Len(Stream) : s = Rest(x, y)
  BY <1>1
<1> QED
  BY <1>2, <1>3

\* What Drop leaves of the strings c.
Dropped(c, l) ==
  \E k \in 0 .. Len(c) :
    \/ l = SubSeq(c, k + 1, Len(c))
    \/ /\ k < Len(c)
       /\ \E f \in Fragments : IsSuffix(f, c[k + 1]) /\ l = <<f>> \o SubSeq(c, k + 2, Len(c))

(* Bytes are lost up to b: the strings of what is left are the last ones, but the first
   of them has perhaps lost its beginning. *)
LEMMA DropsStrings ==
  ASSUME NEW a \in Nat, NEW b \in Nat, NEW w \in Nat, a <= b, b <= w, w <= Len(Stream)
  PROVE  Dropped(Split(Part(a, w)), Split(Part(b, w)))
<1> DEFINE c == Split(Part(a, w))
           l == Split(Part(b, w))
<1> SUFFICES Dropped(c, l)
  OBVIOUS
<1>1. /\ Closed(a) \in Nat /\ Closed(b) \in Nat /\ Closed(w) \in Nat
      /\ Closed(a) <= Closed(b) /\ Closed(b) <= Closed(w)
      /\ b <= Len(Stream) /\ Len(Stream) \in Nat /\ a <= w
  <2>1. b <= Len(Stream) /\ Len(Stream) \in Nat /\ a <= w
    BY StreamLayout, LenProperties
  <2> QED
    BY <2>1, ClosedMonotone
<1>2. /\ c \in Seq(Seq(Nat)) /\ Len(c) = Closed(w) - Closed(a) /\ \A i \in 1 .. Len(c) : c[i] = StringAt(a, i)
  BY <1>1, SplitOfPart
<1>3. /\ l \in Seq(Seq(Nat)) /\ Len(l) = Closed(w) - Closed(b) /\ \A i \in 1 .. Len(l) : l[i] = StringAt(b, i)
  BY SplitOfPart
<1> HIDE DEF c, l
<1>4. PICK k \in Nat : Closed(b) = Closed(a) + k
  <2>1. Closed(b) - Closed(a) \in Nat /\ Closed(b) = Closed(a) + (Closed(b) - Closed(a))
    BY <1>1
  <2> QED
    BY <2>1
<1>5. PICK n \in Nat : n = Len(l) /\ Len(c) = k + n /\ Closed(w) - Closed(b) = n
  <2>1. Len(l) \in Nat /\ Len(c) = k + Len(l)
    BY <1>1, <1>2, <1>3, <1>4, SMTT(30)
  <2> QED
    BY <1>3, <2>1
<1>6. k \in 0 .. Len(c)
  BY <1>5
<1>7. CASE n = 0 \/ End(Closed(b)) = b
  <2>1. /\ SubSeq(c, k + 1, k + n) \in Seq(Seq(Nat))
        /\ Len(SubSeq(c, k + 1, k + n)) = (IF k + 1 <= k + n THEN (k + n) - (k + 1) + 1 ELSE 0)
        /\ \A i \in 1 .. (k + n) - (k + 1) + 1 : SubSeq(c, k + 1, k + n)[i] = c[(k + 1) + i - 1]
    <3>1. k + 1 \in Int /\ k + n \in Int /\ \A i \in k + 1 .. k + n : c[i] \in Seq(Nat)
      BY <1>2, <1>5
    <3> QED
      BY <3>1, SubSeqProperties, SMTT(30)
  <2>2. Len(SubSeq(c, k + 1, k + n)) = n
    BY <2>1
  <2>3. \A i \in 1 .. n : l[i] = SubSeq(c, k + 1, k + n)[i]
    <3> SUFFICES ASSUME NEW i \in 1 .. n  PROVE l[i] = SubSeq(c, k + 1, k + n)[i]
      OBVIOUS
    <3>1. i \in 1 .. (k + n) - (k + 1) + 1 /\ (k + 1) + i - 1 = k + i /\ k + i \in 1 .. k + n /\ n # 0
      OBVIOUS
    <3>2. SubSeq(c, k + 1, k + n)[i] = c[k + i]
      BY <2>1, <3>1
    <3>3. c[k + i] = StringAt(a, k + i) /\ l[i] = StringAt(b, i)
      BY <1>2, <1>3, <1>5, <3>1
    <3>4. i \in 1 .. Closed(w) - Closed(b)
      BY <1>5
    <3>5. StringAt(b, i) = StringAt(a, k + i)
      BY <1>4, <1>7, <3>1, <3>4, SameString
    <3> QED
      BY <3>2, <3>3, <3>5
  <2>4. l = SubSeq(c, k + 1, k + n)
    BY <1>3, <1>5, <2>1, <2>2, <2>3, SeqEqual
  <2> QED
    BY <1>2, <1>5, <1>6, <2>4 DEF Dropped
<1>8. CASE n # 0 /\ End(Closed(b)) # b
  <2> DEFINE f == StringAt(b, 1)
             r == SubSeq(c, k + 2, k + n)
  <2>1. 1 \in 1 .. n /\ k + 1 \in 1 .. k + n /\ k < k + n
    BY <1>8
  <2>2. 1 \in 1 .. Closed(w) - Closed(b) /\ k + 1 \in 1 .. Closed(w) - Closed(a)
    BY <1>2, <1>5, <2>1
  <2>3. Piece(f, Closed(b) + 1) /\ Piece(StringAt(a, k + 1), Closed(b) + 1)
    <3>1. Piece(StringAt(a, k + 1), Closed(a) + (k + 1))
      BY <1>1, <2>2, StringIsPiece
    <3>2. Closed(a) + (k + 1) = Closed(b) + 1
      BY <1>1, <1>4
    <3>3. Piece(f, Closed(b) + 1)
      BY <1>1, <2>2, StringIsPiece
    <3> QED
      BY <3>1, <3>2, <3>3
  <2>4. Len(f) <= Len(StringAt(a, k + 1))
    <3>1. Len(f) = End(Closed(b) + 1) - 1 - From(b, Closed(b) + 1 - 1)
      BY <1>1, <2>2, StringLength
    <3>2. Len(StringAt(a, k + 1)) = End(Closed(a) + (k + 1)) - 1 - From(a, Closed(a) + (k + 1) - 1)
      BY <1>1, <2>2, StringLength
    <3>3. /\ Closed(a) + (k + 1) = Closed(b) + 1 /\ Closed(b) + 1 - 1 = Closed(b)
          /\ Closed(a) + (k + 1) - 1 = Closed(b)
      BY <1>1, <1>4
    <3>4. Closed(b) + 1 <= Messages
      <4>1. Closed(b) + 1 \in 1 .. Messages
        BY <2>3 DEF Piece
      <4> QED
        BY <4>1, MessageSizes
    <3>5. End(Closed(b)) \in Nat /\ End(Closed(b) + 1) \in Nat
      BY <1>1, <3>4, EndsAreNul
    <3>6. From(b, Closed(b)) \in Nat /\ From(a, Closed(b)) \in Nat /\ From(a, Closed(b)) <= From(b, Closed(b))
      BY <3>5 DEF From
    <3>7. \A e, x, y \in Nat : y <= x => e - 1 - x <= e - 1 - y
      OBVIOUS
    <3> QED
      BY <3>1, <3>2, <3>3, <3>5, <3>6, <3>7
  <2>5. IsSuffix(f, StringAt(a, k + 1))
    BY <2>3, <2>4, PieceOfPiece
  <2>6. f \in Fragments /\ f \in Seq(Nat)
    BY <2>3, PieceIsFragment DEF Piece
  <2>7. c[k + 1] = StringAt(a, k + 1)
    BY <1>2, <1>5, <2>1
  <2>8. /\ r \in Seq(Seq(Nat))
        /\ Len(r) = (IF k + 2 <= k + n THEN (k + n) - (k + 2) + 1 ELSE 0)
        /\ \A i \in 1 .. (k + n) - (k + 2) + 1 : r[i] = c[(k + 2) + i - 1]
    <3>1. k + 2 \in Int /\ k + n \in Int /\ \A i \in k + 2 .. k + n : c[i] \in Seq(Nat)
      BY <1>2, <1>5
    <3> QED
      BY <3>1, SubSeqProperties, SMTT(30)
  <2> HIDE DEF f, r
  <2>9. <<f>> \in Seq(Seq(Nat)) /\ Len(<<f>>) = 1 /\ <<f>>[1] = f
    BY <2>6
  <2>10. Len(r) = n - 1
    BY <1>8, <2>8
  <2>11. /\ <<f>> \o r \in Seq(Seq(Nat)) /\ Len(<<f>> \o r) = n
         /\ \A i \in 1 .. n : (<<f>> \o r)[i] = IF i <= 1 THEN <<f>>[i] ELSE r[i - 1]
    <3>1. /\ <<f>> \o r \in Seq(Seq(Nat)) /\ Len(<<f>> \o r) = Len(<<f>>) + Len(r)
          /\ \A i \in 1 .. Len(<<f>>) + Len(r) :
               (<<f>> \o r)[i] = IF i <= Len(<<f>>) THEN <<f>>[i] ELSE r[i - Len(<<f>>)]
      BY <2>8, <2>9, ConcatProperties, ZenonT(60)
    <3>2. Len(<<f>>) + Len(r) = n
      BY <2>9, <2>10
    <3> QED
      BY <2>9, <3>1, <3>2
  <2>12. \A i \in 1 .. n : l[i] = (<<f>> \o r)[i]
    <3> SUFFICES ASSUME NEW i \in 1 .. n  PROVE l[i] = (<<f>> \o r)[i]
      OBVIOUS
    <3>1. l[i] = StringAt(b, i)
      BY <1>3, <1>5
    <3>2. CASE i = 1
      BY <2>9, <2>11, <3>1, <3>2 DEF f
    <3>3. CASE i > 1
      <4>1. i - 1 \in 1 .. (k + n) - (k + 2) + 1 /\ (k + 2) + (i - 1) - 1 = k + i /\ k + i \in 1 .. k + n
        BY <3>3
      <4>2. (<<f>> \o r)[i] = c[k + i]
        BY <2>8, <2>11, <3>3, <4>1
      <4>3. c[k + i] = StringAt(a, k + i)
        BY <1>2, <1>5, <4>1
      <4>4. StringAt(b, i) = StringAt(a, k + i)
        <5>1. i \in 1 .. Closed(w) - Closed(b)
          BY <1>5
        <5> QED
          BY <1>4, <3>3, <5>1, SameString
      <4> QED
        BY <3>1, <4>2, <4>3, <4>4
    <3> QED
      <4>1. i = 1 \/ i > 1
        OBVIOUS
      <4> QED
        BY <3>2, <3>3, <4>1
  <2>13. l = <<f>> \o r
    BY <1>3, <1>5, <2>11, <2>12, SeqEqual
  <2>14. /\ k < Len(c) /\ IsSuffix(f, c[k + 1]) /\ l = <<f>> \o SubSeq(c, k + 2, Len(c))
    BY <1>5, <2>1, <2>5, <2>7, <2>13 DEF r
  <2> QED
    BY <1>2, <1>6, <2>6, <2>14 DEF Dropped
<1> QED
  BY <1>7, <1>8

(* The browser writes up to the next NUL at most: it sends nothing, or one message, of
   which the reader may have lost the beginning. *)
LEMMA WritesOn ==
  ASSUME NEW a \in Nat, NEW w \in Nat, NEW v \in Nat, a <= w, w <= v, v <= Len(Stream),
         \A j \in 1 .. v - w : Stream[w + j] # NUL
  PROVE  Closed(v) = Closed(w) /\ Split(Part(a, v)) = Split(Part(a, w)) /\ (Cut(a, v) <=> Cut(a, w))
<1> DEFINE x == Split(Part(a, v))
           y == Split(Part(a, w))
<1>1. a <= v /\ w <= Len(Stream)
  BY StreamLayout, LenProperties
<1>2. Closed(w) = Closed(v)
  BY NulsOfPart
<1>3. /\ x \in Seq(Seq(Nat)) /\ Len(x) = Closed(v) - Closed(a) /\ \A i \in 1 .. Len(x) : x[i] = StringAt(a, i)
  BY <1>1, SplitOfPart
<1>4. /\ y \in Seq(Seq(Nat)) /\ Len(y) = Closed(w) - Closed(a) /\ \A i \in 1 .. Len(y) : y[i] = StringAt(a, i)
  BY <1>1, SplitOfPart
<1> HIDE DEF x, y
<1>5. Len(x) = Len(y) /\ \A i \in 1 .. Len(x) : x[i] = y[i]
  BY <1>2, <1>3, <1>4
<1>6. x = y
  BY <1>3, <1>4, <1>5, SeqEqual
<1> QED
  BY <1>2, <1>6 DEF x, y, Cut

LEMMA WritesMessage ==
  ASSUME NEW a \in Nat, NEW u \in Nat, a <= u, u + 1 <= Len(Stream), Stream[u + 1] = NUL
  PROVE  /\ ~Cut(a, u + 1)
         /\ \E s \in IF Cut(a, u) THEN Fragments ELSE Payloads :
              Split(Part(a, u + 1)) = Append(Split(Part(a, u)), s)
<1> DEFINE x == Split(Part(a, u + 1))
           y == Split(Part(a, u))
<1>1. a <= u + 1 /\ u <= Len(Stream) /\ u + 1 \in Nat /\ Len(Stream) \in Nat
  BY StreamLayout, LenProperties
<1>2. /\ Closed(u) \in Nat /\ Closed(u) + 1 <= Messages /\ Closed(u + 1) = Closed(u) + 1
  <2>1. /\ Closed(u) \in Nat /\ Closed(u) + 1 <= Messages
        /\ Stream[u + 1] = IF u + 1 = End(Closed(u) + 1) THEN NUL ELSE Closed(u) + 1
        /\ Closed(u + 1) = IF u + 1 = End(Closed(u) + 1) THEN Closed(u) + 1 ELSE Closed(u)
    BY ClosedStep
  <2>2. Closed(u) + 1 # NUL
    BY <2>1 DEF NUL
  <2> QED
    BY <2>1, <2>2
<1>3. Closed(a) \in Nat /\ Closed(a) <= Closed(u)
  BY <1>1, ClosedMonotone
<1>4. /\ x \in Seq(Seq(Nat)) /\ Len(x) = Closed(u + 1) - Closed(a) /\ \A i \in 1 .. Len(x) : x[i] = StringAt(a, i)
  BY <1>1, SplitOfPart
<1>5. /\ y \in Seq(Seq(Nat)) /\ Len(y) = Closed(u) - Closed(a) /\ \A i \in 1 .. Len(y) : y[i] = StringAt(a, i)
  BY <1>1, SplitOfPart
<1> HIDE DEF x, y
<1>6. PICK d \in Nat : d = Len(y) /\ Len(x) = d + 1 /\ Closed(u + 1) - Closed(a) = d + 1
                       /\ Closed(a) + (d + 1) = Closed(u) + 1 /\ Closed(u) = Closed(a) + d
  <2>1. PICK d \in Nat : d = Closed(u) - Closed(a)
    BY <1>2, <1>3
  <2>2. Closed(u) = Closed(a) + d /\ Closed(a) + (d + 1) = Closed(u) + 1
    BY <1>2, <1>3, <2>1
  <2>3. (Closed(u) + 1) - Closed(a) = d + 1
    BY <1>2, <1>3, <2>1
  <2>4. Len(x) = d + 1 /\ Closed(u + 1) - Closed(a) = d + 1
    BY <1>2, <1>4, <2>3
  <2>5. d = Len(y)
    BY <1>5, <2>1
  <2> QED
    BY <2>2, <2>4, <2>5
<1> DEFINE s == StringAt(a, d + 1)
<1>7. d + 1 \in 1 .. Closed(u + 1) - Closed(a)
  BY <1>6
<1>8. Piece(s, Closed(a) + (d + 1))
  BY <1>1, <1>7, StringIsPiece
<1>9. s \in Fragments /\ s \in Seq(Nat)
  BY <1>8, PieceIsFragment DEF Piece
<1>10. ~Cut(a, u) => s \in Payloads
  <2> SUFFICES ASSUME ~Cut(a, u) PROVE s \in Payloads
    OBVIOUS
  <2>1. d + 1 > 1 \/ End(Closed(a)) = a
    BY <1>6, <1>3 DEF Cut
  <2>2. Closed(a) + (d + 1) \in 1 .. Messages /\ s = Payload(Closed(a) + (d + 1))
    BY <1>1, <1>7, <2>1, StringLength
  <2> QED
    BY <2>2, MessageSizes DEF Payloads
<1> HIDE DEF s
<1>11. x = Append(y, s)
  <2>1. /\ Append(y, s) \in Seq(Seq(Nat)) /\ Len(Append(y, s)) = d + 1 /\ Append(y, s)[d + 1] = s
        /\ \A i \in 1 .. d : Append(y, s)[i] = y[i]
    <3>1. /\ Append(y, s) \in Seq(Seq(Nat)) /\ Len(Append(y, s)) = Len(y) + 1
          /\ Append(y, s)[Len(y) + 1] = s /\ \A i \in 1 .. Len(y) : Append(y, s)[i] = y[i]
      BY <1>5, <1>9, AppendProperties
    <3> QED
      BY <1>6, <3>1
  <2>2. \A i \in 1 .. Len(x) : x[i] = Append(y, s)[i]
    <3> SUFFICES ASSUME NEW i \in 1 .. d + 1  PROVE x[i] = Append(y, s)[i]
      BY <1>6
    <3>1. x[i] = StringAt(a, i)
      BY <1>4, <1>6
    <3>2. CASE i = d + 1
      BY <2>1, <3>1, <3>2 DEF s
    <3>3. CASE i \in 1 .. d
      <4>1. y[i] = StringAt(a, i)
        BY <1>5, <1>6, <3>3
      <4> QED
        BY <2>1, <3>1, <3>3, <4>1
    <3>4. i = d + 1 \/ i \in 1 .. d
      OBVIOUS
    <3> QED
      BY <3>2, <3>3, <3>4
  <2> QED
    BY <1>4, <1>6, <2>1, <2>2, SeqEqual
<1>12. ~Cut(a, u + 1)
  <2>1. Closed(a) # Closed(u + 1)
    BY <1>2, <1>3
  <2> QED
    BY <2>1 DEF Cut
<1> QED
  BY <1>9, <1>10, <1>11, <1>12 DEF x, y

LEMMA ConcatAppend ==
  \A x, y \in Seq(Seq(Nat)), r \in Seq(Nat) : Append(x \o y, r) = x \o Append(y, r)
<1> SUFFICES ASSUME NEW x \in Seq(Seq(Nat)), NEW y \in Seq(Seq(Nat)), NEW r \in Seq(Nat)
             PROVE  Append(x \o y, r) = x \o Append(y, r)
  OBVIOUS
<1>1. x \o y \in Seq(Seq(Nat)) /\ <<r>> \in Seq(Seq(Nat))
  OBVIOUS
<1>2. Append(x \o y, r) = (x \o y) \o <<r>> /\ Append(y, r) = y \o <<r>>
  BY <1>1, AppendIsConcat
<1>3. (x \o y) \o <<r>> = x \o (y \o <<r>>)
  BY <1>1, StringsAssociative
<1> QED
  BY <1>2, <1>3

LEMMA ConcatEmpty ==
  \A x \in Seq(Seq(Nat)) : x \o <<>> = x /\ <<>> \o x = x
OBVIOUS

LEMMA NodeStringsEmpty == NodeStrings(<<>>) = <<>>
<1>1. SubSeq(<<>>, 1, Len(<<>>) - 1) = <<>>
  <2>1. Len(<<>>) = 0
    BY EmptySeq
  <2>2. SubSeq(<<>>, 1, -1) = <<>>
    BY SubSeqEmpty
  <2> QED
    BY <2>1, <2>2
<1>2. <<>> \in Seq(Nat) /\ NUL \in Nat
  BY DEF NUL
<1>3. Strings(Append(<<>>, NUL), FALSE) = Strings(<<>>, FALSE)
  BY <1>2, StringsAppend, StringsEmpty
<1> QED
  BY <1>1, <1>3, StringsEmpty DEF NodeStrings

\* The node port's strings behind the end of a message.
LEMMA NodeSplitAtEnd ==
  ASSUME NEW a \in Nat, NEW t \in Nat, NEW w \in Nat, a < t, t <= w, w <= Len(Stream),
         End(Closed(a)) = a, Stream[t] = NUL
  PROVE  /\ NodeStrings(Part(a, t)) = Split(Part(a, t)) /\ NodeStrings(<<>>) = <<>>
         /\ NodeStrings(Part(a, w)) = Split(Part(a, t)) \o NodeStrings(Part(t, w))
<1>1. t <= Len(Stream) /\ Len(Stream) \in Nat /\ a <= t /\ a < w
  BY StreamLayout, LenProperties
<1>2. NodeStrings(Part(a, t)) = Split(Part(a, t))
  BY <1>1, NodeStringsOfPart
<1>3. NodeStrings(<<>>) = <<>>
  BY NodeStringsEmpty
<1>4. End(Closed(t)) = t
  BY <1>1, EndsWithMessage
<1>5. /\ Split(Part(a, w)) = Split(Part(a, t)) \o Split(Part(t, w))
      /\ Split(Part(a, t)) \in Seq(Seq(Nat)) /\ Split(Part(t, w)) \in Seq(Seq(Nat))
  BY <1>1, <1>4, SplitAtEnd
<1>6. CASE t = w
  <2>1. Part(t, w) = <<>>
    BY <1>1, <1>6, PartStep
  <2> QED
    BY <1>2, <1>3, <1>5, <1>6, <2>1, ConcatEmpty
<1>7. CASE t # w /\ Stream[w] = NUL
  <2>1. t < w
    BY <1>7
  <2>2. NodeStrings(Part(a, w)) = Split(Part(a, w)) /\ NodeStrings(Part(t, w)) = Split(Part(t, w))
    BY <1>1, <1>4, <1>7, <2>1, NodeStringsOfPart
  <2> QED
    BY <1>2, <1>3, <1>5, <2>2
<1>8. CASE t # w /\ Stream[w] # NUL
  <2>1. t < w
    BY <1>8
  <2> DEFINE r == Part(End(Closed(w)), w - 1)
  <2>2. /\ NodeStrings(Part(a, w)) = IF r = <<>> THEN Split(Part(a, w)) ELSE Append(Split(Part(a, w)), r)
        /\ Piece(r, Closed(w) + 1)
    BY <1>1, <1>8, NodeStringsOfPart
  <2>3. NodeStrings(Part(t, w)) = IF r = <<>> THEN Split(Part(t, w)) ELSE Append(Split(Part(t, w)), r)
    BY <1>4, <1>8, <2>1, NodeStringsOfPart
  <2>4. r \in Seq(Nat)
    BY <2>2 DEF Piece
  <2> HIDE DEF r
  <2>5. Append(Split(Part(a, t)) \o Split(Part(t, w)), r) = Split(Part(a, t)) \o Append(Split(Part(t, w)), r)
    BY <1>5, <2>4, ConcatAppend
  <2> QED
    BY <1>2, <1>3, <1>5, <2>2, <2>3, <2>5
<1> QED
  BY <1>6, <1>7, <1>8

-----------------------------------------------------------------------------
(* The channel that the three implementations are. *)

(* What the places in a call say of the bytes: a Read that still waits has not met a NUL
   at the end of a chunk; without signals it splits what ends with one, or what the end of
   the pipe has left. *)
ChannelInv ==
  /\ pc = "new" => ~alive /\ written = 0
  /\ pc \in {"readSelect", "read"} => byteBuf = <<>> \/ Last(byteBuf) # NUL
  /\ port = "linux" /\ ~signals /\ pc = "split" =>
       (byteBuf # <<>> /\ Last(byteBuf) = NUL) \/ (inPipe = <<>> /\ ~alive)

LEMMA CutOfPart ==
  ASSUME NEW a \in Nat, NEW w \in Nat, a <= w, w <= Len(Stream)
  PROVE  (a > 0 /\ Stream[a] # NUL /\ \A j \in DOMAIN Part(a, w) : Part(a, w)[j] # NUL) <=> Cut(a, w)
<1>1. a <= Len(Stream)
  BY StreamLayout, LenProperties
<1>2. /\ Part(a, w) \in Seq(Nat) /\ Len(Part(a, w)) = w - a
      /\ \A i \in 1 .. w - a : Part(a, w)[i] = Stream[a + i]
  BY PartStep
<1>3. DOMAIN Part(a, w) = 1 .. w - a
  BY <1>2, LenProperties
<1>4. (\A j \in DOMAIN Part(a, w) : Part(a, w)[j] # NUL) <=> Closed(a) = Closed(w)
  BY <1>2, <1>3, NulsOfPart
<1>5. a > 0 /\ Stream[a] # NUL <=> End(Closed(a)) # a
  BY <1>1, InsideMessage
<1> QED
  BY <1>4, <1>5 DEF Cut

LEMMA ChanHere ==
  ASSUME PipeInv
  PROVE  /\ FirstUnread \in Nat /\ Taken \in Nat /\ written \in Nat
         /\ FirstUnread <= Taken /\ Taken <= written /\ FirstUnread <= written
         /\ written <= Len(Stream) /\ Taken <= Len(Stream)
         /\ byteBuf = Part(FirstUnread, Taken) /\ inPipe = Part(Taken, written)
         /\ Unread = Part(FirstUnread, written)
         /\ byteBuf = <<>> <=> FirstUnread = Taken
         /\ inPipe = <<>> <=> Taken = written
         /\ ChannelCut <=> alive /\ Cut(FirstUnread, written)
<1>1. Holds(byteBuf, inPipe, FirstUnread, Taken, written)
  BY Here DEF PipeInv
<1>2. /\ FirstUnread \in Nat /\ Taken \in Nat /\ written \in Nat
      /\ FirstUnread <= Taken /\ Taken <= written /\ written <= Len(Stream)
      /\ byteBuf = Part(FirstUnread, Taken) /\ inPipe = Part(Taken, written)
  BY <1>1 DEF Holds
<1>3. /\ byteBuf \o inPipe = Part(FirstUnread, written)
      /\ byteBuf = <<>> <=> FirstUnread = Taken
      /\ inPipe = <<>> <=> Taken = written
  BY <1>1, HoldsFacts
<1>4. FirstUnread <= written /\ Taken <= Len(Stream)
  BY <1>2, StreamLayout, LenProperties
<1>5. Unread = Part(FirstUnread, written)
  BY <1>3 DEF Unread
<1>6. ChannelCut <=> alive /\ Cut(FirstUnread, written)
  BY <1>2, <1>4, <1>5, CutOfPart DEF ChannelCut
<1> QED
  BY <1>2, <1>3, <1>4, <1>5, <1>6

LEMMA ChanThere ==
  ASSUME NEW a, NEW t, Holds(byteBuf', inPipe', a, t, written')
  PROVE  /\ Unread' = Part(a, written') /\ FirstUnread' = a
         /\ ChannelCut' <=> alive' /\ Cut(a, written')
<1>1. a \in Nat /\ t \in Nat /\ written' \in Nat /\ a <= t /\ t <= written' /\ written' <= Len(Stream)
  BY DEF Holds
<1>2. byteBuf' \o inPipe' = Part(a, written')
  BY HoldsFacts
<1>3. FirstUnread' = a
  BY There
<1>4. Unread' = Part(a, written')
  BY <1>2 DEF Unread
<1>5. a <= written'
  BY <1>1
<1>6. (a > 0 /\ Stream[a] # NUL /\ \A j \in DOMAIN Part(a, written') : Part(a, written')[j] # NUL)
        <=> Cut(a, written')
  BY <1>1, <1>5, CutOfPart
<1> QED
  BY <1>3, <1>4, <1>6 DEF ChannelCut

LEMMA ChannelInvInit == Init => ChannelInv
BY DEF Init, ChannelInv

LEMMA LastOfPart ==
  ASSUME NEW a \in Nat, NEW b \in Nat, a < b, b <= Len(Stream)
  PROVE  Part(a, b) # <<>> /\ Last(Part(a, b)) = Stream[b]
<1>1. a <= b
  OBVIOUS
<1>2. /\ Part(a, b) \in Seq(Nat) /\ Len(Part(a, b)) = b - a
      /\ \A i \in 1 .. b - a : Part(a, b)[i] = Stream[a + i]
  BY <1>1, PartStep
<1>3. b - a \in 1 .. b - a /\ a + (b - a) = b
  OBVIOUS
<1>4. Part(a, b)[b - a] = Stream[b]
  BY <1>2, <1>3
<1>5. Part(a, b) # <<>>
  BY <1>2, <1>3, EmptySeq
<1> QED
  BY <1>2, <1>4, <1>5 DEF Last

Watched == {"new", "readSelect", "read", "split"}

LEMMA NotWatched ==
  ASSUME pc' \notin Watched
  PROVE  ChannelInv'
BY DEF Watched, ChannelInv

LEMMA WatchedKept ==
  ASSUME ChannelInv, UNCHANGED <<port, signals, byteBuf, inPipe, alive, written>>, pc' = pc \/ pc' \notin Watched
  PROVE  ChannelInv'
BY DEF Watched, ChannelInv

LEMMA ChannelInvStep == PipeInv /\ ChannelInv /\ [Next]_vars => ChannelInv'
<1> SUFFICES ASSUME PipeInv, ChannelInv, [Next]_vars  PROVE ChannelInv'
  OBVIOUS
<1> USE DEF program, readVars, timeVars, writeVars, browserVars, Return, Reports, ReadFails, WriteFails
<1>0. port' = port /\ signals' = signals
  BY ProgramKept
<1>1. CASE UNCHANGED vars
  BY <1>1, WatchedKept DEF vars
<1>2. CASE ReadFromQueue \/ WindowsLaunch \/ WindowsExit \/ WindowsReadCannot \/ WindowsWriteCannot
  <2>1. pc' \notin Watched
    BY <1>2 DEF ReadFromQueue, WindowsLaunch, WindowsExit, WindowsReadCannot, WindowsWriteCannot, StartsRead, StartsWrite,
         Watched
  <2> QED
    BY <2>1, NotWatched
<1>3. CASE \E ms \in Settings : LinuxSetTimeout(ms) \/ WindowsSetTimeout(ms) \/ NodeSetTimeout(ms)
  BY <1>3, WatchedKept DEF LinuxSetTimeout, WindowsSetTimeout, NodeSetTimeout, SetsTimeout
<1>4. CASE LinuxReadStarts
  BY <1>4 DEF LinuxReadStarts, StartsRead, Goes, ChannelInv, PipeInv, QueueOK, Reading, LinuxReading, WindowsReading
<1>5. CASE LinuxWriteStarts \/ WindowsWriteStarts \/ NodeWriteStarts \/ WindowsReadStarts \/ NodeReadStarts
           \/ WindowsReadTimesOut \/ WindowsWriteTimesOut \/ WriteSelected \/ WriteBroken \/ WriteInterrupted
  <2>1. pc' \notin Watched
    BY <1>5 DEF LinuxWriteStarts, WindowsWriteStarts, NodeWriteStarts, WindowsReadStarts, NodeReadStarts, Goes, WriteBegins,
         WindowsReadTimesOut, WindowsWriteTimesOut, WriteSelected, WriteBroken, WriteInterrupted, Watched
  <2> QED
    BY <2>1, NotWatched
<1>6. CASE SecondPasses \/ WriteBytes \/ WindowsWriteGoesOn \/ NodeWriteBytes \/ BrowserReads
  <2>1. pc' = pc \/ pc' = "idle"
    BY <1>6 DEF SecondPasses, WriteBytes, WindowsWriteGoesOn, NodeWriteBytes, BrowserReads
  <2>2. UNCHANGED <<byteBuf, inPipe, alive, written>>
    BY <1>6 DEF SecondPasses, WriteBytes, WindowsWriteGoesOn, NodeWriteBytes, BrowserReads
  <2>3. pc' = pc \/ pc' \notin Watched
    BY <2>1 DEF Watched
  <2> QED
    BY <1>0, <2>2, <2>3, WatchedKept
<1>7. CASE SelectTimesOut \/ SelectInterrupted \/ SplitNothing \/ SplitMessages \/ SplitNoMessage
  <2>1. pc' \in {"idle", "killed"}
    BY <1>7 DEF SelectTimesOut, SelectInterrupted, GivesUp, SplitNothing, SplitMessages, SplitNoMessage, Delivers
  <2> QED
    BY <2>1, NotWatched DEF Watched
<1>8. CASE ReadSelected
  BY <1>8 DEF ReadSelected, Goes, ChannelInv
<1>9. CASE ReadEnd
  BY <1>9 DEF ReadEnd, Goes, ChannelInv
<1>10. CASE ReadInterrupted
  BY <1>0, <1>10 DEF ReadInterrupted, Goes, ChannelInv
<1>11. CASE ReadChunk
  <2> DEFINE t == Taken + ChunkLength
  <2> USE <1>11 DEF ReadChunk
  <2>1. PICK f, u : /\ u = t /\ f \in Nat /\ u \in Nat /\ f < u /\ u <= Len(Stream)
                    /\ byteBuf \o Chunk = Part(f, u) /\ Last(Chunk) = Stream[u]
    <3>1. FirstUnread \in Nat /\ t \in Nat
      BY ChunkIs DEF PipeInv
    <3> QED
      BY <3>1, ChunkIs DEF PipeInv
  <2>2. byteBuf' # <<>> /\ Last(byteBuf') = Last(Chunk)
    BY <2>1, LastOfPart
  <2>3. pc' = IF Last(Chunk) = NUL THEN "split" ELSE "readSelect"
    OBVIOUS
  <2> QED
    BY <2>2, <2>3 DEF ChannelInv
<1>12. CASE WindowsReadChunk \/ WindowsReadBroken \/ WindowsReadCancels
            \/ WindowsWriteCompletes \/ WindowsWriteBroken \/ WindowsWriteCancels
  <2>1. pc' \in {"idle", "readPending"}
    BY <1>12 DEF WindowsReadChunk, WindowsReadBroken, WindowsReadCancels, Delivers,
         WindowsWriteCompletes, WindowsWriteBroken, WindowsWriteCancels
  <2> QED
    BY <2>1, NotWatched DEF Watched
<1>13. CASE NodeReadChunk \/ NodeReadNothing \/ NodeReadThrows \/ NodeReadRest \/ NodeWriteThrows
  <2>1. pc' \in {"idle", "readSync"}
    BY <1>13 DEF NodeReadChunk, NodeReadNothing, NodeReadThrows, NodeReadRest, NodeWriteThrows, Delivers, NodeMeetsEnd
  <2> QED
    BY <2>1, NotWatched DEF Watched
<1>14. CASE BrowserWrites \/ BrowserDies
  BY <1>0, <1>14 DEF BrowserWrites, BrowserDies, ChannelInv
<1>15. Next => \/ ReadFromQueue \/ LinuxStarts \/ WindowsStarts \/ NodeStarts \/ LinuxStep \/ WindowsStep
               \/ NodeStep \/ WindowsWriteGoesOn \/ BrowserStep
  BY DEF Next, StartCall, CallStep
<1>16. CASE LinuxStarts \/ LinuxStep
  BY <1>3, <1>4, <1>5, <1>6, <1>7, <1>8, <1>9, <1>10, <1>11, <1>16 DEF LinuxStarts, LinuxStep
<1>17. CASE WindowsStarts \/ WindowsStep \/ WindowsWriteGoesOn
  BY <1>2, <1>3, <1>5, <1>6, <1>12, <1>17 DEF WindowsStarts, WindowsStep
<1>18. CASE NodeStarts \/ NodeStep \/ BrowserStep
  BY <1>3, <1>5, <1>6, <1>13, <1>14, <1>18 DEF NodeStarts, NodeStep, BrowserStep
<1> QED
  BY <1>1, <1>2, <1>15, <1>16, <1>17, <1>18

-----------------------------------------------------------------------------
(* The steps of the channel. *)

ChannelStep ==
  \/ Channel!Next
  \/ port = "windows" /\ Channel!Drop
  \/ port = "node" /\ Channel!EndTorn
  \/ UNCHANGED Channel!channelVars

LEMMA StepSame ==
  ASSUME ChanNow' = ChanNow, got' = got, ChannelCut' <=> ChannelCut, Opened' <=> Opened
  PROVE  ChannelStep
BY DEF ChannelStep, Channel!channelVars

LEMMA StepDelivers ==
  ASSUME ChanNow # <<>>, got' = Append(got, Head(ChanNow)), ChanNow' = Tail(ChanNow),
         ChannelCut' <=> ChannelCut, Opened' <=> Opened
  PROVE  ChannelStep
BY DEF ChannelStep, Channel!Next, Channel!Deliver

LEMMA StepSends ==
  ASSUME Opened, Opened', got' = got, ~ChannelCut',
         \E s \in IF ChannelCut THEN Fragments ELSE Payloads : ChanNow' = Append(ChanNow, s)
  PROVE  ChannelStep
BY DEF ChannelStep, Channel!Next, Channel!Send

LEMMA StepLoses ==
  ASSUME Opened, Opened', got' = got, ChanNow' = <<>>, ChannelCut'
  PROVE  ChannelStep
BY DEF ChannelStep, Channel!Next, Channel!Lose

LEMMA StepEnds ==
  ASSUME Opened, ~Opened', got' = got, ChanNow' = ChanNow, ~ChannelCut'
  PROVE  ChannelStep
BY DEF ChannelStep, Channel!Next, Channel!End

LEMMA StepEndsTorn ==
  ASSUME port = "node", Opened, ~Opened', got' = got, ~ChannelCut',
         \E f \in Fragments : ChanNow' = Append(ChanNow, f)
  PROVE  ChannelStep
BY DEF ChannelStep, Channel!EndTorn

LEMMA StepDrops ==
  ASSUME port = "windows", got' = got, Opened' <=> Opened,
         (ChannelCut' <=> ChannelCut) \/ (ChannelCut' <=> Opened /\ ChanNow' = <<>>),
         Dropped(ChanNow, ChanNow')
  PROVE  ChannelStep
<1>1. ChannelCut \in BOOLEAN /\ ChannelCut' \in BOOLEAN /\ (Opened /\ ChanNow' = <<>>) \in BOOLEAN
  BY DEF ChannelCut
<1>2. \A x, y, z \in BOOLEAN : (x <=> y) \/ (x <=> z) => x \in {y, z}
  OBVIOUS
<1>3. ChannelCut' \in {ChannelCut, Opened /\ ChanNow' = <<>>}
  BY <1>1, <1>2, Zenon
<1>4. Opened' = Opened
  BY DEF Opened
<1>5. \A s, t : Channel!IsSuffix(s, t) <=> IsSuffix(s, t)
  BY DEF Channel!IsSuffix, IsSuffix, Channel!IsPrefix, IsPrefix, Channel!Reverse, Reverse
<1>6. Channel!Drop
  BY <1>3, <1>4, <1>5, Zenon DEF Channel!Drop, Dropped
<1> QED
  BY <1>6 DEF ChannelStep

LEMMA StepQuiet ==
  ASSUME UNCHANGED <<port, byteBuf, inPipe, written, got, m_MessageQueue, alive>>, pc' = "new" <=> pc = "new"
  PROVE  ChannelStep
<1>1. Unread' = Unread
  BY DEF Unread
<1>2. ChanNow' = ChanNow
  BY <1>1 DEF ChanNow, StringsOf
<1>3. ChannelCut' <=> ChannelCut
  BY <1>1 DEF ChannelCut, FirstUnread
<1>4. Opened' <=> Opened
  BY DEF Opened
<1> QED
  BY <1>2, <1>3, <1>4, StepSame

LEMMA StringsType ==
  ASSUME NEW a \in Nat, NEW w \in Nat, a <= w, w <= Len(Stream),
         port = "node" /\ ~alive /\ a # w => End(Closed(a)) = a
  PROVE  StringsOf(Part(a, w)) \in Seq(Seq(Nat))
<1>1. CASE ~(port = "node" /\ ~alive)
  BY <1>1, SplitOfPart DEF StringsOf
<1>2. CASE port = "node" /\ ~alive /\ a # w
  <2>1. a < w
    BY <1>2
  <2> QED
    BY <1>2, <2>1, NodeStringsOfPart DEF StringsOf
<1>3. CASE port = "node" /\ ~alive /\ a = w
  <2>1. Part(a, w) = <<>>
    BY <1>3, PartStep
  <2> QED
    <3>1. StringsOf(Part(a, w)) = <<>>
      BY <1>3, <2>1, NodeStringsEmpty DEF StringsOf
    <3> QED
      BY <3>1
<1> QED
  BY <1>1, <1>2, <1>3

LEMMA NothingUnread == StringsOf(<<>>) = <<>>
BY NodeStringsEmpty, StringsEmpty DEF StringsOf, Split

LEMMA HeadOfConcat ==
  \A s, r \in Seq(Seq(Nat)) :
    s # <<>> => /\ s \o r # <<>> /\ Head(s \o r) = Head(s) /\ Tail(s \o r) = Tail(s) \o r
                /\ Tail(s) \in Seq(Seq(Nat))
<1> SUFFICES ASSUME NEW s \in Seq(Seq(Nat)), NEW r \in Seq(Seq(Nat)), s # <<>>
             PROVE  /\ s \o r # <<>> /\ Head(s \o r) = Head(s) /\ Tail(s \o r) = Tail(s) \o r
                    /\ Tail(s) \in Seq(Seq(Nat))
  OBVIOUS
<1>1. Len(s) \in Nat /\ Len(s) # 0 /\ Len(r) \in Nat
  BY LenProperties, EmptySeq
<1>2. /\ s \o r \in Seq(Seq(Nat)) /\ Len(s \o r) = Len(s) + Len(r)
      /\ \A i \in 1 .. Len(s) + Len(r) : (s \o r)[i] = IF i <= Len(s) THEN s[i] ELSE r[i - Len(s)]
  BY ConcatProperties, ZenonT(60)
<1>3. s \o r # <<>>
  BY <1>1, <1>2, EmptySeq
<1>4. Head(s) = s[1] /\ Head(s \o r) = (s \o r)[1] /\ (s \o r)[1] = s[1]
  BY <1>1, <1>2, <1>3
<1>5. /\ Tail(s) \in Seq(Seq(Nat)) /\ Len(Tail(s)) = Len(s) - 1
      /\ \A i \in 1 .. Len(s) - 1 : Tail(s)[i] = s[i + 1]
  BY HeadTailProperties
<1>6. /\ Tail(s \o r) \in Seq(Seq(Nat)) /\ Len(Tail(s \o r)) = Len(s) + Len(r) - 1
      /\ \A i \in 1 .. Len(s) + Len(r) - 1 : Tail(s \o r)[i] = (s \o r)[i + 1]
  BY <1>2, <1>3, HeadTailProperties
<1> DEFINE t == Tail(s)
           u == Tail(s \o r)
<1>7. PICK n \in Nat : Len(s) = n + 1
  <2>1. Len(s) - 1 \in Nat /\ Len(s) = (Len(s) - 1) + 1
    BY <1>1
  <2> QED
    BY <2>1
<1>8. PICK m \in Nat : Len(r) = m
  BY <1>1
<1>9. t \in Seq(Seq(Nat)) /\ Len(t) = n /\ \A i \in 1 .. n : t[i] = s[i + 1]
  BY <1>5, <1>7
<1>10. u \in Seq(Seq(Nat)) /\ Len(u) = n + m /\ \A i \in 1 .. n + m : u[i] = (s \o r)[i + 1]
  BY <1>6, <1>7, <1>8
<1> HIDE DEF t, u
<1>11. /\ t \o r \in Seq(Seq(Nat)) /\ Len(t \o r) = n + m
       /\ \A i \in 1 .. n + m : (t \o r)[i] = IF i <= n THEN t[i] ELSE r[i - n]
  <2>1. /\ t \o r \in Seq(Seq(Nat)) /\ Len(t \o r) = Len(t) + Len(r)
        /\ \A i \in 1 .. Len(t) + Len(r) : (t \o r)[i] = IF i <= Len(t) THEN t[i] ELSE r[i - Len(t)]
    BY <1>9, ConcatProperties, ZenonT(60)
  <2> QED
    BY <1>8, <1>9, <2>1
<1>12. \A i \in 1 .. Len(u) : u[i] = (t \o r)[i]
  <2> SUFFICES ASSUME NEW i \in 1 .. n + m  PROVE u[i] = (t \o r)[i]
    BY <1>10
  <2>1. i + 1 \in 1 .. Len(s) + Len(r)
    BY <1>7, <1>8
  <2>2. u[i] = IF i + 1 <= Len(s) THEN s[i + 1] ELSE r[i + 1 - Len(s)]
    BY <1>2, <1>10, <2>1, SMTT(30)
  <2>3. CASE i <= n
    BY <1>7, <1>9, <1>11, <2>2, <2>3
  <2>4. CASE ~(i <= n)
    <3>1. i + 1 - Len(s) = i - n /\ ~(i + 1 <= Len(s))
      BY <1>7, <2>4
    <3> QED
      BY <1>11, <2>2, <2>4, <3>1
  <2> QED
    BY <2>3, <2>4
<1>13. u = t \o r
  BY <1>10, <1>11, <1>12, SeqEqual
<1> QED
  BY <1>3, <1>4, <1>5, <1>13 DEF t, u

(* Read splits the bytes up to t and returns the first string: up to a NUL, or up to
   the end of the pipe. *)
LEMMA StepSplits ==
  ASSUME PipeInv, Reading, pc' = "idle",
         NEW t \in Nat, FirstUnread < t, Taken <= t, t <= written,
         Stream[t] = NUL \/ (t = written /\ ~alive),
         byteBuf' = <<>>, inPipe' = Part(t, written), UNCHANGED <<port, written, alive>>,
         NEW s, s = StringsOf(Part(FirstUnread, t)), s # <<>>, Delivers(s)
  PROVE  ChannelStep
<1> DEFINE a == FirstUnread
           w == written
           r == StringsOf(Part(t, w))
<1>1. /\ a \in Nat /\ w \in Nat /\ a <= w /\ w <= Len(Stream) /\ a <= t /\ a # w
      /\ Unread = Part(a, w) /\ (ChannelCut <=> alive /\ Cut(a, w)) /\ Len(Stream) \in Nat
      /\ t <= Len(Stream) /\ a < t /\ t <= w
  BY ChanHere, StreamLayout, LenProperties
<1>2. port = "node" => End(Closed(a)) = a
  <2>1. Part(a, w) # <<>>
    <3>1. a < w
      BY <1>1
    <3> QED
      BY <1>1, <3>1, LastOfPart
  <2> QED
    BY <1>1, <2>1 DEF PipeInv, NodeOK
<1>3. Part(t, t) = <<>>
  BY <1>1, PartStep
<1>4. Holds(byteBuf', inPipe', t, t, written')
  BY <1>1, <1>3 DEF Holds
<1>5. Unread' = Part(t, w) /\ (ChannelCut' <=> alive /\ Cut(t, w))
  BY <1>4, ChanThere
<1>6. Stream[t] = NUL => End(Closed(t)) = t /\ Closed(a) < Closed(t)
  BY <1>1, EndsWithMessage
<1>7. s \in Seq(Seq(Nat))
  BY <1>1, <1>2, StringsType
<1>8. r \in Seq(Seq(Nat)) /\ StringsOf(Part(a, w)) = s \o r
  <2>1. CASE Stream[t] = NUL /\ ~(port = "node" /\ ~alive)
    <3>1. s = Split(Part(a, t)) /\ r = Split(Part(t, w)) /\ StringsOf(Part(a, w)) = Split(Part(a, w))
      BY <2>1 DEF StringsOf
    <3>2. /\ Split(Part(a, w)) = Split(Part(a, t)) \o Split(Part(t, w))
          /\ Split(Part(t, w)) \in Seq(Seq(Nat))
      <4>1. End(Closed(t)) = t
        BY <1>6, <2>1
      <4> HIDE DEF a, w
      <4> QED
        BY <1>1, <4>1, SplitAtEnd
    <3> QED
      BY <3>1, <3>2
  <2>2. CASE Stream[t] = NUL /\ port = "node" /\ ~alive
    <3>1. s = NodeStrings(Part(a, t)) /\ r = NodeStrings(Part(t, w)) /\ StringsOf(Part(a, w)) = NodeStrings(Part(a, w))
      BY <2>2 DEF StringsOf
    <3>2. NodeStrings(Part(a, w)) = NodeStrings(Part(a, t)) \o NodeStrings(Part(t, w))
      <4>1. a < t /\ t <= w /\ End(Closed(a)) = a
        BY <1>2, <2>2
      <4> HIDE DEF a, w
      <4>2. /\ NodeStrings(Part(a, w)) = Split(Part(a, t)) \o NodeStrings(Part(t, w))
            /\ NodeStrings(Part(a, t)) = Split(Part(a, t))
        BY <1>1, <2>2, <4>1, NodeSplitAtEnd
      <4> QED
        BY <4>2
    <3>3. r \in Seq(Seq(Nat))
      BY <1>1, <1>6, <2>2, StringsType
    <3> QED
      BY <3>1, <3>2, <3>3
  <2>3. CASE t = w /\ ~alive
    <3>1. r = <<>>
      BY <1>3, <2>3, NothingUnread
    <3> QED
      BY <1>7, <2>3, <3>1, ConcatEmpty
  <2> QED
    BY <2>1, <2>2, <2>3
<1>9. ~ChannelCut
  <2>1. CASE Stream[t] = NUL
    <3>1. Closed(t) <= Closed(w) /\ Closed(a) \in Nat /\ Closed(t) \in Nat /\ Closed(w) \in Nat
      BY <1>1, ClosedMonotone
    <3> QED
      BY <1>1, <1>6, <2>1, <3>1 DEF Cut
  <2>2. CASE ~alive
    BY <1>1, <2>2
  <2> QED
    BY <2>1, <2>2
<1>10. ~ChannelCut'
  BY <1>5, <1>6 DEF Cut
<1>11. ChanNow = s \o r
  <2>1. m_MessageQueue = <<>>
    BY DEF PipeInv, QueueOK
  <2>2. s \o r \in Seq(Seq(Nat))
    BY <1>7, <1>8
  <2> QED
    BY <1>1, <1>8, <2>1, <2>2, ConcatEmpty DEF ChanNow
<1>12. ChanNow' = Tail(s) \o r
  <2>1. m_MessageQueue' = <<>> \o Tail(s) /\ Tail(s) \in Seq(Seq(Nat))
    BY <1>7, <1>8, HeadOfConcat DEF PipeInv, QueueOK, Delivers
  <2>2. m_MessageQueue' = Tail(s)
    BY <2>1, ConcatEmpty
  <2>3. StringsOf(Unread)' = r
    BY <1>5 DEF StringsOf
  <2> QED
    BY <2>2, <2>3 DEF ChanNow
<1>13. Opened' <=> Opened
  BY DEF Opened, Reading, LinuxReading, WindowsReading
<1>14. got' = Append(got, Head(s))
  BY DEF Delivers
<1> HIDE DEF r, a, w
<1>15. ChanNow # <<>> /\ Head(ChanNow) = Head(s) /\ Tail(ChanNow) = Tail(s) \o r
  BY <1>7, <1>8, <1>11, HeadOfConcat
<1> QED
  BY <1>9, <1>10, <1>12, <1>13, <1>14, <1>15, StepDelivers

\* Read has taken another chunk and goes on: what is not yet split is the same.
LEMMA StepReadsOn ==
  ASSUME PipeInv, inPipe # <<>>, TakesChunk, byteBuf' = byteBuf \o Chunk,
         UNCHANGED <<port, written, alive, got, m_MessageQueue>>, pc # "new", pc' # "new"
  PROVE  ChannelStep
<1> DEFINE a == FirstUnread
           t == Taken + ChunkLength
<1>1. /\ t \in Nat /\ a \in Nat /\ a < t /\ t <= written
      /\ byteBuf \o Chunk = Part(a, t) /\ inPipe' = Part(t, written)
  BY ChunkIs DEF PipeInv
<1>2. /\ Unread = Part(a, written) /\ written \in Nat /\ written <= Len(Stream)
      /\ (ChannelCut <=> alive /\ Cut(a, written))
  BY ChanHere
<1>3. PICK x, y : x = a /\ y = t
  OBVIOUS
<1> HIDE DEF a, t
<1>4. Holds(byteBuf', inPipe', x, y, written')
  BY <1>1, <1>2, <1>3 DEF Holds
<1>5. Unread' = Part(x, written) /\ (ChannelCut' <=> alive /\ Cut(x, written))
  BY <1>4, ChanThere
<1>6. Unread' = Unread /\ (ChannelCut' <=> ChannelCut)
  BY <1>2, <1>3, <1>5
<1>7. ChanNow' = ChanNow
  BY <1>6 DEF ChanNow, StringsOf
<1>8. Opened' <=> Opened
  BY DEF Opened
<1> QED
  BY <1>6, <1>7, <1>8, StepSame

LEMMA StepChunk ==
  ASSUME PipeInv, Reading, inPipe # <<>>, TakesChunk, Last(Chunk) = NUL, UNCHANGED <<port, written, alive>>,
         NEW s, Delivers(s),
         s = IF port = "node" THEN NodeStrings(byteBuf \o Chunk) ELSE Split(byteBuf \o Chunk)
  PROVE  ChannelStep
<1>1. PICK t \in Nat : /\ FirstUnread < t /\ Taken <= t /\ t <= written /\ t <= Len(Stream)
                       /\ byteBuf \o Chunk = Part(FirstUnread, t) /\ inPipe' = Part(t, written)
                       /\ Stream[t] = NUL
  <2>1. Taken \in Nat
    BY ChanHere
  <2>2. Taken + ChunkLength \in Nat /\ Taken <= Taken + ChunkLength
    BY <2>1, ChunkIs DEF PipeInv
  <2> QED
    BY <2>2, ChunkIs DEF PipeInv
<1>2. FirstUnread \in Nat /\ FirstUnread # written /\ Unread = Part(FirstUnread, written)
      /\ FirstUnread < written /\ written <= Len(Stream)
  BY <1>1, ChanHere
<1>3. port = "node" => End(Closed(FirstUnread)) = FirstUnread
  <2>1. Unread # <<>>
    BY <1>2, LastOfPart, ChanHere
  <2> QED
    BY <2>1 DEF PipeInv, NodeOK
<1>4. s = StringsOf(Part(FirstUnread, t)) /\ s # <<>>
  <2>1. /\ Split(Part(FirstUnread, t)) # <<>>
        /\ port = "node" => NodeStrings(Part(FirstUnread, t)) = Split(Part(FirstUnread, t))
    <3>1. Closed(FirstUnread) < Closed(t)
      BY <1>1, <1>2, EndsWithMessage
    <3>2. /\ Split(Part(FirstUnread, t)) \in Seq(Seq(Nat))
          /\ Len(Split(Part(FirstUnread, t))) = Closed(t) - Closed(FirstUnread)
      <4>1. FirstUnread <= t
        BY <1>1, <1>2
      <4> QED
        BY <1>1, <1>2, <4>1, SplitOfPart
    <3>3. Closed(FirstUnread) \in Nat /\ Closed(t) \in Nat
      BY <1>1, <1>2, ClosedMonotone
    <3>4. Len(Split(Part(FirstUnread, t))) # 0
      BY <3>1, <3>2, <3>3
    <3>5. port = "node" => NodeStrings(Part(FirstUnread, t)) = Split(Part(FirstUnread, t))
      BY <1>1, <1>2, <1>3, NodeStringsOfPart
    <3> QED
      BY <3>2, <3>4, <3>5, EmptySeq
  <2> QED
    BY <1>1, <2>1 DEF StringsOf
<1>5. pc' = "idle" /\ byteBuf' = <<>>
  BY DEF Delivers, Return
<1> QED
  BY <1>1, <1>4, <1>5, StepSplits

\* Read gives up, and what it has gathered is gone, with what a cancelled read has taken.
LEMMA StepForgets ==
  ASSUME PipeInv, Reading, pc' # "new", NEW b \in Nat, Taken <= b, b <= written,
         byteBuf' = <<>>, inPipe' = Part(b, written), UNCHANGED <<port, written, alive, got, m_MessageQueue>>,
         \/ port = "windows"
         \/ port = "linux" /\ alive /\ b = written /\ (byteBuf = <<>> \/ Last(byteBuf) # NUL) /\ inPipe = <<>>
  PROVE  ChannelStep
<1> DEFINE a == FirstUnread
           w == written
<1>1. /\ a \in Nat /\ w \in Nat /\ a <= w /\ w <= Len(Stream) /\ a <= b /\ b <= w /\ b <= Len(Stream)
      /\ Unread = Part(a, w) /\ (ChannelCut <=> alive /\ Cut(a, w))
      /\ Taken \in Nat /\ a <= Taken /\ byteBuf = Part(a, Taken) /\ (inPipe = <<>> <=> Taken = w)
      /\ (byteBuf = <<>> <=> a = Taken)
  BY ChanHere, StreamLayout, LenProperties
<1>2. Part(b, b) = <<>>
  BY <1>1, PartStep
<1>3. Holds(byteBuf', inPipe', b, b, written')
  BY <1>1, <1>2 DEF Holds
<1>4. Unread' = Part(b, w) /\ (ChannelCut' <=> alive /\ Cut(b, w))
  BY <1>3, ChanThere
<1>5. port # "node" /\ m_MessageQueue = <<>>
  BY DEF PipeInv, QueueOK
<1>6. StringsOf(Unread) = Split(Part(a, w)) /\ StringsOf(Unread)' = Split(Part(b, w))
  BY <1>1, <1>4, <1>5 DEF StringsOf
<1>7. Split(Part(a, w)) \in Seq(Seq(Nat)) /\ Split(Part(b, w)) \in Seq(Seq(Nat))
  BY <1>1, SplitOfPart
<1>8. ChanNow = Split(Part(a, w)) /\ ChanNow' = Split(Part(b, w))
  BY <1>5, <1>6, <1>7, ConcatEmpty DEF ChanNow
<1>9. Opened' <=> Opened
  BY DEF Opened, Reading, LinuxReading, WindowsReading
<1>10. CASE port = "windows"
  <2>1. Dropped(Split(Part(a, w)), Split(Part(b, w)))
    <3> HIDE DEF a, w
    <3> QED
      BY <1>1, DropsStrings
  <2>2. (ChannelCut' <=> ChannelCut) \/ (ChannelCut' <=> Opened /\ ChanNow' = <<>>)
    <3>1. CASE ChannelCut'
      <4>1. Closed(b) = Closed(w) /\ alive
        BY <1>4, <3>1 DEF Cut
      <4>2. /\ Split(Part(b, w)) \in Seq(Seq(Nat)) /\ Len(Split(Part(b, w))) = Closed(w) - Closed(b)
            /\ Closed(b) \in Nat /\ Closed(w) \in Nat
        BY <1>1, SplitOfPart, ClosedMonotone
      <4>3. Split(Part(b, w)) = <<>>
        BY <4>1, <4>2, EmptySeq
      <4> QED
        BY <1>8, <3>1, <4>1, <4>3 DEF Opened
    <3>2. CASE ~ChannelCut'
      <4>1. SUFFICES ASSUME ChannelCut PROVE FALSE
        BY <3>2
      <4>2. alive /\ End(Closed(a)) # a /\ Closed(a) = Closed(w)
        BY <1>1, <4>1 DEF Cut
      <4>3. Closed(a) <= Closed(b) /\ Closed(b) <= Closed(w) /\ Closed(a) \in Nat /\ Closed(b) \in Nat
        BY <1>1, ClosedMonotone
      <4>4. Closed(b) = Closed(a) /\ Closed(b) = Closed(w)
        BY <4>2, <4>3
      <4>5. End(Closed(a)) <= a /\ End(Closed(a)) \in Nat
        <5>1. a \in 0 .. Len(Stream)
          BY <1>1, StreamLayout, LenProperties
        <5>2. Ended(a, Closed(a))
          BY <5>1, ClosedIs
        <5> QED
          BY <5>2, EndMonotone DEF Ended
      <4>6. End(Closed(b)) # b
        BY <1>1, <4>2, <4>4, <4>5
      <4> QED
        BY <1>4, <3>2, <4>2, <4>4, <4>6 DEF Cut
    <3> QED
      BY <3>1, <3>2
  <2> QED
    BY <1>8, <1>9, <1>10, <2>1, <2>2, StepDrops
<1>11. CASE port = "linux" /\ byteBuf = <<>>
  <2>1. alive /\ a = b /\ b = w
    BY <1>1, <1>11
  <2>2. ChanNow' = ChanNow /\ (ChannelCut' <=> ChannelCut)
    BY <1>1, <1>4, <1>8, <2>1
  <2> QED
    BY <1>9, <2>2, StepSame
<1>12. CASE port = "linux" /\ byteBuf # <<>>
  <2>1. alive /\ b = w /\ Last(byteBuf) # NUL /\ a < w /\ byteBuf = Part(a, w)
    BY <1>1, <1>12
  <2>2. Stream[w] # NUL /\ w > 0
    BY <1>1, <2>1, LastOfPart
  <2>3. End(Closed(w)) # w
    BY <1>1, <2>2, InsideMessage
  <2>4. ChannelCut'
    BY <1>4, <2>1, <2>3 DEF Cut
  <2>5. ChanNow' = <<>>
    BY <1>2, <1>8, <2>1, StringsEmpty DEF Split
  <2> QED
    BY <1>9, <2>1, <2>4, <2>5, StepLoses DEF Opened
<1> QED
  BY <1>10, <1>11, <1>12

LEMMA StepWrites ==
  ASSUME PipeInv, ChannelInv, BrowserWrites
  PROVE  ChannelStep
<1> USE DEF program, readVars
<1>1. PICK n \in 1 .. PipeCap - Len(inPipe) :
        /\ written + n <= Len(Stream)
        /\ \A j \in 1 .. n - 1 : Stream[written + j] # NUL
        /\ inPipe' = inPipe \o SubSeq(Stream, written + 1, written + n)
        /\ written' = written + n
  BY DEF BrowserWrites
<1>2. /\ UNCHANGED <<port, pc, byteBuf, m_MessageQueue, got>> /\ alive /\ alive'
  BY DEF BrowserWrites
<1> DEFINE a == FirstUnread
           t == Taken
           w == written
<1>3. /\ a \in Nat /\ t \in Nat /\ w \in Nat /\ a <= t /\ t <= w /\ a <= w /\ w <= Len(Stream)
      /\ byteBuf = Part(a, t) /\ inPipe = Part(t, w)
      /\ Unread = Part(a, w) /\ (ChannelCut <=> Cut(a, w)) /\ Len(Stream) \in Nat
  BY <1>2, ChanHere, StreamLayout, LenProperties
<1>4. n \in Nat /\ n > 0
  OBVIOUS
<1>5. PICK u \in Nat : /\ u + 1 = w + n /\ w <= u /\ a <= u /\ u + 1 <= Len(Stream) /\ written' = u + 1
                       /\ \A j \in 1 .. u - w : Stream[w + j] # NUL
  <2>1. (w + n) - 1 \in Nat /\ ((w + n) - 1) + 1 = w + n /\ w <= (w + n) - 1 /\ a <= (w + n) - 1
        /\ ((w + n) - 1) - w = n - 1
    BY <1>3, <1>4
  <2> QED
    BY <1>1, <2>1
<1>6. inPipe' = Part(t, u + 1)
  <2>1. inPipe' = Part(t, w) \o Part(w, u + 1)
    BY <1>1, <1>3, <1>5 DEF Part
  <2>2. /\ t \in Nat /\ w \in Nat /\ u + 1 \in Nat /\ t <= w /\ w <= u + 1 /\ u + 1 <= Len(Stream)
        /\ w <= Len(Stream)
    BY <1>3, <1>5
  <2> HIDE DEF a, t, w
  <2>3. Part(t, w) \o Part(w, u + 1) = Part(t, u + 1)
    BY <2>2, PartConcat
  <2> QED
    BY <2>1, <2>3
<1>7. PICK x, y, z : x = a /\ y = t /\ z = w
  OBVIOUS
<1>8. Holds(byteBuf', inPipe', x, y, written')
  BY <1>2, <1>3, <1>5, <1>6, <1>7 DEF Holds
<1>9. Unread' = Part(x, u + 1) /\ (ChannelCut' <=> Cut(x, u + 1))
  BY <1>2, <1>5, <1>8, ChanThere
<1>10. ChanNow = m_MessageQueue \o Split(Part(x, z)) /\ ChanNow' = m_MessageQueue \o Split(Part(x, u + 1))
  <2>1. StringsOf(Unread) = Split(Part(x, z)) /\ StringsOf(Unread)' = Split(Part(x, u + 1))
    BY <1>2, <1>3, <1>7, <1>9 DEF StringsOf
  <2> QED
    BY <1>2, <2>1 DEF ChanNow
<1>11. x \in Nat /\ z \in Nat /\ x <= z /\ z <= u /\ z <= Len(Stream) /\ x <= u /\ u <= Len(Stream)
       /\ (ChannelCut <=> Cut(x, z)) /\ \A j \in 1 .. u - z : Stream[z + j] # NUL
  BY <1>3, <1>5, <1>7
<1> HIDE DEF a, t, w
<1>12. Closed(u) = Closed(z) /\ Split(Part(x, u)) = Split(Part(x, z)) /\ (Cut(x, u) <=> Cut(x, z))
  BY <1>11, WritesOn
<1>13. Opened /\ Opened'
  BY <1>2 DEF Opened
<1>14. CASE Stream[u + 1] # NUL
  <2>1. u <= u + 1 /\ u + 1 \in Nat /\ \A j \in 1 .. (u + 1) - u : Stream[u + j] # NUL
    BY <1>14
  <2>2. Split(Part(x, u + 1)) = Split(Part(x, u)) /\ (Cut(x, u + 1) <=> Cut(x, u))
    BY <1>5, <1>11, <2>1, WritesOn
  <2>3. ChanNow' = ChanNow /\ (ChannelCut' <=> ChannelCut)
    BY <1>9, <1>10, <1>11, <1>12, <2>2
  <2> QED
    BY <1>2, <1>13, <2>3, StepSame
<1>15. CASE Stream[u + 1] = NUL
  <2>1. /\ ~Cut(x, u + 1)
        /\ \E s \in IF Cut(x, u) THEN Fragments ELSE Payloads :
             Split(Part(x, u + 1)) = Append(Split(Part(x, u)), s)
    BY <1>5, <1>11, <1>15, WritesMessage
  <2>2. PICK s \in IF ChannelCut THEN Fragments ELSE Payloads :
          Split(Part(x, u + 1)) = Append(Split(Part(x, z)), s)
    BY <1>11, <1>12, <2>1
  <2>3. Split(Part(x, z)) \in Seq(Seq(Nat)) /\ m_MessageQueue \in Seq(Seq(Nat))
    BY <1>11, SplitOfPart DEF PipeInv, TypeOK
  <2>4. Append(m_MessageQueue \o Split(Part(x, z)), s) = m_MessageQueue \o Append(Split(Part(x, z)), s)
    <3>1. s \in Seq(Nat)
      <4>1. s \in Fragments => s \in Seq(Nat)
        BY FragmentType
      <4>2. s \in Payloads => s \in Seq(Nat)
        BY PayloadIs, MessageSizes DEF Payloads
      <4> QED
        BY <2>2, <4>1, <4>2
    <3> QED
      BY <2>3, <3>1, ConcatAppend
  <2>5. ChanNow' = Append(ChanNow, s)
    BY <1>10, <2>2, <2>4
  <2>6. ~ChannelCut'
    BY <1>9, <2>1
  <2> QED
    BY <1>2, <1>13, <2>5, <2>6, StepSends
<1> QED
  BY <1>14, <1>15

LEMMA StepDies ==
  ASSUME PipeInv, ChannelInv, alive, ~alive', pc' # "new",
         UNCHANGED <<port, byteBuf, inPipe, written, got, m_MessageQueue>>
  PROVE  ChannelStep
<1> DEFINE a == FirstUnread
           w == written
<1>1. /\ a \in Nat /\ w \in Nat /\ a <= w /\ w <= Len(Stream) /\ Unread = Part(a, w) /\ Unread' = Part(a, w)
  BY ChanHere DEF Unread
<1>2. Opened /\ ~Opened' /\ ~ChannelCut'
  BY DEF Opened, ChannelCut
<1>3. StringsOf(Unread) = Split(Part(a, w))
  BY <1>1 DEF StringsOf
<1>4. StringsOf(Unread)' = IF port = "node" THEN NodeStrings(Part(a, w)) ELSE Split(Part(a, w))
  BY <1>1 DEF StringsOf
<1>5. Split(Part(a, w)) \in Seq(Seq(Nat)) /\ m_MessageQueue \in Seq(Seq(Nat))
  BY <1>1, SplitOfPart DEF PipeInv, TypeOK
<1>6. CASE NodeStrings(Part(a, w)) = Split(Part(a, w)) \/ port # "node"
  <2>1. ChanNow' = ChanNow
    BY <1>3, <1>4, <1>6 DEF ChanNow
  <2> QED
    BY <1>2, <2>1, StepEnds
<1>7. CASE port = "node" /\ NodeStrings(Part(a, w)) # Split(Part(a, w))
  <2>1. a < w
    <3>1. SUFFICES ASSUME a = w PROVE FALSE
      BY <1>1
    <3>2. Part(a, w) = <<>>
      BY <1>1, <3>1, PartStep
    <3> QED
      BY <1>7, <3>2, NodeStringsEmpty, StringsEmpty DEF Split
  <2>2. End(Closed(a)) = a
    BY <1>7 DEF PipeInv, NodeOK
  <2> DEFINE r == Part(End(Closed(w)), w - 1)
  <2>3. NodeStrings(Part(a, w)) = Append(Split(Part(a, w)), r) /\ Piece(r, Closed(w) + 1)
    <3> HIDE DEF a, w
    <3>1. Stream[w] # NUL
      BY <1>1, <1>7, <2>1, <2>2, NodeStringsOfPart
    <3>2. /\ NodeStrings(Part(a, w)) = IF r = <<>> THEN Split(Part(a, w)) ELSE Append(Split(Part(a, w)), r)
          /\ Piece(r, Closed(w) + 1)
      BY <1>1, <2>1, <2>2, <3>1, NodeStringsOfPart
    <3> QED
      BY <1>7, <3>2
  <2>4. r \in Fragments /\ r \in Seq(Nat)
    BY <2>3, PieceIsFragment DEF Piece
  <2> HIDE DEF r
  <2>5. ChanNow' = m_MessageQueue \o Append(Split(Part(a, w)), r)
    BY <1>4, <1>7, <2>3 DEF ChanNow
  <2>6. ChanNow = m_MessageQueue \o Split(Part(a, w))
    BY <1>3 DEF ChanNow
  <2>7. ChanNow' = Append(ChanNow, r)
    BY <1>5, <2>4, <2>5, <2>6, ConcatAppend
  <2> QED
    BY <1>2, <1>7, <2>4, <2>7, StepEndsTorn
<1> QED
  BY <1>6, <1>7

\* A Read that returns what an earlier one has queued.
LEMMA StepQueue ==
  ASSUME PipeInv, ReadFromQueue
  PROVE  ChannelStep
<1> DEFINE r == StringsOf(Unread)
<1>1. /\ UNCHANGED <<port, byteBuf, inPipe, written, alive>> /\ pc = "idle" /\ pc' = "idle"
      /\ m_MessageQueue # <<>> /\ m_MessageQueue' = Tail(m_MessageQueue)
      /\ got' = Append(got, Head(m_MessageQueue))
  BY DEF ReadFromQueue, Return, program, browserVars
<1>2. r \in Seq(Seq(Nat)) /\ m_MessageQueue \in Seq(Seq(Nat))
  <2>1. port = "node" /\ ~alive /\ FirstUnread # written => End(Closed(FirstUnread)) = FirstUnread
    <3>1. SUFFICES ASSUME port = "node", FirstUnread # written
                   PROVE  End(Closed(FirstUnread)) = FirstUnread
      OBVIOUS
    <3>2. FirstUnread < written
      BY <3>1, ChanHere
    <3>3. Unread # <<>>
      BY <3>2, ChanHere, LastOfPart
    <3> QED
      BY <3>1, <3>3 DEF PipeInv, NodeOK
  <2>2. StringsOf(Part(FirstUnread, written)) \in Seq(Seq(Nat))
    BY <2>1, ChanHere, StringsType
  <2> QED
    BY <2>2, ChanHere DEF PipeInv, TypeOK
<1>3. Unread' = Unread
  BY <1>1 DEF Unread
<1>4. (ChannelCut' <=> ChannelCut) /\ (Opened' <=> Opened) /\ r' = r
  BY <1>1, <1>3 DEF ChannelCut, FirstUnread, Opened, StringsOf
<1>5. ChanNow = m_MessageQueue \o r /\ ChanNow' = Tail(m_MessageQueue) \o r
  BY <1>1, <1>4 DEF ChanNow
<1> HIDE DEF r
<1>6. ChanNow # <<>> /\ Head(ChanNow) = Head(m_MessageQueue) /\ Tail(ChanNow) = Tail(m_MessageQueue) \o r
  BY <1>1, <1>2, <1>5, HeadOfConcat
<1> QED
  BY <1>1, <1>4, <1>5, <1>6, StepDelivers

\* Without signals Read splits what ends with a message or with the pipe.
LEMMA StepSplitsHeld ==
  ASSUME PipeInv, ChannelInv, ~signals, SplitMessages
  PROVE  ChannelStep
<1>1. /\ pc = "split" /\ Reading /\ port = "linux" /\ Split(byteBuf) # <<>> /\ Delivers(Split(byteBuf))
      /\ UNCHANGED <<port, inPipe, written, alive>>
  BY DEF SplitMessages, PipeInv, PlacesOK, Reading, LinuxReading, program, browserVars
<1>2. pc' = "idle" /\ byteBuf' = <<>>
  BY <1>1 DEF Delivers, Return
<1>3. byteBuf # <<>>
  BY <1>1, StringsEmpty DEF Split
<1>4. FirstUnread < Taken /\ Taken \in Nat /\ Taken <= Taken /\ Taken <= written
  BY <1>3, ChanHere
<1>5. Stream[Taken] = NUL \/ (Taken = written /\ ~alive)
  <2>1. Last(byteBuf) = Stream[Taken]
    BY <1>4, ChanHere, LastOfPart
  <2>2. inPipe = <<>> => Taken = written
    BY ChanHere
  <2> QED
    BY <1>1, <2>1, <2>2 DEF ChannelInv
<1>6. inPipe' = Part(Taken, written)
  BY <1>1, ChanHere
<1>7. Split(byteBuf) = StringsOf(Part(FirstUnread, Taken))
  BY <1>1, ChanHere DEF StringsOf
<1> QED
  BY <1>1, <1>2, <1>4, <1>5, <1>6, <1>7, StepSplits

\* The bytes Read finds no message in are the end of a message that will not come.
LEMMA StepNoMessage ==
  ASSUME PipeInv, ChannelInv, ~signals, SplitNoMessage
  PROVE  ChannelStep
<1>1. /\ pc = "split" /\ port = "linux" /\ Split(byteBuf) = <<>> /\ byteBuf # <<>> /\ byteBuf' = <<>>
      /\ UNCHANGED <<port, inPipe, written, alive, got, m_MessageQueue>> /\ pc' = "killed"
  BY DEF SplitNoMessage, PipeInv, PlacesOK, LinuxReading, program, browserVars
<1>2. m_MessageQueue = <<>>
  BY <1>1 DEF PipeInv, QueueOK, Reading, LinuxReading
<1>3. FirstUnread < Taken /\ Taken \in Nat /\ FirstUnread \in Nat /\ FirstUnread <= Taken /\ Taken <= Len(Stream)
      /\ byteBuf = Part(FirstUnread, Taken)
  BY <1>1, ChanHere
<1>4. Stream[Taken] # NUL
  <2>1. SUFFICES ASSUME Stream[Taken] = NUL PROVE FALSE
    OBVIOUS
  <2>2. Closed(FirstUnread) < Closed(Taken)
    BY <1>3, <2>1, EndsWithMessage
  <2>3. Len(Split(byteBuf)) = Closed(Taken) - Closed(FirstUnread)
    BY <1>3, SplitOfPart
  <2>4. Closed(FirstUnread) \in Nat /\ Closed(Taken) \in Nat
    BY <1>3, ClosedMonotone
  <2>5. Len(Split(byteBuf)) = 0
    BY <1>1, EmptySeq
  <2> QED
    BY <2>2, <2>3, <2>4, <2>5
<1>5. Last(byteBuf) # NUL
  BY <1>3, <1>4, LastOfPart
<1>6. inPipe = <<>> /\ ~alive
  BY <1>1, <1>5 DEF ChannelInv
<1>7. Unread = byteBuf /\ Unread' = <<>>
  <2>1. byteBuf \in Seq(Nat)
    BY DEF PipeInv, TypeOK
  <2>2. byteBuf \o <<>> = byteBuf
    BY <2>1
  <2> QED
    BY <1>1, <1>6, <2>2 DEF Unread
<1>8. ChanNow' = ChanNow
  BY <1>1, <1>2, <1>7, NothingUnread DEF ChanNow, StringsOf
<1>9. ~ChannelCut /\ ~ChannelCut' /\ (Opened' <=> Opened)
  BY <1>1, <1>6 DEF ChannelCut, Opened
<1> QED
  BY <1>1, <1>8, <1>9, StepSame

\* The node port meets the end of the pipe with bytes that it has not split yet.
LEMMA StepNodeEnd ==
  ASSUME PipeInv, NodeReadThrows \/ NodeReadRest
  PROVE  ChannelStep
<1>1. /\ pc = "readSync" /\ inPipe = <<>> /\ ~alive /\ Reading /\ port = "node" /\ byteBuf # <<>>
      /\ m_MessageQueue = <<>> /\ UNCHANGED <<port, inPipe, written, alive>>
  BY DEF NodeReadThrows, NodeReadRest, NodeMeetsEnd, CutOff, PipeInv, PlacesOK, QueueOK, Reading, program, browserVars
<1>2. FirstUnread < Taken /\ Taken \in Nat /\ Taken <= Taken /\ Taken <= written /\ Taken = written
      /\ byteBuf = Part(FirstUnread, Taken) /\ inPipe = Part(Taken, written)
      /\ Unread = byteBuf
  BY <1>1, ChanHere
<1>3. StringsOf(byteBuf) = NodeStrings(byteBuf)
  BY <1>1 DEF StringsOf
<1>4. ~ChannelCut /\ ~ChannelCut'
  BY <1>1 DEF ChannelCut
<1>5. NodeStrings(byteBuf) \in Seq(Seq(Nat))
  <2>1. End(Closed(FirstUnread)) = FirstUnread
    BY <1>1, <1>2 DEF PipeInv, NodeOK
  <2> QED
    BY <1>2, <1>3, <2>1, ChanHere, StringsType
<1>6. CASE NodeReadRest /\ NodeStrings(byteBuf) # <<>>
  <2>1. Delivers(NodeStrings(byteBuf))
    BY <1>6 DEF NodeReadRest
  <2>2. pc' = "idle" /\ byteBuf' = <<>>
    BY <2>1 DEF Delivers, Return
  <2> QED
    BY <1>1, <1>2, <1>3, <1>6, <2>1, <2>2, StepSplits
<1>7. CASE NodeReadThrows \/ (NodeReadRest /\ NodeStrings(byteBuf) = <<>>)
  <2>1. got' = got /\ byteBuf' = <<>> /\ pc' = "idle" /\ m_MessageQueue' = m_MessageQueue \o NodeStrings(byteBuf)
    <3>1. <<>> \o <<>> = <<>>
      BY EmptySeq
    <3> QED
      BY <1>1, <1>7, <3>1 DEF NodeReadThrows, NodeReadRest, Return
  <2>2. Unread' = <<>>
    <3>1. <<>> \o <<>> = <<>>
      BY EmptySeq
    <3> QED
      BY <1>1, <2>1, <3>1 DEF Unread
  <2>3. StringsOf(Unread)' = <<>>
    BY <1>1, <2>2, NodeStringsEmpty DEF StringsOf
  <2>4. ChanNow = <<>> \o NodeStrings(byteBuf) /\ ChanNow' = (<<>> \o NodeStrings(byteBuf)) \o <<>>
    BY <1>1, <1>2, <1>3, <2>1, <2>3 DEF ChanNow
  <2>5. ChanNow' = ChanNow
    BY <1>5, <2>4, ConcatEmpty
  <2>6. Opened' <=> Opened
    BY <1>1, <2>1 DEF Opened
  <2> QED
    BY <1>4, <2>1, <2>5, <2>6, StepSame
<1> QED
  BY <1>6, <1>7

LEMMA LinuxChannelStep ==
  ASSUME PipeInv, ChannelInv, LinuxStarts \/ LinuxStep
  PROVE  signals \/ ChannelStep
<1> USE DEF program, readVars, timeVars, writeVars, browserVars, Return, Reports, ReadFails, WriteFails
<1>1. CASE \/ \E ms \in Settings : LinuxSetTimeout(ms)
           \/ LinuxReadStarts \/ LinuxWriteStarts \/ SecondPasses \/ ReadSelected \/ ReadEnd \/ SplitNothing
           \/ WriteSelected \/ WriteBytes \/ WriteInterrupted \/ WriteBroken
  <2>1. /\ UNCHANGED <<port, byteBuf, inPipe, written, got, m_MessageQueue, alive>>
        /\ pc # "new" /\ pc' # "new"
    BY <1>1 DEF LinuxSetTimeout, SetsTimeout, LinuxReadStarts, StartsRead, Goes, LinuxWriteStarts, WriteBegins,
         StartsWrite, SecondPasses, SelectWaits, ReadSelected, ReadEnd, SplitNothing, WriteSelected, WriteBytes,
         WriteInterrupted, WriteBroken
  <2> QED
    BY <2>1, StepQuiet
<1>2. CASE SelectTimesOut
  <2>1. CASE pc = "writeSelect"
    <3>1. /\ UNCHANGED <<port, byteBuf, inPipe, written, got, m_MessageQueue, alive>>
          /\ pc # "new" /\ pc' # "new"
      BY <1>2, <2>1 DEF SelectTimesOut, GivesUp
    <3> QED
      BY <3>1, StepQuiet
  <2>2. CASE pc = "readSelect"
    <3>1. /\ UNCHANGED <<port, inPipe, written, got, m_MessageQueue, alive>> /\ byteBuf' = <<>> /\ pc' # "new"
          /\ inPipe = <<>> /\ alive /\ Reading /\ port = "linux" /\ (byteBuf = <<>> \/ Last(byteBuf) # NUL)
      BY <1>2, <2>2 DEF SelectTimesOut, GivesUp, SelectWaits, InReady, PipeInv, PlacesOK, ChannelInv,
           Reading, LinuxReading
    <3>2. written \in Nat /\ Taken = written /\ Taken <= written /\ written <= written /\ inPipe' = Part(written, written)
      BY <3>1, ChanHere
    <3> QED
      BY <3>1, <3>2, StepForgets
  <2> QED
    BY <1>2, <2>1, <2>2 DEF SelectTimesOut, SelectWaits
<1>3. CASE SelectInterrupted \/ ReadInterrupted
  BY <1>3 DEF SelectInterrupted, ReadInterrupted
<1>4. CASE ReadChunk
  <2>1. /\ inPipe # <<>> /\ TakesChunk /\ byteBuf' = byteBuf \o Chunk
        /\ UNCHANGED <<port, written, alive, got, m_MessageQueue>> /\ pc # "new" /\ pc' # "new"
    BY <1>4 DEF ReadChunk
  <2> QED
    BY <2>1, StepReadsOn
<1>5. CASE SplitMessages
  BY <1>5, StepSplitsHeld
<1>6. CASE SplitNoMessage
  BY <1>6, StepNoMessage
<1> QED
  BY <1>1, <1>2, <1>3, <1>4, <1>5, <1>6 DEF LinuxStarts, LinuxStep

\* What is left in the pipe behind a chunk or a part of one.
LEMMA RestOfPipe ==
  ASSUME PipeInv, NEW n \in 0 .. ChunkLength
  PROVE  \E b \in Nat : /\ Taken <= b /\ b <= written
                        /\ SubSeq(inPipe, n + 1, Len(inPipe)) = Part(b, written)
<1>1. PICK t \in Nat, w \in Nat : t = Taken /\ w = written
  BY ChanHere
<1>2. t <= w /\ w <= Len(Stream) /\ inPipe = Part(t, w)
  BY <1>1, ChanHere
<1>3. Len(inPipe) = w - t /\ w - t \in Nat
  <2>1. w - t \in Nat
    BY <1>2
  <2>2. Len(Part(t, w)) = w - t
    BY <1>2, PartStep
  <2> QED
    BY <1>2, <2>1, <2>2
<1>4. n \in 0 .. w - t
  BY <1>3, BufferAssumption DEF ChunkLength
<1>5. SubSeq(Part(t, w), n + 1, w - t) = Part(t + n, w)
  BY <1>2, <1>4, PartOfPart
<1>6. t + n \in Nat /\ t <= t + n /\ t + n <= w
  BY <1>4
<1> QED
  BY <1>1, <1>2, <1>3, <1>5, <1>6

LEMMA WindowsChannelStep ==
  ASSUME PipeInv, ChannelInv, WindowsStarts \/ WindowsStep \/ WindowsWriteGoesOn
  PROVE  ChannelStep
<1> USE DEF program, readVars, timeVars, writeVars, browserVars, Return, Reports, ReadFails, WriteFails
<1>1. CASE \/ \E ms \in Settings : WindowsSetTimeout(ms)
           \/ WindowsReadStarts \/ WindowsWriteStarts \/ WindowsWriteCannot \/ WindowsReadTimesOut
           \/ WindowsWriteCompletes \/ WindowsWriteBroken \/ WindowsWriteTimesOut \/ WindowsWriteCancels
           \/ WindowsWriteGoesOn
  <2>1. /\ UNCHANGED <<port, byteBuf, inPipe, written, got, m_MessageQueue, alive>>
        /\ pc # "new" /\ pc' # "new"
    BY <1>1 DEF WindowsSetTimeout, SetsTimeout, WindowsReadStarts, StartsRead, Goes, WindowsWriteStarts, WriteBegins,
         StartsWrite, WindowsWriteCannot, WindowsReadTimesOut, WindowsWriteCompletes, WindowsWriteBroken,
         WindowsWriteTimesOut, WindowsWriteCancels, WindowsWriteGoesOn, WindowsWriting
  <2> QED
    BY <2>1, StepQuiet
<1>2. CASE WindowsReadCannot
  <2>1. /\ UNCHANGED <<port, inPipe, written, got, m_MessageQueue, alive>> /\ byteBuf' = <<>>
        /\ pc = "idle" /\ pc' # "new"
    BY <1>2 DEF WindowsReadCannot, StartsRead
  <2>2. byteBuf = <<>>
    BY <2>1 DEF PipeInv, QueueOK, Reading, LinuxReading, WindowsReading
  <2> QED
    BY <2>1, <2>2, StepQuiet
<1>3. CASE WindowsLaunch
  <2>1. /\ UNCHANGED <<port, byteBuf, inPipe, written, got, m_MessageQueue>> /\ pc = "new" /\ pc' # "new"
    BY <1>3 DEF WindowsLaunch
  <2>2. ~alive /\ written = 0 /\ port = "windows"
    BY <2>1 DEF ChannelInv, PipeInv, PlacesOK
  <2>3. Unread' = Unread /\ FirstUnread' = FirstUnread /\ FirstUnread = 0
    BY <2>1, <2>2, ChanHere DEF Unread, FirstUnread
  <2>4. ~ChannelCut /\ ~ChannelCut' /\ ChanNow' = ChanNow
    BY <2>1, <2>2, <2>3 DEF ChannelCut, ChanNow, StringsOf
  <2>5. CASE alive'
    <3>1. Opened /\ Opened'
      BY <2>1, <2>5 DEF Opened
    <3> QED
      BY <2>1, <2>4, <3>1, StepSame
  <2>6. CASE ~alive'
    <3>1. Opened /\ ~Opened'
      BY <2>1, <2>6 DEF Opened
    <3> QED
      BY <2>1, <2>4, <3>1, StepEnds
  <2> QED
    BY <2>5, <2>6
<1>4. CASE WindowsExit
  <2>1. /\ UNCHANGED <<port, byteBuf, inPipe, written, got, m_MessageQueue>> /\ pc # "new" /\ pc' # "new" /\ ~alive'
        /\ alive \in BOOLEAN /\ alive' = FALSE
    BY <1>4 DEF WindowsExit, PipeInv, TypeOK
  <2>2. CASE alive
    BY <2>1, <2>2, StepDies
  <2>3. CASE ~alive
    <3>1. alive' = alive
      BY <2>1, <2>3
    <3> QED
      BY <2>1, <3>1, StepQuiet
  <2> QED
    BY <2>2, <2>3
<1>5. CASE WindowsReadChunk
  <2>1. /\ inPipe # <<>> /\ TakesChunk /\ Reading /\ port = "windows" /\ pc # "new"
        /\ UNCHANGED <<port, written, alive>>
    BY <1>5 DEF WindowsReadChunk, PipeInv, PlacesOK, Reading, WindowsReading
  <2>2. CASE Last(Chunk) = NUL
    <3>1. Delivers(Split(byteBuf \o Chunk))
      BY <1>5, <2>2 DEF WindowsReadChunk
    <3>2. Split(byteBuf \o Chunk) = IF port = "node" THEN NodeStrings(byteBuf \o Chunk) ELSE Split(byteBuf \o Chunk)
      BY <2>1
    <3> QED
      BY <2>1, <2>2, <3>1, <3>2, StepChunk
  <2>3. CASE Last(Chunk) # NUL
    <3>1. byteBuf' = byteBuf \o Chunk /\ UNCHANGED <<pc, got, m_MessageQueue>>
      BY <1>5, <2>3 DEF WindowsReadChunk
    <3> QED
      BY <2>1, <3>1, StepReadsOn
  <2> QED
    BY <2>2, <2>3
<1>6. CASE WindowsReadBroken
  <2>1. /\ UNCHANGED <<port, inPipe, written, got, m_MessageQueue, alive>> /\ byteBuf' = <<>> /\ pc' # "new"
        /\ Reading /\ port = "windows"
    BY <1>6 DEF WindowsReadBroken, PipeInv, PlacesOK, Reading, WindowsReading
  <2>2. Taken \in Nat /\ Taken <= Taken /\ Taken <= written /\ inPipe' = Part(Taken, written)
    BY <2>1, ChanHere
  <2> QED
    BY <2>1, <2>2, StepForgets
<1>7. CASE WindowsReadCancels
  <2>1. PICK n \in 0 .. ChunkLength : inPipe' = SubSeq(inPipe, n + 1, Len(inPipe))
    BY <1>7 DEF WindowsReadCancels
  <2>2. /\ UNCHANGED <<port, written, got, m_MessageQueue, alive>> /\ byteBuf' = <<>> /\ pc' # "new"
        /\ Reading /\ port = "windows"
    BY <1>7 DEF WindowsReadCancels, PipeInv, PlacesOK, Reading, WindowsReading
  <2>3. PICK b \in Nat : Taken <= b /\ b <= written /\ inPipe' = Part(b, written)
    BY <2>1, RestOfPipe
  <2> QED
    BY <2>2, <2>3, StepForgets
<1> QED
  BY <1>1, <1>2, <1>3, <1>4, <1>5, <1>6, <1>7 DEF WindowsStarts, WindowsStep

LEMMA NodeChannelStep ==
  ASSUME PipeInv, ChannelInv, NodeStarts \/ NodeStep
  PROVE  ChannelStep
<1> USE DEF program, readVars, timeVars, writeVars, browserVars, Return, Reports, ReadFails, WriteFails
<1>1. CASE \/ \E ms \in Settings : NodeSetTimeout(ms)
           \/ NodeReadStarts \/ NodeWriteStarts \/ NodeReadNothing \/ NodeWriteBytes \/ NodeWriteThrows
  <2>1. /\ UNCHANGED <<port, byteBuf, inPipe, written, got, m_MessageQueue, alive>>
        /\ pc # "new" /\ pc' # "new"
    BY <1>1 DEF NodeSetTimeout, SetsTimeout, NodeReadStarts, StartsRead, Goes, NodeWriteStarts, WriteBegins,
         StartsWrite, NodeReadNothing, NodeMeetsEnd, NodeWriteBytes, NodeWriteThrows
  <2> QED
    BY <2>1, StepQuiet
<1>2. CASE NodeReadChunk
  <2>1. /\ inPipe # <<>> /\ TakesChunk /\ Reading /\ port = "node" /\ pc # "new"
        /\ UNCHANGED <<port, written, alive>>
    BY <1>2 DEF NodeReadChunk, PipeInv, PlacesOK, Reading
  <2>2. CASE Last(Chunk) = NUL
    <3>1. Delivers(NodeStrings(byteBuf \o Chunk))
      BY <1>2, <2>2 DEF NodeReadChunk
    <3>2. NodeStrings(byteBuf \o Chunk) = IF port = "node" THEN NodeStrings(byteBuf \o Chunk) ELSE Split(byteBuf \o Chunk)
      BY <2>1
    <3> QED
      BY <2>1, <2>2, <3>1, <3>2, StepChunk
  <2>3. CASE Last(Chunk) # NUL
    <3>1. byteBuf' = byteBuf \o Chunk /\ UNCHANGED <<pc, got, m_MessageQueue>>
      BY <1>2, <2>3 DEF NodeReadChunk
    <3> QED
      BY <2>1, <3>1, StepReadsOn
  <2> QED
    BY <2>2, <2>3
<1> QED
  BY <1>1, <1>2, StepNodeEnd DEF NodeStarts, NodeStep

LEMMA BrowserChannelStep ==
  ASSUME PipeInv, ChannelInv, BrowserStep
  PROVE  ChannelStep
<1> USE DEF program, readVars, timeVars, writeVars
<1>1. CASE BrowserReads
  <2>1. UNCHANGED <<port, byteBuf, inPipe, written, got, m_MessageQueue, alive, pc>>
    BY <1>1 DEF BrowserReads
  <2> QED
    BY <2>1, StepQuiet
<1>2. CASE BrowserDies
  <2>1. UNCHANGED <<port, byteBuf, inPipe, written, got, m_MessageQueue>> /\ alive /\ ~alive' /\ pc' # "new"
    BY <1>2 DEF BrowserDies, ChannelInv
  <2> QED
    BY <2>1, StepDies
<1> QED
  BY <1>1, <1>2, StepWrites DEF BrowserStep

LEMMA ChannelSteps == PipeInv /\ ChannelInv /\ [Next]_vars => signals \/ ChannelStep
<1> SUFFICES ASSUME PipeInv, ChannelInv, [Next]_vars  PROVE signals \/ ChannelStep
  OBVIOUS
<1>1. CASE UNCHANGED vars
  BY <1>1, StepQuiet DEF vars, program, readVars, browserVars
<1>2. CASE Next
  BY <1>2, StepQueue, LinuxChannelStep, WindowsChannelStep, NodeChannelStep, BrowserChannelStep
     DEF Next, StartCall, CallStep
<1> QED
  BY <1>1, <1>2

LEMMA ChannelStarts == Init => Channel!Init
<1> SUFFICES ASSUME Init  PROVE Channel!Init
  OBVIOUS
<1>1. <<>> \o <<>> = <<>> /\ Len(<<>>) = 0
  BY EmptySeq
<1>2. Unread = <<>> /\ FirstUnread = 0
  <2>1. Unread = <<>>
    BY <1>1 DEF Init, Unread
  <2>2. written = 0 /\ 0 - 0 = 0
    BY DEF Init
  <2> QED
    BY <1>1, <2>1, <2>2 DEF FirstUnread
<1>3. ChanNow = <<>>
  BY <1>1, <1>2, NothingUnread DEF Init, ChanNow
<1>4. ChannelCut = FALSE
  BY <1>2 DEF ChannelCut
<1>5. Opened = TRUE
  BY DEF Init, Opened
<1> QED
  BY <1>3, <1>4, <1>5 DEF Channel!Init, Init

(* Whatever the sizes of the messages, of the reads and of the pipe are, every step of
   the three implementations is a step of the channel the manager relies on, or none:
   Read loses messages only where the channel may, on Linux without signals by a time-out
   in the middle of a message alone. *)
THEOREM PipesImplementChannel == Spec => ImplementsChannel
<1>1. Init => Channel!Init /\ ChannelInv
  BY ChannelStarts, ChannelInvInit
<1>2. PipeInv /\ ChannelInv /\ [Next]_vars => ChannelInv'
  BY ChannelInvStep
<1>3. PipeInv /\ ChannelInv /\ [Next]_vars =>
        [\/ signals
         \/ Channel!Next
         \/ port = "windows" /\ Channel!Drop
         \/ port = "node" /\ Channel!EndTorn]_(Channel!channelVars)
  BY ChannelSteps DEF ChannelStep
<1> QED
  BY <1>1, <1>2, <1>3, PipeInvHolds, PTL DEF Spec, ImplementsChannel
=============================================================================
