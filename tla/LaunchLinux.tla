---------------------------- MODULE LaunchLinux ----------------------------
(***************************************************************************)
(* CDPPipe_Linux::Launch and Exit: two pipes, fork(), the child's moves of *)
(* its pipe ends to the descriptors 3 and 4 that Chrome's                  *)
(* --remote-debugging-pipe expects, exec, and the parent's one look at the *)
(* child with waitpid(WNOHANG).  Parent and child run concurrently and     *)
(* each has a descriptor table of its own.                                 *)
(***************************************************************************)
EXTENDS Integers

CONSTANTS
  MaxFd,        \* descriptors are 0 .. MaxFd
  Tables,       \* the sets of descriptors the program may have open at first
  MaxLaunches,  \* bound: number of launches
  Faults        \* the failures of this instance, a subset of FaultKinds

FaultKinds == {"fork",      \* fork() fails
               "dup2",      \* dup2() fails
               "exec",      \* no such browser, readlink() or execlp() fails
               "chrome",    \* the browser ends on its own
               "autoreap"}  \* SIGCHLD is ignored: an ended child leaves no status

Fd == 0 .. MaxFd

ASSUME FdAssumption == MaxFd \in Nat /\ MaxFd >= 4
ASSUME TablesAssumption == Tables \subseteq SUBSET Fd
ASSUME LaunchAssumption == MaxLaunches \in Nat /\ Faults \subseteq FaultKinds

\* What a descriptor refers to: an end of the pipe fd3 or of the pipe fd4.
Ends == {"free", "other", "fd3.read", "fd3.write", "fd4.read", "fd4.write"}

VARIABLES
  used,      \* descriptors open when the program starts
  table,     \* the parent's descriptors
  child,     \* the child's descriptors
  ppc,       \* where the parent is in Launch
  cpc,       \* where the child is
  fd3, fd4,  \* locals: the descriptors pipe() returned, [0 |-> read, 1 |-> write]
  connected, \* m_PID, m_WriteFD and m_ReadFD are set
  ret,       \* what the last Launch returned
  launches,  \* number of launches so far
  before     \* history: the parent's pipe ends when the last Launch began

members == <<connected, ret, launches, before>>
vars == <<used, table, child, ppc, cpc, fd3, fd4, members>>

ChildPlaces == {"none", "close", "dup3", "dup4", "closeOriginals", "exec",
                "chrome", "exit0", "exit1", "signaled"}
ChildEnded == cpc \in {"exit0", "exit1", "signaled"}

TypeOK ==
  /\ used \subseteq Fd
  /\ table \in [Fd -> Ends] /\ child \in [Fd -> Ends]
  /\ ppc \in {"idle", "pipe4", "fork", "close", "wait"}
  /\ cpc \in ChildPlaces
  /\ fd3 \in [{0, 1} -> Fd] /\ fd4 \in [{0, 1} -> Fd]
  /\ connected \in BOOLEAN /\ ret \in {"none", "true", "false"}
  /\ launches \in Nat /\ before \subseteq Fd

StartTable(open) == [f \in Fd |-> IF f \in open THEN "other" ELSE "free"]
ZeroPair == [i \in {0, 1} |-> 0]

Init ==
  /\ used \in Tables
  /\ table = StartTable(used) /\ child = StartTable({})
  /\ ppc = "idle" /\ cpc = "none"
  /\ fd3 = ZeroPair /\ fd4 = ZeroPair
  /\ connected = FALSE /\ ret = "none" /\ launches = 0 /\ before = {}

-----------------------------------------------------------------------------
(* System calls on a descriptor table. *)

Free(t) == {f \in Fd : t[f] = "free"}
Lowest(S) == CHOOSE f \in S : \A g \in S : f <= g

PipeEnds(t) == {f \in Fd : t[f] \notin {"free", "other"}}

Close(t, f) == [t EXCEPT ![f] = "free"]
Dup2(t, old, new) == [t EXCEPT ![new] = t[old]]

\* pipe() takes the two lowest free descriptors.
CanPipe(t) == \E f, g \in Free(t) : f # g
FirstFree(t)  == Lowest(Free(t))
SecondFree(t) == Lowest(Free(t) \ {FirstFree(t)})

-----------------------------------------------------------------------------
(* The parent: bool Launch() *)

Returns(value) == ppc' = "idle" /\ ret' = value

\* The guard is the caller's: it launches what is not connected.
LaunchPipe3 ==
  /\ ppc = "idle" /\ ~connected /\ cpc \in {"none", "chrome", "exit0", "exit1", "signaled"}
  /\ launches < MaxLaunches /\ launches' = launches + 1 /\ before' = PipeEnds(table)
  /\ IF CanPipe(table)
     THEN /\ fd3' = [i \in {0, 1} |-> IF i = 0 THEN FirstFree(table) ELSE SecondFree(table)]
          /\ table' = [table EXCEPT ![fd3'[0]] = "fd3.read", ![fd3'[1]] = "fd3.write"]
          /\ ppc' = "pipe4" /\ UNCHANGED ret
     ELSE Returns("false") /\ UNCHANGED <<fd3, table>>
  /\ cpc' = "none"
  /\ UNCHANGED <<used, child, fd4, connected>>

\* Mutant: Launch goes on without the second pipe.
LaunchPipe4Unchecked ==
  /\ ppc = "pipe4" /\ ppc' = "fork"
  /\ IF CanPipe(table)
     THEN /\ fd4' = [i \in {0, 1} |-> IF i = 0 THEN FirstFree(table) ELSE SecondFree(table)]
          /\ table' = [table EXCEPT ![fd4'[0]] = "fd4.read", ![fd4'[1]] = "fd4.write"]
     ELSE fd4' = [i \in {0, 1} |-> -1] /\ UNCHANGED table
  /\ UNCHANGED <<used, child, cpc, fd3, members>>

\* Without a second pipe Launch returns and the first stays open.
LaunchPipe4 ==
  /\ ppc = "pipe4"
  /\ IF CanPipe(table)
     THEN /\ fd4' = [i \in {0, 1} |-> IF i = 0 THEN FirstFree(table) ELSE SecondFree(table)]
          /\ table' = [table EXCEPT ![fd4'[0]] = "fd4.read", ![fd4'[1]] = "fd4.write"]
          /\ ppc' = "fork" /\ UNCHANGED ret
     ELSE Returns("false") /\ UNCHANGED <<fd4, table>>
  /\ UNCHANGED <<used, child, cpc, fd3, connected, launches, before>>

\* Without a child Launch returns and both pipes stay open.
LaunchForks ==
  /\ ppc = "fork"
  /\ \/ child' = table /\ cpc' = "close" /\ ppc' = "close" /\ UNCHANGED ret
     \/ "fork" \in Faults /\ Returns("false") /\ UNCHANGED <<child, cpc>>
  /\ UNCHANGED <<used, table, fd3, fd4, connected, launches, before>>

\* Mutants: the parent closes the browser's numbers, or its own ends.
LaunchClosesNumbers ==
  /\ ppc = "close" /\ ppc' = "wait"
  /\ table' = Close(Close(table, 3), 4)
  /\ UNCHANGED <<used, child, cpc, fd3, fd4, members>>

LaunchClosesItsEnds ==
  /\ ppc = "close" /\ ppc' = "wait"
  /\ table' = Close(Close(table, fd3[1]), fd4[0])
  /\ UNCHANGED <<used, child, cpc, fd3, fd4, members>>

LaunchCloses ==
  /\ ppc = "close"
  /\ table' = Close(Close(table, fd3[0]), fd4[1])
  /\ ppc' = "wait"
  /\ UNCHANGED <<used, child, cpc, fd3, fd4, members>>

\* waitpid(WNOHANG) = 0: the child, browser already or not yet, has not ended.
LaunchSeesChild ==
  /\ ppc = "wait" /\ ~ChildEnded
  /\ connected' = TRUE /\ Returns("true")
  /\ UNCHANGED <<used, table, child, cpc, fd3, fd4, launches, before>>

\* Mutant: the parent closes the child's ends once more instead of its own.
LaunchClosesAgain ==
  /\ ppc = "wait" /\ ChildEnded
  /\ \/ /\ cpc = "exit1" \/ "autoreap" \in Faults
        /\ table' = Close(Close(table, fd3[0]), fd4[1])
        /\ Returns("false")
     \/ /\ cpc # "exit1" \/ "autoreap" \in Faults
        /\ Returns("true") /\ UNCHANGED table
  /\ UNCHANGED <<used, child, cpc, fd3, fd4, connected, launches, before>>

(* The child has ended.  Only an exit status other than 0 counts as a failure;
   a status that waitpid could not fill in is whatever the stack held. *)
LaunchSeesEnd ==
  /\ ppc = "wait" /\ ChildEnded
  /\ \/ /\ cpc = "exit1" \/ "autoreap" \in Faults
        /\ table' = Close(Close(table, fd3[1]), fd4[0])
        /\ Returns("false")
     \/ /\ cpc # "exit1" \/ "autoreap" \in Faults
        /\ Returns("true") /\ UNCHANGED table
  /\ UNCHANGED <<used, child, cpc, fd3, fd4, connected, launches, before>>

\* Mutant: Exit leaves the read end open.
ExitClosesOne ==
  /\ ppc = "idle" /\ connected
  /\ table' = Close(table, fd3[1])
  /\ connected' = FALSE
  /\ cpc' = IF ChildEnded THEN cpc ELSE "signaled"
  /\ UNCHANGED <<used, child, ppc, fd3, fd4, ret, launches, before>>

(* void Exit(): SIGKILL ends the child wherever it is.  It is not waited for. *)
Exit ==
  /\ ppc = "idle" /\ connected
  /\ table' = Close(Close(table, fd3[1]), fd4[0])
  /\ connected' = FALSE
  /\ cpc' = IF ChildEnded THEN cpc ELSE "signaled"
  /\ UNCHANGED <<used, child, ppc, fd3, fd4, ret, launches, before>>

-----------------------------------------------------------------------------
(* The child between fork() and exec. *)

ChildMoves(from, to) ==
  /\ cpc = from /\ cpc' = to
  /\ UNCHANGED <<used, table, ppc, fd3, fd4, members>>

ChildCloses ==
  /\ ChildMoves("close", "dup3")
  /\ child' = Close(Close(child, fd3[1]), fd4[0])

ChildDups3 ==
  /\ ChildMoves("dup3", "dup4")
  /\ child' = Dup2(child, fd3[0], 3)

ChildDups4 ==
  /\ ChildMoves("dup4", "closeOriginals")
  /\ child' = Dup2(child, fd4[1], 4)

\* Mutant: the child closes the originals without looking at their numbers.
ChildClosesBoth ==
  /\ ChildMoves("closeOriginals", "exec")
  /\ child' = Close(Close(child, fd3[0]), fd4[1])

\* The second test looks at fd3[1] where fd4[1] is meant.
ChildClosesOriginals ==
  /\ ChildMoves("closeOriginals", "exec")
  /\ LET one == IF fd3[0] # 3 THEN Close(child, fd3[0]) ELSE child
     IN  child' = IF fd3[1] # 4 THEN Close(one, fd4[1]) ELSE one

ChildExecs == ChildMoves("exec", "chrome") /\ UNCHANGED child

ChildFails ==
  /\ \/ "dup2" \in Faults /\ (ChildMoves("dup3", "exit1") \/ ChildMoves("dup4", "exit1"))
     \/ "exec" \in Faults /\ ChildMoves("exec", "exit1")
  /\ UNCHANGED child

\* External: the browser exits, well or badly, or a signal ends it.
ChromeEnds ==
  /\ "chrome" \in Faults
  /\ \E how \in {"exit0", "exit1", "signaled"} : ChildMoves("chrome", how)
  /\ UNCHANGED child

-----------------------------------------------------------------------------

ParentStep ==
  \/ LaunchPipe3 \/ LaunchPipe4 \/ LaunchForks \/ LaunchCloses
  \/ LaunchSeesChild \/ LaunchSeesEnd \/ Exit

ChildStep ==
  \/ ChildCloses \/ ChildDups3 \/ ChildDups4 \/ ChildClosesOriginals
  \/ ChildExecs \/ ChildFails \/ ChromeEnds

Next == ParentStep \/ ChildStep

Spec == Init /\ [][Next]_vars

-----------------------------------------------------------------------------
(* Properties. *)

Wired == child[3] = "fd3.read" /\ child[4] = "fd4.write"

(* Chrome finds its pipes on 3 and 4 exactly when pipe() did not put the ends the
   child keeps in each other's way: for which descriptor numbers the moves and
   closes between fork() and exec work. *)
WiredUnlessInTheWay ==
  cpc = "chrome" => (Wired <=> fd3[0] # 4 /\ fd4[1] \notin {3, 4})

(* "fd3을 읽기 3 복제", "fd4 쓰기 4로 복제": the browser has the command pipe on 3 and
   the message pipe on 4. *)
ChromeIsWired == cpc = "chrome" => Wired

(* What the program had open stays open in it and refers to what it did, through
   every launch, failure and Exit: the closes hit pipe ends only. *)
ProgramFilesUntouched == \A f \in used : table[f] = "other"

(* While it is connected, the parent's two descriptors are the end it writes
   commands to and the end it reads messages from, the browser's are not among
   them, and the pipes an earlier Launch gave up on have not taken their place. *)
ConnectedEnds ==
  connected => /\ table[fd3[1]] = "fd3.write" /\ table[fd4[0]] = "fd4.read"
               /\ PipeEnds(table) = before \cup {fd3[1], fd4[0]}

(* Exit after a Launch, and a Launch that finds its child has failed, leave the
   parent the pipe ends it had before: these two use no descriptor up.  (A Launch
   that fails at the second pipe() or at fork(), or whose child has ended with
   status 0, does.) *)
LaunchIsUndone ==
  [][(connected /\ ~connected') \/ (ppc = "wait" /\ ppc' = "idle" /\ ret' = "false")
       => PipeEnds(table') = before]_vars

(* What a Launch that does not connect has used up: both ends of the first pipe when
   there is no second, all four ends when there is no child, the parent's two when it
   returns true for a child that has already gone, and nothing when it has seen the
   child fail.  No later Launch or Exit gives them back. *)
Kept ==
  CASE ppc = "pipe4" -> {fd3[0], fd3[1]}
    [] ppc = "fork" -> {fd3[0], fd3[1], fd4[0], fd4[1]}
    [] ppc = "wait" /\ ret' = "true" -> {fd3[1], fd4[0]}
    [] OTHER -> {}
FailedLaunchKeeps ==
  [][/\ before' \subseteq PipeEnds(table')
     /\ ppc # "idle" /\ ppc' = "idle" /\ ~connected' => PipeEnds(table') = before \cup Kept]_vars
=============================================================================
