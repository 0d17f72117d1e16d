------------------------- MODULE LaunchLinux_proofs -------------------------
(* What holds of LaunchLinux for any number of descriptors, any descriptors open
   at the start, any number of launches and any of the failures. *)
EXTENDS LaunchLinux, WellFoundedInduction, TLAPS

-----------------------------------------------------------------------------
(* Choosing the lowest descriptor. *)

\* Lowest finds a member of every set of descriptors that is not empty.
LEMMA LowestProperties ==
  ASSUME NEW S, S \subseteq Nat, S # {}
  PROVE  Lowest(S) \in S
<1>1. \E x \in S : \A y \in S : ~ (<<y, x>> \in OpToRel(<, Nat))
  BY NatLessThanWellFounded, WFMin
<1>2. PICK x \in S : \A y \in S : ~ (<<y, x>> \in OpToRel(<, Nat))
  BY <1>1
<1>3. ASSUME NEW y \in S, y < x  PROVE FALSE
  <2>1. x \in Nat /\ y \in Nat
    OBVIOUS
  <2>2. <<y, x>> \in OpToRel(<, Nat)
    BY <1>3, <2>1 DEF OpToRel
  <2> QED
    BY <1>2, <2>2
<1>4. \A y \in S : x <= y
  BY <1>3
<1> QED
  BY <1>4 DEF Lowest

\* The descriptors of a pipe are two different ones that were free.
LEMMA PipeProperties ==
  ASSUME NEW t, CanPipe(t)
  PROVE  /\ FirstFree(t) \in Free(t) /\ SecondFree(t) \in Free(t)
         /\ FirstFree(t) # SecondFree(t)
<1>1. Free(t) \subseteq Nat
  BY FdAssumption DEF Free, Fd
<1>2. Free(t) # {} /\ FirstFree(t) \in Free(t)
  BY <1>1, LowestProperties DEF CanPipe, FirstFree
<1>3. Free(t) \ {FirstFree(t)} # {}
  BY <1>2 DEF CanPipe
<1> QED
  BY <1>1, <1>2, <1>3, LowestProperties DEF SecondFree

-----------------------------------------------------------------------------
(* The inductive invariant. *)

Pipe3Open == table[fd3[0]] = "fd3.read" /\ table[fd3[1]] = "fd3.write" /\ fd3[0] # fd3[1]
Pipe4Open == table[fd4[0]] = "fd4.read" /\ table[fd4[1]] = "fd4.write" /\ fd4[0] # fd4[1]
OwnEndsOpen == table[fd3[1]] = "fd3.write" /\ table[fd4[0]] = "fd4.read"
AllDiffer ==
  fd3[0] # fd3[1] /\ fd4[0] # fd4[1] /\ {fd3[0], fd3[1]} \cap {fd4[0], fd4[1]} = {}

\* The ends that Launch has opened since it began, as far as it is.
Held ==
  IF ppc = "pipe4" THEN {fd3[0], fd3[1]}
  ELSE IF ppc \in {"fork", "close"} THEN {fd3[0], fd3[1], fd4[0], fd4[1]}
  ELSE IF ppc = "wait" \/ connected THEN {fd3[1], fd4[0]} ELSE {}

ParentInv ==
  /\ \A f \in used : table[f] = "other"
  /\ ppc \in {"pipe4", "fork", "close"} => Pipe3Open
  /\ ppc \in {"fork", "close"} => Pipe4Open
  /\ ppc = "wait" \/ connected => OwnEndsOpen
  /\ connected => ppc = "idle"
  /\ ppc \in {"pipe4", "fork"} => cpc = "none"
  /\ before \cap Held = {}
  /\ ppc # "idle" \/ connected => PipeEnds(table) = before \cup Held

\* What the child's ends are at each step of its way to exec.
ChildInv ==
  /\ cpc \in {"close", "dup3", "dup4", "closeOriginals"} => AllDiffer
  /\ cpc \in {"close", "dup3"} => child[fd3[0]] = "fd3.read" /\ child[fd4[1]] = "fd4.write"
  /\ cpc = "dup4" => /\ child[3] = "fd3.read"
                     /\ fd4[1] # 3 => child[fd4[1]] = "fd4.write"
  /\ cpc = "closeOriginals" =>
       /\ child[3] = "fd3.read"
       /\ child[4] = IF fd4[1] = 3 THEN "fd3.read" ELSE "fd4.write"
  /\ cpc \in {"exec", "chrome"} => (Wired <=> fd3[0] # 4 /\ fd4[1] \notin {3, 4})

Inv == TypeOK /\ ParentInv /\ ChildInv

LEMMA InitInv == Init => Inv
<1> SUFFICES ASSUME Init PROVE Inv
  OBVIOUS
<1>1. TypeOK
  <2>1. used \subseteq Fd
    BY TablesAssumption DEF Init
  <2>2. 0 \in Fd
    BY FdAssumption DEF Fd
  <2> QED
    BY <2>1, <2>2 DEF Init, TypeOK, StartTable, ZeroPair, Ends, ChildPlaces
<1>2. ParentInv
  BY TablesAssumption DEF Init, ParentInv, StartTable, Held
<1>3. ChildInv
  BY DEF Init, ChildInv
<1> QED
  BY <1>1, <1>2, <1>3 DEF Inv

LEMMA NextInv == Inv /\ [Next]_vars => Inv'
<1> SUFFICES ASSUME Inv, [Next]_vars PROVE Inv'
  OBVIOUS
<1> USE DEF Inv
<1>0. 3 \in Fd /\ 4 \in Fd /\ 0 \in {0, 1} /\ 1 \in {0, 1}
  BY FdAssumption DEF Fd
<1>1. CASE LaunchPipe3
  <2>1. CASE CanPipe(table)
    <3> DEFINE a == FirstFree(table)
               b == SecondFree(table)
    <3>1. a \in Free(table) /\ b \in Free(table) /\ a # b
      BY <2>1, PipeProperties
    <3>2. fd3' \in [{0, 1} -> Fd] /\ fd3'[0] = a /\ fd3'[1] = b
      BY <1>1, <2>1, <3>1 DEF LaunchPipe3, Free
    <3>3. table' = [table EXCEPT ![a] = "fd3.read", ![b] = "fd3.write"]
      BY <1>1, <2>1, <3>2 DEF LaunchPipe3
    <3>4. ppc' = "pipe4" /\ cpc' = "none" /\ ~connected' /\ before' = PipeEnds(table)
      BY <1>1, <2>1 DEF LaunchPipe3
    <3> HIDE DEF a, b
    <3>5. TypeOK'
      BY <1>1, <2>1, <3>1, <3>2, <3>3, <3>4 DEF LaunchPipe3, TypeOK, Ends, ChildPlaces, PipeEnds, Free
    <3>6. Held' = {a, b} /\ PipeEnds(table') = PipeEnds(table) \cup {a, b}
          /\ PipeEnds(table) \cap {a, b} = {}
      BY <3>1, <3>2, <3>3, <3>4 DEF Held, PipeEnds, Free, TypeOK
    <3>7. ParentInv'
      BY <1>1, <3>1, <3>2, <3>3, <3>4, <3>6 DEF LaunchPipe3, ParentInv, TypeOK, Pipe3Open, Free
    <3>8. ChildInv'
      BY <3>4 DEF ChildInv
    <3> QED
      BY <3>5, <3>7, <3>8
  <2>2. CASE ~CanPipe(table)
    <3>1. TypeOK'
      BY <1>1, <2>2 DEF LaunchPipe3, Returns, TypeOK, PipeEnds, ChildPlaces
    <3>2. ParentInv'
      BY <1>1, <2>2 DEF LaunchPipe3, Returns, ParentInv, Held, PipeEnds
    <3>3. ChildInv'
      BY <1>1 DEF LaunchPipe3, ChildInv
    <3> QED
      BY <3>1, <3>2, <3>3
  <2> QED
    BY <2>1, <2>2
<1>2. CASE LaunchPipe4
  <2>1. CASE CanPipe(table)
    <3> DEFINE a == FirstFree(table)
               b == SecondFree(table)
    <3>1. a \in Free(table) /\ b \in Free(table) /\ a # b
      BY <2>1, PipeProperties
    <3>2. fd4' \in [{0, 1} -> Fd] /\ fd4'[0] = a /\ fd4'[1] = b
      BY <1>2, <2>1, <3>1 DEF LaunchPipe4, Free
    <3>3. table' = [table EXCEPT ![a] = "fd4.read", ![b] = "fd4.write"]
      BY <1>2, <2>1, <3>2 DEF LaunchPipe4
    <3>4. ppc = "pipe4" /\ ppc' = "fork" /\ UNCHANGED <<used, child, cpc, fd3, members>>
      BY <1>2, <2>1 DEF LaunchPipe4, members
    <3> HIDE DEF a, b
    <3>5. TypeOK'
      BY <1>2, <2>1, <3>1, <3>2, <3>3, <3>4 DEF LaunchPipe4, TypeOK, Ends, ChildPlaces, PipeEnds, Free, members
    <3>6. Held' = Held \cup {a, b} /\ PipeEnds(table') = PipeEnds(table) \cup {a, b}
          /\ PipeEnds(table) \cap {a, b} = {}
      BY <3>1, <3>2, <3>3, <3>4 DEF Held, PipeEnds, Free, TypeOK
    <3>7. ParentInv'
      BY <3>1, <3>2, <3>3, <3>4, <3>6 DEF ParentInv, TypeOK, Pipe3Open, Pipe4Open, Free, members
    <3>8. ChildInv'
      BY <3>4 DEF ChildInv, ParentInv
    <3> QED
      BY <3>5, <3>7, <3>8
  <2>2. CASE ~CanPipe(table)
    <3>1. TypeOK'
      BY <1>2, <2>2 DEF LaunchPipe4, Returns, TypeOK
    <3>2. ParentInv'
      BY <1>2, <2>2 DEF LaunchPipe4, Returns, ParentInv, Held
    <3>3. ChildInv'
      BY <1>2, <2>2 DEF LaunchPipe4, ParentInv, ChildInv
    <3> QED
      BY <3>1, <3>2, <3>3
  <2> QED
    BY <2>1, <2>2
<1>3. CASE LaunchForks
  <2>1. TypeOK'
    BY <1>3 DEF LaunchForks, Returns, TypeOK, ChildPlaces
  <2>2. ParentInv'
    BY <1>3 DEF LaunchForks, Returns, ParentInv, Held, Pipe3Open, Pipe4Open
  <2>3. cpc' \in {"none", "close"}
    BY <1>3 DEF LaunchForks, ParentInv
  <2>4. AllDiffer'
    BY <1>3, <1>0 DEF LaunchForks, ParentInv, Pipe3Open, Pipe4Open, AllDiffer
  <2>5. cpc' = "close" => child'[fd3[0]] = "fd3.read" /\ child'[fd4[1]] = "fd4.write"
    BY <1>3 DEF LaunchForks, ParentInv, Pipe3Open, Pipe4Open
  <2>6. ChildInv'
    <3>1. CASE cpc' = "none"
      BY <3>1 DEF ChildInv
    <3>2. CASE cpc' = "close"
      <4>1. fd3' = fd3 /\ fd4' = fd4
        BY <1>3 DEF LaunchForks
      <4> QED
        BY <3>2, <4>1, <2>4, <2>5 DEF ChildInv
    <3> QED
      BY <2>3, <3>1, <3>2
  <2> QED
    BY <2>1, <2>2, <2>6
<1>4. CASE LaunchCloses
  <2>1. TypeOK'
    BY <1>4, <1>0 DEF LaunchCloses, TypeOK, Close, Ends, members
  <2>2. Held' = {fd3[1], fd4[0]} /\ PipeEnds(table') = PipeEnds(table) \ {fd3[0], fd4[1]}
    BY <1>4, <1>0 DEF LaunchCloses, TypeOK, Close, PipeEnds, Held, members
  <2>3. ParentInv'
    <3>1. ppc' = "wait" /\ UNCHANGED <<used, cpc, fd3, fd4, connected, launches, before>>
      BY <1>4 DEF LaunchCloses, members
    <3>2. connected => ppc = "idle"
      BY DEF ParentInv
    <3>3. ~connected'
      BY <1>4, <3>1, <3>2 DEF LaunchCloses
    <3>4. Pipe3Open /\ Pipe4Open
      BY <1>4 DEF LaunchCloses, ParentInv
    <3>5. OwnEndsOpen'
      BY <1>4, <1>0, <3>1, <3>4 DEF LaunchCloses, Close, Pipe3Open, Pipe4Open, OwnEndsOpen, TypeOK
    <3>6. \A f \in used' : table'[f] = "other"
      BY <1>4, <1>0, <3>1, <3>4 DEF LaunchCloses, Close, Pipe3Open, Pipe4Open, ParentInv, TypeOK
    <3>7. Held = {fd3[0], fd3[1], fd4[0], fd4[1]} /\ PipeEnds(table) = before \cup Held
          /\ before \cap Held = {}
      BY <1>4 DEF LaunchCloses, ParentInv, Held
    <3>8. fd3[1] \notin {fd3[0], fd4[1]} /\ fd4[0] \notin {fd3[0], fd4[1]}
      BY <3>4 DEF Pipe3Open, Pipe4Open
    <3>9. before' \cap Held' = {} /\ PipeEnds(table') = before' \cup Held'
      BY <2>2, <3>1, <3>7, <3>8
    <3> QED
      BY <3>1, <3>3, <3>5, <3>6, <3>9 DEF ParentInv
  <2>4. ChildInv'
    BY <1>4 DEF LaunchCloses, ChildInv, AllDiffer, Wired
  <2> QED
    BY <2>1, <2>3, <2>4
<1>5. CASE LaunchSeesChild
  <2>1. TypeOK'
    BY <1>5 DEF LaunchSeesChild, Returns, TypeOK
  <2>2. ParentInv'
    BY <1>5 DEF LaunchSeesChild, Returns, ParentInv, Held, OwnEndsOpen
  <2>3. ChildInv'
    BY <1>5 DEF LaunchSeesChild, ChildInv, AllDiffer, Wired
  <2> QED
    BY <2>1, <2>2, <2>3
<1>6. CASE LaunchSeesEnd
  <2>1. TypeOK'
    BY <1>6, <1>0 DEF LaunchSeesEnd, Returns, TypeOK, Close, Ends
  <2>2. ParentInv'
    BY <1>6, <1>0 DEF LaunchSeesEnd, Returns, TypeOK, Close, ParentInv, Held, OwnEndsOpen
  <2>3. ChildInv'
    BY <1>6 DEF LaunchSeesEnd, ChildInv, AllDiffer, Wired
  <2> QED
    BY <2>1, <2>2, <2>3
<1>7. CASE Exit
  <2>1. TypeOK'
    BY <1>7, <1>0 DEF Exit, TypeOK, Close, Ends, ChildPlaces
  <2>2. ParentInv'
    BY <1>7, <1>0 DEF Exit, TypeOK, Close, ParentInv, Held, OwnEndsOpen
  <2>3. ChildInv'
    BY <1>7 DEF Exit, ChildInv, ChildEnded, AllDiffer, Wired
  <2> QED
    BY <2>1, <2>2, <2>3
<1>8. CASE ChildStep
  <2>1. ParentInv'
    BY <1>8 DEF ChildStep, ChildCloses, ChildDups3, ChildDups4, ChildClosesOriginals, ChildExecs,
                ChildFails, ChromeEnds, ChildMoves, members, ParentInv, Held, Pipe3Open, Pipe4Open,
                OwnEndsOpen
  <2>2. CASE ChildCloses
    BY <2>1, <2>2, <1>0 DEF ChildCloses, ChildMoves, members, TypeOK, Ends, ChildPlaces, Close,
                            ChildInv, AllDiffer
  <2>3. CASE ChildDups3
    BY <2>1, <2>3, <1>0 DEF ChildDups3, ChildMoves, members, TypeOK, Ends, ChildPlaces, Dup2,
                            ChildInv, AllDiffer
  <2>4. CASE ChildDups4
    BY <2>1, <2>4, <1>0 DEF ChildDups4, ChildMoves, members, TypeOK, Ends, ChildPlaces, Dup2,
                            ChildInv, AllDiffer
  <2>5. CASE ChildClosesOriginals
    BY <2>1, <2>5, <1>0 DEF ChildClosesOriginals, ChildMoves, members, TypeOK, Ends, ChildPlaces,
                            Close, ChildInv, AllDiffer, Wired
  <2>6. CASE ChildExecs
    BY <2>1, <2>6 DEF ChildExecs, ChildMoves, members, TypeOK, ChildPlaces, ChildInv, Wired
  <2>7. CASE ChildFails
    BY <2>1, <2>7 DEF ChildFails, ChildMoves, members, TypeOK, ChildPlaces, ChildInv
  <2>8. CASE ChromeEnds
    BY <2>1, <2>8 DEF ChromeEnds, ChildMoves, members, TypeOK, ChildPlaces, ChildInv
  <2> QED
    BY <1>8, <2>2, <2>3, <2>4, <2>5, <2>6, <2>7, <2>8 DEF ChildStep
<1>9. CASE UNCHANGED vars
  BY <1>9 DEF vars, members, TypeOK, ParentInv, ChildInv, Held, Pipe3Open, Pipe4Open, OwnEndsOpen,
              AllDiffer, Wired
<1> QED
  BY <1>1, <1>2, <1>3, <1>4, <1>5, <1>6, <1>7, <1>8, <1>9 DEF Next, ParentStep

(* The inductive invariant holds in every state that Launch, Exit and the child reach. *)
THEOREM InvHolds == Spec => []Inv
BY InitInv, NextInv, PTL DEF Spec

-----------------------------------------------------------------------------
(* What follows from it. *)

(* Every variable keeps to its type, whatever pipe() and fork() return. *)
THEOREM TypeCorrect == Spec => []TypeOK
BY InvHolds, PTL DEF Inv

(* For every descriptor table, the browser finds its pipes on 3 and 4 exactly when
   pipe() returned neither 4 as the read end of fd3 nor 3 or 4 as the write end of
   fd4: what the moves and closes of the child do and do not cope with. *)
THEOREM ChildWiring == Spec => []WiredUnlessInTheWay
<1>1. Inv => WiredUnlessInTheWay
  BY DEF Inv, ChildInv, WiredUnlessInTheWay
<1> QED
  BY <1>1, InvHolds, PTL

(* No close of Launch or Exit hits a descriptor that is not theirs. *)
THEOREM FilesUntouched == Spec => []ProgramFilesUntouched
<1>1. Inv => ProgramFilesUntouched
  BY DEF Inv, ParentInv, ProgramFilesUntouched
<1> QED
  BY <1>1, InvHolds, PTL

(* A connected parent holds the right end of each pipe, and beyond those two only
   what earlier launches left it. *)
THEOREM ParentEnds == Spec => []ConnectedEnds
<1>1. Inv => ConnectedEnds
  BY DEF Inv, ParentInv, ConnectedEnds, OwnEndsOpen, Held
<1> QED
  BY <1>1, InvHolds, PTL

(* Exit, and a Launch that sees its child fail, give back every descriptor that
   this Launch took. *)
THEOREM LaunchUndone == Spec => LaunchIsUndone
<1> DEFINE Undoes == (connected /\ ~connected') \/ (ppc = "wait" /\ ppc' = "idle" /\ ret' = "false")
<1>1. ASSUME Inv, Next, Undoes  PROVE PipeEnds(table') = before
  <2>1. table' = Close(Close(table, fd3[1]), fd4[0])
    BY <1>1 DEF Next, ParentStep, ChildStep, LaunchPipe3, LaunchPipe4, LaunchForks, LaunchCloses,
                LaunchSeesChild, LaunchSeesEnd, Exit, Returns, ChildCloses, ChildDups3, ChildDups4,
                ChildClosesOriginals, ChildExecs, ChildFails, ChromeEnds, ChildMoves, members
  <2>2. ppc = "wait" \/ connected
    BY <1>1
  <2>3. PipeEnds(table) = before \cup {fd3[1], fd4[0]} /\ before \cap {fd3[1], fd4[0]} = {}
    BY <1>1, <2>2 DEF Inv, ParentInv, Held
  <2> QED
    BY <1>1, <2>1, <2>3 DEF Inv, TypeOK, Close, PipeEnds
<1>2. Inv /\ [Next]_vars => [Undoes => PipeEnds(table') = before]_vars
  BY <1>1
<1> QED
  BY <1>2, InvHolds, PTL DEF Spec, LaunchIsUndone

\* Inv says what is open while a Launch is under way or connected; between launches
\* this much is left of it.
EarlierEndsOpen == before \subseteq PipeEnds(table)

\* How each step that ends a Launch without connecting leaves the table.
LEMMA FailureKeeps ==
  ASSUME Inv, Next, ppc # "idle", ppc' = "idle", ~connected'
  PROVE  before' = before /\ PipeEnds(table') = before \cup Kept
<1>0. /\ table \in [Fd -> Ends] /\ fd3[1] \in Fd /\ fd4[0] \in Fd
      /\ PipeEnds(table) = before \cup Held /\ before \cap Held = {}
  BY DEF Inv, TypeOK, ParentInv
<1>1. \/ LaunchPipe4 \/ LaunchForks \/ LaunchSeesChild \/ LaunchSeesEnd
  BY DEF Next, ParentStep, ChildStep, LaunchPipe3, LaunchCloses, Exit, ChildCloses, ChildDups3,
         ChildDups4, ChildClosesOriginals, ChildExecs, ChildFails, ChromeEnds, ChildMoves
<1>2. CASE LaunchPipe4
  BY <1>0, <1>2 DEF LaunchPipe4, Returns, Held, Kept
<1>3. CASE LaunchForks
  BY <1>0, <1>3 DEF LaunchForks, Returns, Held, Kept
<1>4. CASE LaunchSeesChild
  BY <1>4 DEF LaunchSeesChild
<1>5. CASE LaunchSeesEnd
  <2>1. ppc = "wait" /\ before' = before /\ Held = {fd3[1], fd4[0]}
    BY <1>5 DEF LaunchSeesEnd, Held
  <2>2. CASE ret' = "true"
    <3>1. table' = table
      BY <1>5, <2>2 DEF LaunchSeesEnd, Returns
    <3> QED
      BY <1>0, <2>1, <2>2, <3>1 DEF Kept
  <2>3. CASE ret' # "true"
    <3>1. table' = Close(Close(table, fd3[1]), fd4[0])
      BY <1>5, <2>3 DEF LaunchSeesEnd, Returns
    <3>2. PipeEnds(table') = PipeEnds(table) \ {fd3[1], fd4[0]}
      BY <1>0, <3>1 DEF Close, PipeEnds
    <3>3. Kept = {}
      BY <2>1, <2>3 DEF Kept
    <3> QED
      BY <1>0, <2>1, <3>2, <3>3
  <2> QED
    BY <2>2, <2>3
<1> QED
  BY <1>1, <1>2, <1>3, <1>4, <1>5

\* What earlier launches have kept is not given back.
LEMMA EarlierEndsStay ==
  ASSUME Inv, EarlierEndsOpen, [Next]_vars
  PROVE  EarlierEndsOpen'
<1>0. Inv'
  BY NextInv
<1>1. CASE ppc' # "idle" \/ connected'
  BY <1>0, <1>1 DEF Inv, ParentInv, EarlierEndsOpen
<1>2. CASE ppc' = "idle" /\ ~connected'
  <2>1. CASE ppc # "idle"
    <3>1. Next
      BY <1>2, <2>1 DEF vars
    <3> QED
      BY <1>2, <2>1, <3>1, FailureKeeps DEF EarlierEndsOpen
  <2>2. CASE ppc = "idle" /\ connected
    <3>1. Exit
      BY <1>2, <2>2 DEF vars, members, Next, ParentStep, ChildStep, LaunchPipe3, LaunchPipe4, LaunchForks,
              LaunchCloses, LaunchSeesChild, LaunchSeesEnd, ChildCloses, ChildDups3, ChildDups4,
              ChildClosesOriginals, ChildExecs, ChildFails, ChromeEnds, ChildMoves
    <3>2. /\ table \in [Fd -> Ends] /\ PipeEnds(table) = before \cup {fd3[1], fd4[0]}
          /\ before \cap {fd3[1], fd4[0]} = {}
      BY <2>2 DEF Inv, TypeOK, ParentInv, Held
    <3>3. table' = Close(Close(table, fd3[1]), fd4[0]) /\ before' = before
      BY <3>1 DEF Exit
    <3> QED
      BY <3>2, <3>3 DEF EarlierEndsOpen, Close, PipeEnds
  <2>3. CASE ppc = "idle" /\ ~connected
    <3>1. table' = table /\ (before' = before \/ before' = PipeEnds(table))
      BY <1>2, <2>3 DEF vars, members, Next, ParentStep, ChildStep, LaunchPipe3, LaunchPipe4, LaunchForks,
              LaunchCloses, LaunchSeesChild, LaunchSeesEnd, Exit, ChildCloses, ChildDups3, ChildDups4,
              ChildClosesOriginals, ChildExecs, ChildFails, ChromeEnds, ChildMoves
    <3> QED
      BY <3>1 DEF EarlierEndsOpen
  <2> QED
    BY <2>1, <2>2, <2>3
<1> QED
  BY <1>1, <1>2

(* A Launch that does not connect has used up exactly the descriptors that Kept names
   for the step it gave up at, and no later Launch, failed or not, and no Exit gives
   back what an earlier one kept: the program runs out of descriptors one failed
   Launch at a time. *)
THEOREM FailureUsesUp == Spec => FailedLaunchKeeps
<1> DEFINE Keeps == /\ before' \subseteq PipeEnds(table')
                    /\ ppc # "idle" /\ ppc' = "idle" /\ ~connected' =>
                         PipeEnds(table') = before \cup Kept
<1>1. Init => EarlierEndsOpen
  BY DEF Init, EarlierEndsOpen
<1>2. Inv /\ EarlierEndsOpen /\ [Next]_vars => EarlierEndsOpen'
  BY EarlierEndsStay
<1>3. Inv /\ EarlierEndsOpen /\ [Next]_vars => [Keeps]_vars
  <2> SUFFICES ASSUME Inv, EarlierEndsOpen, Next  PROVE Keeps
    OBVIOUS
  <2>1. before' \subseteq PipeEnds(table')
    BY EarlierEndsStay DEF EarlierEndsOpen
  <2> QED
    BY <2>1, FailureKeeps
<1> QED
  BY <1>1, <1>2, <1>3, InvHolds, PTL DEF Spec, FailedLaunchKeeps
=============================================================================
