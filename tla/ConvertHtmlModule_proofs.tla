---------------------- MODULE ConvertHtmlModule_proofs ----------------------
(* What the conversions promise their caller, for any jobs, any number of them and any
   of the failures: the result files, the end of the browser, and that they implement
   module Conversions.  The second half says the same of the conversions of the port to
   node. *)
EXTENDS ConvertHtmlModuleNode, CDPManager_proofs

-----------------------------------------------------------------------------
(* The inductive invariant. *)

NavegatePlaces == {"createWait", "attach", "attachWait", "enable", "metrics", "metricsWait",
                   "navigate", "loadWait"}
ImagePlaces == {"layoutWait", "capture", "captureWait"}
Outside == {"idle", "killed", "blocked"}

\* Where the current conversion is, and what its calls were given.
StageInv ==
  /\ stage # "new" => Running
  /\ stage = "new" => link = "unset"
  /\ stage \in {"new", "launched", "ready"} =>
       pc = "idle" /\ m_ID = 0 /\ m_MessageQueue = <<>> /\ cmds = <<>> /\ pending = {}
  /\ stage = "navegate" => /\ pc \in NavegatePlaces \cup Outside
                           /\ pc \notin Outside => local.url = job.url
  /\ stage = "capture" => /\ pc \in ImagePlaces \cup {"printWait"} \cup Outside
                          /\ pc \notin Outside => local.path = job.path
                          /\ pc \in ImagePlaces => job.kind = "image"
                          /\ pc = "printWait" => job.kind = "pdf"
  /\ stage = "leave" => pc = "idle"

\* No tab outlives its browser, and a conversion closes none itself.
TabsInv ==
  /\ link = "unset" => \A t \in Target : page[t].state \in {"free", "closed"}
  /\ \A c \in Elements(cmds) : c.method # "Target.closeTarget"

LoadedPage == [url |-> job.url, state |-> "loaded"]
LoadEvent(m) == m.kind = "event" /\ m.method = "Page.loadEventFired"
DataReply(m) == m.kind = "reply" /\ m.method \in DataMethods

NoPageLoads == \A t \in Target : page[t].state \notin {"loading", "loaded"}

Before == \/ stage \in {"new", "launched", "ready"}
          \/ stage = "navegate" /\ pc \in NavegatePlaces \ {"loadWait"}
Loading == stage = "navegate" /\ pc = "loadWait"
Capturing == \/ stage = "navegate" /\ pc = "idle" /\ ret = "true"
             \/ stage = "capture" /\ pc \notin Outside

\* Up to the command Page.navigate no page loads.
BeforeLoad ==
  Before =>
    /\ NoPageLoads
    /\ \A c \in Elements(cmds) : c.method \notin DataMethods \cup {"Page.navigate"}
    /\ \A m \in InFlight : ~LoadEvent(m) /\ ~DataReply(m)

\* Then one does, the one that was asked for, and its load event is the first of this
\* browser.
WhileLoading ==
  Loading =>
    /\ \A c \in Elements(cmds) :
         /\ c.method \notin DataMethods
         /\ c.method = "Page.navigate" =>
              /\ c.id = m_ID /\ c.session = local.sessionId /\ c.arg = local.url
              /\ NoPageLoads /\ \A m \in InFlight : ~LoadEvent(m)
    /\ \A t \in Target : page[t].state \in {"loading", "loaded"} =>
         t = local.targetId /\ page[t].url = local.url
    /\ \A m \in InFlight : ~DataReply(m) /\ (LoadEvent(m) => page[local.targetId].state = "loaded")

\* From the load event on the tab of m_SessionID shows the page, and so does every capture.
WhileCapturing ==
  Capturing =>
    /\ m_SessionID \in Session /\ attached[m_SessionID] \in Target
    /\ page[attached[m_SessionID]] = LoadedPage
    /\ \A c \in Elements(cmds) : /\ c.method # "Page.navigate"
                                 /\ c.method \in DataMethods => c.session = m_SessionID
    /\ \A m \in InFlight : DataReply(m) => m.value = [page |-> LoadedPage, method |-> m.method]

PagesInv == TabsInv /\ BeforeLoad /\ WhileLoading /\ WhileCapturing

\* Each conversion makes a manager of its own, so that it reads nothing an earlier browser
\* wrote, and what has the number of a capture is one.
OwnMessages == \A m \in Elements(m_MessageQueue) : m.browser = launches

ConvertInv == Inv /\ SessionInv /\ ConvertTypeOK /\ StageInv /\ PagesInv /\ OwnMessages

(* The conversions write different files, as module Conversions wants it. *)
PathsDiffer == \A i, j \in DOMAIN Jobs : Jobs[i].path = Jobs[j].path => i = j

\* Where a conversion has nothing left to do, and where that is to return true.
Over == stage \in {"capture", "leave"} /\ pc = "idle"
Finished == Over /\ ret = "true"

Whole(p) == disk[p] \notin {None, Part}

\* The file of a conversion is written as its last deed, and in full only when it then
\* returns true.
DiskInv ==
  /\ \A i \in DOMAIN Jobs : i > Len(results) + 1 => disk[Jobs[i].path] = None
  /\ Running => /\ disk[job.path] # None => Over
                /\ Whole(job.path) => ret = "true"
                /\ Finished => Whole(job.path) \/ "disk" \in Faults

-----------------------------------------------------------------------------
(* The calls of a conversion are calls of the manager. *)

LEMMA CurrentJob ==
  ASSUME ConvertTypeOK, Running
  PROVE  /\ Len(results) \in Nat /\ Len(results) + 1 \in DOMAIN Jobs /\ job \in Job
         /\ job.url \in Url /\ job.path \in Path
<1>1. Len(results) \in Nat /\ Len(Jobs) \in Nat /\ DOMAIN Jobs = 1 .. Len(Jobs)
  BY JobsAssumption, LenProperties DEF ConvertTypeOK
<1>2. Len(results) + 1 \in 1 .. Len(Jobs)
  BY <1>1 DEF Running
<1>3. job \in Job
  BY <1>2, JobsAssumption, ElementOfSeq DEF job
<1> QED
  BY <1>1, <1>2, <1>3 DEF Job

\* ~CDPManager() and the std::stod that throws are not calls of the manager's user.
LEMMA LeavesKeeps ==
  ASSUME Inv, SessionInv, ConvertLeaves
  PROVE  /\ Inv' /\ SessionInv'
         /\ InFlight' = {} /\ cmds' = <<>> /\ wire' = <<>> /\ pending' = {} /\ browser' = "none"
         /\ link' = "unset" /\ m_ID' = 0 /\ m_MessageQueue' = <<>> /\ pc' = "idle" /\ ret' = ret
         /\ disk' = disk
<1>1. /\ pc = "idle" /\ m_ID' = 0 /\ m_TargetID' = None /\ m_SessionID' = None /\ link' = "unset"
      /\ m_MessageQueue' = <<>> /\ m_Timeout' = FALSE
      /\ UNCHANGED <<pc, ret, local, disk>>
  BY DEF ConvertLeaves, ExitManager
<1>2. /\ cmds' = <<>> /\ wire' = <<>> /\ pending' = {} /\ browser' = "none"
      /\ UNCHANGED <<launches, attached, enabled>> /\ page' \in [Target -> Page]
  <2>1. CASE link = "open"
    <3>1. page \in [Target -> Page] /\ BrowserGone
      BY <2>1 DEF ConvertLeaves, ExitManager, Inv, TypeOK
    <3> QED
      BY <3>1 DEF BrowserGone, Page
  <2>2. CASE link = "unset"
    BY <2>2 DEF ConvertLeaves, ExitManager, browserVars, Inv, TypeOK, LinkInv
  <2> QED
    BY <2>1, <2>2 DEF Inv, TypeOK
<1>3. InFlight' = {} /\ Elements(cmds') = {} /\ Elements(wire') = {} /\ Elements(m_MessageQueue') = {}
  BY <1>1, <1>2 DEF InFlight, Elements
<1>4. m_MessageQueue' \in Seq(Message) /\ wire' \in Seq(Message) /\ cmds' \in Seq(Command)
  BY <1>1, <1>2, EmptySeq
<1>5. TypeOK'
  BY <1>1, <1>2, <1>4 DEF Inv, TypeOK
<1>6. LinkInv' /\ TrafficInv'
  BY <1>1, <1>2, <1>3 DEF LinkInv, TrafficInv, Elements
<1>7. AnswersInv'
  BY <1>1, <1>2, <1>3 DEF AnswersInv, OneBrowser, AnsweredOnce, TabsOfAnswers, AttachFollows, OnceIn, Apart,
     Elements
<1>8. NavegateInv' /\ SessionOfTarget'
  BY <1>1 DEF NavegateInv, SessionOfTarget
<1> QED
  BY <1>1, <1>2, <1>3, <1>5, <1>6, <1>7, <1>8 DEF Inv, SessionInv

LEMMA MarginKeeps ==
  ASSUME Inv, SessionInv, ConvertMarginThrows
  PROVE  Inv' /\ SessionInv'
<1>1. /\ ret' = "threw" /\ pc = "idle"
      /\ UNCHANGED <<pc, local, m_ID, m_TargetID, m_SessionID, m_Timeout, link, disk,
                     m_MessageQueue, cmds, wire, browserVars>>
  BY DEF ConvertMarginThrows
<1>2. TypeOK' /\ LinkInv'
  BY <1>1 DEF Inv, TypeOK, LinkInv, browserVars
<1>3. InFlight' = InFlight /\ Elements(cmds') = Elements(cmds) /\ Elements(wire') = Elements(wire)
  BY <1>1 DEF InFlight, browserVars
<1>4. TrafficInv'
  BY <1>1, <1>3, KeepsTraffic DEF browserVars
<1>5. AnswersInv'
  BY <1>1, <1>3, LossKeeps DEF SessionInv, AnswersInv, AnsweredOnce, browserVars
<1>6. NavegateInv'
  BY <1>1, NothingRemembered DEF WithSession
<1>7. SessionOfTarget'
  BY <1>1, MembersKeep DEF SessionInv, AttachedGoOn, browserVars
<1> QED
  BY <1>2, <1>4, <1>5, <1>6, <1>7 DEF Inv, SessionInv

LEMMA ManagerKeeps ==
  ASSUME Inv, SessionInv, ConvertTypeOK, StageInv, ConvertNext \/ UNCHANGED allVars
  PROVE  Inv' /\ SessionInv'
<1>1. CASE ConvertLaunches \/ ConvertSetsTimeout
  <2>1. Next
    BY <1>1 DEF ConvertLaunches, ConvertSetsTimeout, Next, StartCall
  <2> QED
    BY <2>1, NextInv, NextSession
<1>2. CASE ConvertNavegates \/ ConvertCaptures
  <2>1. job.url \in Url /\ job.path \in Path
    BY <1>2, CurrentJob DEF ConvertNavegates, ConvertCaptures, StageInv
  <2>2. Next
    BY <1>2, <2>1 DEF ConvertNavegates, ConvertCaptures, Next, StartCall
  <2> QED
    BY <2>2, NextInv, NextSession
<1>3. CASE ConvertMarginThrows
  BY <1>3, MarginKeeps
<1>4. CASE ConvertLeaves
  BY <1>4, LeavesKeeps
<1>5. CASE CallStep \/ BrowserStep
  BY <1>5, NextInv, NextSession DEF Next
<1>6. CASE UNCHANGED vars
  BY <1>6, NextInv, NextSession
<1> QED
  BY <1>1, <1>2, <1>3, <1>4, <1>5, <1>6
     DEF ConvertNext, ConvertStep, ConvertReturns, Idles, allVars

-----------------------------------------------------------------------------
(* Where the conversion is. *)

LEMMA SendMoves ==
  ASSUME NEW method, NEW session, NEW arg, NEW next, NEW loc, Send(method, session, arg, next, loc)
  PROVE  /\ link' = link /\ disk' = disk
         /\ \/ pc' \in Outside /\ (pc' = "idle" => ret' = "false")
            \/ pc' = next /\ local' = loc /\ ret' = ret
BY DEF Send, Return, Outside

\* The write() that blocks is broken off.
LEMMA BreakMoves ==
  ASSUME BlockedWriteBreaks
  PROVE  /\ pc = "blocked" /\ pc' = "killed" /\ InFlight' = InFlight
         /\ UNCHANGED <<ret, local, link, disk, page, cmds, m_MessageQueue, launches>>
BY DEF BlockedWriteBreaks, browserVars, InFlight

\* Any other step inside a call of the manager stays in the call or ends it.
LEMMA CallMoves ==
  ASSUME Inv, CallStep, ~BlockedWriteBreaks
  PROVE  /\ pc \notin Outside /\ link' = link
         /\ \/ pc' \in Outside
            \/ pc \in NavegatePlaces /\ pc' \in NavegatePlaces /\ local'.url = local.url
            \/ pc \in ImagePlaces /\ pc' \in ImagePlaces /\ local'.path = local.path
            \/ pc' = pc /\ local' = local
<1> USE DEF Outside, NavegatePlaces, ImagePlaces
<1>0. local \in LocalType
  BY DEF Inv, TypeOK, LocalType
<1>1. CASE WaitDiscards \/ WaitFindsError \/ WaitTimesOut \/ WaitThrows \/ WaitMeetsEnd
  <2>1. pc \notin Outside
    BY <1>1, WaitPlaces DEF WaitDiscards, WaitFindsError, WaitTimesOut, WaitThrows, WaitMeetsEnd, Waiting
  <2> QED
    BY <1>1, <2>1 DEF WaitDiscards, WaitFindsError, WaitTimesOut, WaitThrows, WaitMeetsEnd, clientVars, Return
<1>2. CASE NavegateGetsTarget \/ NavegateGetsSession \/ NavegateGetsMetrics \/ NavegateSeesLoad
  BY <1>0, <1>2 DEF NavegateGetsTarget, NavegateGetsSession, NavegateGetsMetrics, NavegateSeesLoad, Await,
     Return, LocalType
<1>3. CASE NavegateAttaches \/ NavegateEnables \/ NavegateSetsMetrics \/ NavegateLoads
  <2>1. /\ pc \in {"attach", "enable", "metrics", "navigate"}
        /\ \E method, session, arg : \E next \in {"attachWait", "metrics", "metricsWait", "loadWait"} :
             Send(method, session, arg, next, local)
    BY <1>3 DEF NavegateAttaches, NavegateEnables, NavegateSetsMetrics, NavegateLoads
  <2> QED
    BY <2>1, SendMoves
<1>4. CASE CloseTabReturns \/ ScreenshotGetsLayout \/ DataArrives
  BY <1>4 DEF CloseTabReturns, ScreenshotGetsLayout, DataArrives, Await, Return
<1>5. CASE ScreenshotCaptures
  <2>1. pc = "capture" /\ Send("Page.captureScreenshot", m_SessionID, None, "captureWait", local)
    BY <1>5 DEF ScreenshotCaptures
  <2> QED
    BY <2>1, SendMoves
<1> QED
  BY <1>1, <1>2, <1>3, <1>4, <1>5 DEF CallStep

LEMMA StageMoves ==
  ASSUME StageInv, pc \notin Outside, UNCHANGED <<stage, results, link>>,
         \/ pc' \in Outside
         \/ pc \in NavegatePlaces /\ pc' \in NavegatePlaces /\ local'.url = local.url
         \/ pc \in ImagePlaces /\ pc' \in ImagePlaces /\ local'.path = local.path
         \/ pc' = pc /\ local' = local
  PROVE  StageInv'
<1>1. job' = job /\ (Running' <=> Running)
  BY DEF job, Running
<1>2. stage \in {"navegate", "capture"} \/ stage \notin {"new", "launched", "ready", "navegate", "capture", "leave"}
  BY DEF StageInv, Outside
<1> QED
  BY <1>1, <1>2 DEF StageInv, Outside, NavegatePlaces, ImagePlaces

LEMMA BrowserMoves ==
  ASSUME Inv, StageInv, BrowserStep
  PROVE  /\ browser = "running" /\ link = "open" /\ stage # "new"
         /\ UNCHANGED <<clientVars, m_MessageQueue>>
         /\ BrowserExecutes => cmds # <<>>
         /\ BrowserAnswers => pending # {}
<1>1. /\ browser = "running" /\ UNCHANGED <<clientVars, m_MessageQueue>>
      /\ BrowserExecutes => cmds # <<>>
      /\ BrowserAnswers => pending # {}
  <2>1. CASE BrowserExecutes
    BY <2>1 DEF BrowserExecutes, BrowserCreatesTarget, BrowserAttaches, BrowserEnables, BrowserNavigates,
       BrowserMeasures, BrowserCaptures, BrowserClosesTarget, BrowserRejects, Executes, Answer,
       BrowserAnswers, BrowserSends
  <2>2. CASE BrowserAnswers \/ BrowserFiresLoad \/ BrowserFiresOther \/ BrowserDies
    <3>1. browser = "running" /\ UNCHANGED <<clientVars, m_MessageQueue>>
      BY <2>2 DEF BrowserAnswers, BrowserFiresLoad, BrowserFiresOther, BrowserDies, BrowserSends
    <3>2. BrowserExecutes => cmds # <<>>
      BY DEF BrowserExecutes, BrowserCreatesTarget, BrowserAttaches, BrowserEnables, BrowserNavigates,
         BrowserMeasures, BrowserCaptures, BrowserClosesTarget, BrowserRejects, Executes
    <3>3. BrowserAnswers => pending # {}
      BY DEF BrowserAnswers
    <3> QED
      BY <3>1, <3>2, <3>3
  <2> QED
    BY <2>1, <2>2 DEF BrowserStep
<1>2. link = "open" /\ stage # "new"
  BY <1>1 DEF Inv, TypeOK, LinkInv, StageInv
<1> QED
  BY <1>1, <1>2

LEMMA BrowserStage ==
  ASSUME Inv, StageInv, BrowserStep, UNCHANGED convertVars
  PROVE  StageInv'
<1>1. UNCHANGED <<pc, local, m_ID, link, m_MessageQueue, stage, results>>
  BY BrowserMoves DEF clientVars, convertVars
<1>2. job' = job /\ (Running' <=> Running)
  BY <1>1 DEF job, Running
<1>3. cmds = <<>> /\ pending = {} => cmds' = <<>> /\ pending' = {}
  BY BrowserMoves DEF BrowserStep, BrowserFiresLoad, BrowserFiresOther, BrowserDies, BrowserSends
<1> QED
  BY <1>1, <1>2, <1>3 DEF StageInv

LEMMA StepStage ==
  ASSUME Inv, ConvertTypeOK, StageInv, ConvertStep
  PROVE  StageInv'
<1> USE DEF Outside, NavegatePlaces, ImagePlaces
<1>0. results' = results => job' = job /\ (Running' <=> Running)
  BY DEF job, Running
<1>1. CASE ConvertLaunches
  <2>1. /\ stage = "new" /\ Running /\ pc = "idle" /\ stage' \in {"launched", "leave"}
        /\ UNCHANGED <<results, pc, m_ID, m_MessageQueue, cmds, pending>>
    BY <1>1 DEF ConvertLaunches, Launch
  <2> QED
    BY <1>0, <2>1 DEF StageInv
<1>2. CASE ConvertSetsTimeout
  <2>1. /\ stage = "launched" /\ stage' = "ready"
        /\ UNCHANGED <<results, pc, m_ID, m_MessageQueue, cmds, pending>>
    BY <1>2 DEF ConvertSetsTimeout, SetTimeout, browserVars
  <2> QED
    BY <1>0, <2>1 DEF StageInv
<1>3. CASE ConvertNavegates
  <2>1. /\ stage = "ready" /\ stage' = "navegate" /\ results' = results
        /\ Send("Target.createTarget", None, None, "createWait", [NoLocal EXCEPT !.url = job.url])
    BY <1>3 DEF ConvertNavegates, Navegate
  <2>2. pc' \in {"idle", "killed", "blocked"} \/ (pc' = "createWait" /\ local'.url = job.url)
    BY <2>1, SendMoves DEF NoLocal
  <2> QED
    BY <1>0, <2>1, <2>2 DEF StageInv
<1>4. CASE ConvertCaptures
  <2>1. stage = "navegate" /\ stage' = "capture" /\ results' = results /\ Running /\ job \in Job
    BY <1>4, CurrentJob DEF ConvertCaptures, StageInv
  <2>2. CASE job.kind = "image"
    <3>1. Send("Page.getLayoutMetrics", m_SessionID, None, "layoutWait", [NoLocal EXCEPT !.path = job.path])
      BY <1>4, <2>2 DEF ConvertCaptures, Screenshot
    <3>2. pc' \in {"idle", "killed", "blocked"} \/ (pc' = "layoutWait" /\ local'.path = job.path)
      BY <3>1, SendMoves DEF NoLocal
    <3> QED
      BY <1>0, <2>1, <2>2, <3>2 DEF StageInv
  <2>3. CASE job.kind = "pdf"
    <3>1. Send("Page.printToPDF", m_SessionID, None, "printWait", [NoLocal EXCEPT !.path = job.path])
      BY <1>4, <2>3 DEF ConvertCaptures, PrintToPDF
    <3>2. pc' \in {"idle", "killed", "blocked"} \/ (pc' = "printWait" /\ local'.path = job.path)
      BY <3>1, SendMoves DEF NoLocal
    <3> QED
      BY <1>0, <2>1, <2>3, <3>2 DEF StageInv
  <2> QED
    BY <2>1, <2>2, <2>3 DEF Job
<1>5. CASE ConvertMarginThrows \/ ConvertReturns
  <2>1. stage \in {"navegate", "capture"} /\ pc = "idle" /\ pc' = pc /\ stage' = "leave" /\ results' = results
    BY <1>5 DEF ConvertMarginThrows, ConvertReturns, vars, clientVars
  <2> QED
    BY <1>0, <2>1 DEF StageInv
<1>6. CASE ConvertLeaves
  <2>1. /\ stage' = "new" /\ pc' = "idle" /\ link' = "unset" /\ m_ID' = 0 /\ m_MessageQueue' = <<>>
    BY <1>6 DEF ConvertLeaves, ExitManager
  <2>2. cmds' = <<>> /\ pending' = {}
    BY <1>6 DEF ConvertLeaves, ExitManager, BrowserGone, browserVars, Inv, TypeOK, LinkInv
  <2> QED
    BY <2>1, <2>2 DEF StageInv
<1> QED
  BY <1>1, <1>2, <1>3, <1>4, <1>5, <1>6 DEF ConvertStep

LEMMA StageKeeps ==
  ASSUME Inv, ConvertTypeOK, StageInv, ConvertNext \/ UNCHANGED allVars
  PROVE  StageInv'
<1>1. CASE CallStep /\ UNCHANGED convertVars
  <2>1. CASE ~BlockedWriteBreaks
    BY <1>1, <2>1, CallMoves, StageMoves DEF convertVars
  <2>2. CASE BlockedWriteBreaks
    <3>1. /\ pc = "blocked" /\ pc' = "killed" /\ UNCHANGED <<stage, results, link>>
          /\ job' = job /\ (Running' <=> Running)
      BY <1>1, <2>2, BreakMoves DEF convertVars, job, Running
    <3>2. stage \notin {"new", "launched", "ready", "leave"}
      BY <3>1 DEF StageInv
    <3> QED
      BY <3>1, <3>2 DEF StageInv, Outside, ImagePlaces
  <2> QED
    BY <2>1, <2>2
<1>2. CASE BrowserStep /\ UNCHANGED convertVars
  BY <1>2, BrowserStage
<1>3. CASE UNCHANGED allVars
  <2>1. UNCHANGED <<pc, local, m_ID, link, m_MessageQueue, cmds, pending, stage, results>>
    BY <1>3 DEF allVars, convertVars, vars, clientVars, browserVars
  <2>2. job' = job /\ (Running' <=> Running)
    BY <2>1 DEF job, Running
  <2> QED
    BY <2>1, <2>2 DEF StageInv
<1> QED
  BY <1>1, <1>2, <1>3, StepStage DEF ConvertNext, Idles

LEMMA ConvertTypes ==
  ASSUME Inv, ConvertTypeOK, StageInv, Inv', ConvertNext \/ UNCHANGED allVars
  PROVE  ConvertTypeOK'
<1>1. TypeOK'
  BY DEF Inv
<1>2. CASE ConvertLeaves
  <2>1. Running /\ ret \in {"true", "false", "threw"} /\ results' = Append(results, ret) /\ stage' = "new"
    BY <1>2 DEF ConvertLeaves, StageInv, Inv, TypeOK
  <2>2. results' \in Seq({"true", "false", "threw"}) /\ Len(results') = Len(results) + 1
    BY <2>1, AppendProperties DEF ConvertTypeOK
  <2>3. Len(results') <= Len(Jobs)
    BY <2>1, <2>2, JobsAssumption, LenProperties DEF ConvertTypeOK, Running
  <2> QED
    BY <1>1, <2>1, <2>2, <2>3 DEF ConvertTypeOK
<1>3. CASE ~ConvertLeaves
  <2>1. results' = results /\ stage' \in {"new", "launched", "ready", "navegate", "capture", "leave"}
    BY <1>3 DEF ConvertNext, ConvertStep, ConvertLaunches, ConvertSetsTimeout, ConvertNavegates,
       ConvertCaptures, ConvertMarginThrows, ConvertReturns, Idles, allVars, convertVars, ConvertTypeOK
  <2> QED
    BY <1>1, <2>1 DEF ConvertTypeOK
<1> QED
  BY <1>2, <1>3

-----------------------------------------------------------------------------
(* What the tabs show. *)

\* Steps after which nothing new loads or is captured.
LEMMA PagesFrame ==
  ASSUME Inv, SessionInv, PagesInv, results' = results,
         link' = "unset" => link = "unset" /\ page' = page,
         \A t \in Target : \/ page'[t] = page[t]
                           \/ /\ page[t].state \notin {"loading", "loaded"}
                              /\ page'[t].state \notin {"loading", "loaded"},
         Elements(cmds') \subseteq Elements(cmds),
         \A m \in InFlight' : m \in InFlight \/ (~LoadEvent(m) /\ ~DataReply(m)),
         Before' => Before,
         Loading' => Loading /\ UNCHANGED <<local, m_ID>>,
         Capturing' => Capturing /\ m_SessionID' = m_SessionID
                         /\ attached'[m_SessionID] = attached[m_SessionID]
  PROVE  PagesInv'
<1>1. job' = job /\ LoadedPage' = LoadedPage /\ (NoPageLoads => NoPageLoads')
  BY DEF job, LoadedPage, NoPageLoads
<1>2. TabsInv'
  BY DEF PagesInv, TabsInv, Elements
<1>3. BeforeLoad'
  BY <1>1 DEF PagesInv, BeforeLoad, Elements
<1>4. WhileLoading'
  <2> SUFFICES ASSUME Loading' PROVE WhileLoading'
    BY DEF WhileLoading
  <2>1. Loading /\ UNCHANGED <<local, m_ID>>
    OBVIOUS
  <2>2. \A c \in Elements(cmds') :
         /\ c.method \notin DataMethods
         /\ c.method = "Page.navigate" =>
              /\ c.id = m_ID /\ c.session = local.sessionId /\ c.arg = local.url
              /\ NoPageLoads' /\ \A m \in InFlight' : ~LoadEvent(m)
    BY <1>1, <2>1 DEF PagesInv, WhileLoading
  <2>3. \A t \in Target : page'[t].state \in {"loading", "loaded"} =>
         t = local.targetId /\ page'[t].url = local.url
    BY <2>1 DEF PagesInv, WhileLoading
  <2>4. ASSUME NEW m \in InFlight'
        PROVE  ~DataReply(m) /\ (LoadEvent(m) => page'[local.targetId].state = "loaded")
    <3>1. CASE ~LoadEvent(m) /\ ~DataReply(m)
      BY <3>1
    <3>2. CASE m \in InFlight /\ (LoadEvent(m) \/ DataReply(m))
      <4>1. LoadEvent(m) /\ ~DataReply(m) /\ page[local.targetId].state = "loaded"
        BY <2>1, <3>2 DEF PagesInv, WhileLoading
      <4>2. local.targetId \in Target
        BY <2>1 DEF Loading, SessionInv, NavegateInv
      <4> QED
        BY <4>1, <4>2
    <3> QED
      BY <3>1, <3>2
  <2> QED
    BY <2>1, <2>2, <2>3, <2>4 DEF WhileLoading, Elements, LoadEvent, DataReply
<1>5. WhileCapturing'
  <2> SUFFICES ASSUME Capturing' PROVE WhileCapturing'
    BY DEF WhileCapturing
  <2>1. Capturing /\ m_SessionID' = m_SessionID /\ attached'[m_SessionID] = attached[m_SessionID]
    OBVIOUS
  <2>2. /\ m_SessionID \in Session /\ attached[m_SessionID] \in Target
        /\ page[attached[m_SessionID]] = LoadedPage
    BY <2>1 DEF PagesInv, WhileCapturing
  <2>3. page'[attached[m_SessionID]] = LoadedPage
    BY <2>2 DEF LoadedPage
  <2> QED
    BY <1>1, <2>1, <2>2, <2>3 DEF PagesInv, WhileCapturing, Elements
<1> QED
  BY <1>2, <1>3, <1>4, <1>5 DEF PagesInv

\* A command is sent.
LEMMA PagesSend ==
  ASSUME Inv, PagesInv, NEW c \in Command, cmds' = Append(cmds, c), link = "open",
         UNCHANGED <<results, page, attached, link, m_MessageQueue, wire, pending>>,
         c.method # "Target.closeTarget",
         Before' => Before /\ c.method \notin DataMethods \cup {"Page.navigate"},
         Loading' => /\ Before /\ c.method = "Page.navigate"
                     /\ c.id = m_ID' /\ c.session = local'.sessionId /\ c.arg = local'.url,
         Capturing' => Capturing /\ m_SessionID' = m_SessionID /\ c.method # "Page.navigate"
                         /\ (c.method \in DataMethods => c.session = m_SessionID)
  PROVE  PagesInv'
<1>1. job' = job /\ LoadedPage' = LoadedPage /\ (NoPageLoads <=> NoPageLoads') /\ InFlight' = InFlight
  BY DEF job, LoadedPage, NoPageLoads, InFlight
<1>2. Elements(cmds') = Elements(cmds) \cup {c}
  BY ElementsOfAppend DEF Inv, TypeOK
<1>3. TabsInv'
  BY <1>2 DEF PagesInv, TabsInv, Elements
<1>4. BeforeLoad'
  BY <1>1, <1>2 DEF PagesInv, BeforeLoad, Elements
<1>5. WhileLoading'
  <2> SUFFICES ASSUME Loading' PROVE WhileLoading'
    BY DEF WhileLoading
  <2>1. /\ NoPageLoads /\ \A d \in Elements(cmds) : d.method \notin DataMethods \cup {"Page.navigate"}
        /\ \A m \in InFlight : ~LoadEvent(m) /\ ~DataReply(m)
    BY DEF PagesInv, BeforeLoad
  <2>2. c.method \notin DataMethods
    BY DEF DataMethods
  <2> QED
    BY <1>1, <1>2, <2>1, <2>2 DEF WhileLoading, NoPageLoads, Elements
<1>6. WhileCapturing'
  BY <1>1, <1>2 DEF PagesInv, WhileCapturing, Elements
<1> QED
  BY <1>3, <1>4, <1>5, <1>6 DEF PagesInv

\* The client reads a message.
LEMMA PagesReads ==
  ASSUME Inv, SessionInv, ConvertTypeOK, StageInv, PagesInv, UNCHANGED convertVars,
         \/ WaitDiscards \/ WaitFindsError \/ WaitThrows
         \/ NavegateGetsTarget \/ NavegateGetsSession \/ NavegateGetsMetrics \/ NavegateSeesLoad
         \/ CloseTabReturns \/ ScreenshotGetsLayout \/ DataArrives
  PROVE  PagesInv'
<1> USE DEF Outside, NavegatePlaces, ImagePlaces
<1>0. Take /\ link' = link /\ stage' = stage /\ results' = results
  BY DEF WaitDiscards, WaitFindsError, WaitThrows, NavegateGetsTarget, NavegateGetsSession,
         NavegateGetsMetrics, NavegateSeesLoad, CloseTabReturns, ScreenshotGetsLayout, DataArrives,
         Await, clientVars, convertVars
<1>1. /\ NextMessage \in InFlight /\ InFlight' \subseteq InFlight
      /\ UNCHANGED <<cmds, launches, page, attached>>
  BY <1>0, TakeProperties
<1>2. Elements(cmds') = Elements(cmds)
  BY <1>1
<1>3. CASE WaitDiscards
  <2>1. UNCHANGED <<pc, ret, local, m_ID, m_SessionID>>
    BY <1>3 DEF WaitDiscards, clientVars
  <2> QED
    BY <1>0, <1>1, <1>2, <2>1, PagesFrame DEF Before, Loading, Capturing
<1>4. CASE WaitFindsError \/ WaitThrows
  <2>1. pc \notin Outside /\ pc' = "idle" /\ ret' # "true"
    BY <1>4, WaitPlaces DEF WaitFindsError, WaitThrows, Waiting, Return
  <2>2. ~Before' /\ ~Loading' /\ ~Capturing'
    BY <1>0, <2>1 DEF Before, Loading, Capturing, StageInv
  <2> QED
    BY <1>0, <1>1, <1>2, <2>2, PagesFrame
<1>5. CASE NavegateGetsTarget \/ NavegateGetsSession \/ NavegateGetsMetrics
  <2>1. /\ pc \in {"createWait", "attachWait", "metricsWait"} /\ pc' \in {"attach", "enable", "navigate"}
    BY <1>5 DEF NavegateGetsTarget, NavegateGetsSession, NavegateGetsMetrics, Await
  <2>2. (Before' => Before) /\ ~Loading' /\ ~Capturing'
    BY <1>0, <2>1 DEF Before, Loading, Capturing, StageInv
  <2> QED
    BY <1>0, <1>1, <1>2, <2>2, PagesFrame
<1>6. CASE CloseTabReturns \/ DataArrives
  <2>1. pc \in {"closeWait", "captureWait", "printWait"} /\ pc' = "idle"
    BY <1>6 DEF CloseTabReturns, DataArrives, Await, Return
  <2>2. ~Before' /\ ~Loading' /\ ~Capturing'
    BY <1>0, <2>1 DEF Before, Loading, Capturing, StageInv
  <2> QED
    BY <1>0, <1>1, <1>2, <2>2, PagesFrame
<1>7. CASE ScreenshotGetsLayout
  <2>1. pc = "layoutWait" /\ pc' = "capture" /\ m_SessionID' = m_SessionID
    BY <1>7 DEF ScreenshotGetsLayout, Await
  <2>2. ~Before' /\ ~Loading' /\ (Capturing' => Capturing)
    BY <1>0, <2>1 DEF Before, Loading, Capturing, StageInv
  <2> QED
    BY <1>0, <1>1, <1>2, <2>1, <2>2, PagesFrame
<1>8. CASE NavegateSeesLoad
  <2>1. /\ Await("loadWait") /\ pc = "loadWait" /\ m_SessionID' = local.sessionId /\ pc' = "idle"
    BY <1>8 DEF NavegateSeesLoad, Await, Return
  <2>2. stage = "navegate" /\ local.url = job.url
    BY <2>1 DEF StageInv, ConvertTypeOK
  <2>3. LoadEvent(NextMessage)
    BY <2>1 DEF Await, Wanted, LoadEvent
  <2>4. local.targetId \in Target /\ local.sessionId \in Session /\ attached[local.sessionId] = local.targetId
    BY <2>1 DEF SessionInv, NavegateInv
  <2>5. Loading
    BY <2>1, <2>2 DEF Loading
  <2>6. /\ page[local.targetId].state = "loaded" /\ page[local.targetId].url = job.url
        /\ \A c \in Elements(cmds) : c.method \notin DataMethods \cup {"Page.navigate"}
        /\ \A m \in InFlight : ~DataReply(m)
    BY <1>1, <2>2, <2>3, <2>4, <2>5 DEF PagesInv, WhileLoading
  <2>7. page[local.targetId] = LoadedPage
    BY <2>4, <2>6 DEF LoadedPage, Inv, TypeOK, Page
  <2>8. LoadedPage' = LoadedPage
    BY <1>0 DEF LoadedPage, job
  <2>9. WhileCapturing'
    BY <1>1, <1>2, <2>1, <2>4, <2>6, <2>7, <2>8 DEF WhileCapturing, Elements, DataReply
  <2>10. ~Before' /\ ~Loading'
    BY <1>0, <2>1, <2>2 DEF Before, Loading
  <2>11. TabsInv'
    BY <1>0, <1>1, <1>2 DEF PagesInv, TabsInv, Elements
  <2> QED
    BY <2>9, <2>10, <2>11 DEF PagesInv, BeforeLoad, WhileLoading
<1> QED
  BY <1>3, <1>4, <1>5, <1>6, <1>7, <1>8

\* A wait ends without a message.
LEMMA PagesEnds ==
  ASSUME Inv, SessionInv, StageInv, PagesInv, UNCHANGED convertVars, WaitTimesOut \/ WaitMeetsEnd
  PROVE  PagesInv'
<1>1. /\ pc \notin Outside /\ pc' \in Outside /\ (pc' = "idle" => ret' # "true")
      /\ UNCHANGED <<stage, results, link, page, cmds>>
  BY WaitPlaces DEF WaitTimesOut, WaitMeetsEnd, Waiting, Return, ReadTimesOut, browserVars, convertVars, Outside
<1>2. \A m \in InFlight' : m \in InFlight \/ m.kind = "tail"
  <2>1. CASE WaitTimesOut
    <3>1. /\ UNCHANGED <<m_MessageQueue, pending>>
          /\ wire' = wire \/ wire' = <<TailOfMessage>>
      BY <2>1 DEF WaitTimesOut, ReadTimesOut, browserVars
    <3>2. Elements(<<TailOfMessage>>) = {TailOfMessage} /\ TailOfMessage.kind = "tail"
      BY DEF Elements, TailOfMessage
    <3> QED
      BY <3>1, <3>2 DEF InFlight, Elements
  <2>2. CASE WaitMeetsEnd
    BY <2>2 DEF WaitMeetsEnd, InFlight
  <2> QED
    BY <2>1, <2>2
<1>3. ~Before' /\ ~Loading' /\ ~Capturing'
  BY <1>1 DEF Before, Loading, Capturing, StageInv, Outside, NavegatePlaces
<1>4. Elements(cmds') = Elements(cmds)
  BY <1>1
<1> QED
  BY <1>1, <1>2, <1>3, <1>4, PagesFrame DEF LoadEvent, DataReply

LEMMA PagesBreak ==
  ASSUME Inv, SessionInv, StageInv, PagesInv, UNCHANGED convertVars, BlockedWriteBreaks
  PROVE  PagesInv'
<1>1. /\ pc = "blocked" /\ pc' = "killed" /\ InFlight' = InFlight
      /\ UNCHANGED <<stage, results, link, page, cmds>>
  BY BreakMoves DEF convertVars
<1>2. ~Before' /\ ~Loading' /\ ~Capturing'
  BY <1>1 DEF Before, Loading, Capturing, StageInv, Outside, NavegatePlaces
<1>3. Elements(cmds') = Elements(cmds)
  BY <1>1
<1> QED
  BY <1>1, <1>2, <1>3, PagesFrame

\* A command that was not written.
LEMMA PagesSendFails ==
  ASSUME Inv, SessionInv, PagesInv, cmds' = cmds, UNCHANGED <<results, link, m_MessageQueue, wire, browserVars>>,
         stage' \in {"navegate", "capture"}, pc' \in Outside, pc' = "idle" => ret' = "false"
  PROVE  PagesInv'
<1>1. ~Before' /\ ~Loading' /\ ~Capturing'
  BY DEF Before, Loading, Capturing, Outside, NavegatePlaces
<1>2. InFlight' = InFlight /\ Elements(cmds') = Elements(cmds) /\ page' = page
  BY DEF InFlight, browserVars
<1> QED
  BY <1>1, <1>2, PagesFrame

\* The commands of a conversion.
LEMMA PagesSends ==
  ASSUME Inv, SessionInv, PagesInv, results' = results, stage' \in {"navegate", "capture"},
         NEW method \in Methods \ {"Target.closeTarget"},
         NEW session \in Session \cup {None}, NEW arg \in Url \cup Target \cup {None}, NEW next, NEW loc,
         Send(method, session, arg, next, loc),
         pc' = next /\ local' = loc /\ ret' = ret =>
           /\ Before' => Before /\ method \notin DataMethods \cup {"Page.navigate"}
           /\ Loading' => Before /\ method = "Page.navigate" /\ session = loc.sessionId /\ arg = loc.url
           /\ Capturing' => Capturing /\ method # "Page.navigate" /\ (method \in DataMethods => session = m_SessionID)
  PROVE  PagesInv'
<1>0. PICK c : c = [id |-> m_ID + 1, method |-> method, session |-> session, arg |-> arg]
  OBVIOUS
<1>1. /\ m_ID' = m_ID + 1 /\ m_ID \in Nat
      /\ UNCHANGED <<m_TargetID, m_SessionID, m_MessageQueue, m_Timeout, link, disk, wire, browserVars>>
  BY DEF Send, Inv, TypeOK
<1>2. c \in Command /\ c.id = m_ID + 1 /\ c.method = method /\ c.session = session /\ c.arg = arg
  BY <1>0, <1>1 DEF Command
<1>3. CASE link = "open" /\ cmds' = Append(cmds, c) /\ pc' = next /\ local' = loc /\ ret' = ret
  <2>1. UNCHANGED <<page, attached, pending>>
    BY <1>1 DEF browserVars
  <2> QED
    BY <1>1, <1>2, <1>3, <2>1, PagesSend
<1>4. CASE pc' \in Outside /\ (pc' = "idle" => ret' = "false") /\ cmds' = cmds
  BY <1>1, <1>4, PagesSendFails
<1> QED
  BY <1>0, <1>3, <1>4 DEF Send, Return, Outside

\* The calls of the conversion go on, or it makes the next.
LEMMA PagesCalls ==
  ASSUME Inv, SessionInv, ConvertTypeOK, StageInv, PagesInv,
         \/ /\ NavegateAttaches \/ NavegateEnables \/ NavegateSetsMetrics \/ NavegateLoads \/ ScreenshotCaptures
            /\ UNCHANGED convertVars
         \/ ConvertNavegates \/ ConvertCaptures
  PROVE  PagesInv'
<1> USE DEF Outside, NavegatePlaces, ImagePlaces
<1>0. /\ local.sessionId \in Session \cup {None} /\ local.url \in Url \cup {None}
      /\ local.targetId \in Target \cup {None} /\ m_SessionID \in Session \cup {None}
  BY DEF Inv, TypeOK
<1>1. CASE (NavegateAttaches \/ NavegateEnables \/ NavegateSetsMetrics) /\ UNCHANGED convertVars
  <2>1. stage' = "navegate" /\ stage = "navegate" /\ results' = results
        /\ pc \in {"attach", "enable", "metrics"}
    BY <1>1 DEF NavegateAttaches, NavegateEnables, NavegateSetsMetrics, StageInv, ConvertTypeOK, convertVars
  <2>2. Before
    BY <2>1 DEF Before
  <2>3. CASE NavegateAttaches
    <3>1. Send("Target.attachToTarget", None, local.targetId, "attachWait", local)
      BY <2>3 DEF NavegateAttaches
    <3>2. pc' = "attachWait" => ~Loading' /\ ~Capturing'
      BY <2>1 DEF Loading, Capturing
    <3>3. "Target.attachToTarget" \in Methods \ ({"Target.closeTarget", "Page.navigate"} \cup DataMethods)
      BY DEF Methods, DataMethods
    <3> QED
      BY <1>0, <2>1, <2>2, <3>1, <3>2, <3>3, PagesSends
  <2>4. CASE NavegateEnables
    <3>1. Send("Page.enable", local.sessionId, None, "metrics", local)
      BY <2>4 DEF NavegateEnables
    <3>2. pc' = "metrics" => ~Loading' /\ ~Capturing'
      BY <2>1 DEF Loading, Capturing
    <3>3. "Page.enable" \in Methods \ ({"Target.closeTarget", "Page.navigate"} \cup DataMethods)
      BY DEF Methods, DataMethods
    <3> QED
      BY <1>0, <2>1, <2>2, <3>1, <3>2, <3>3, PagesSends
  <2>5. CASE NavegateSetsMetrics
    <3>1. Send("Emulation.setDeviceMetricsOverride", local.sessionId, None, "metricsWait", local)
      BY <2>5 DEF NavegateSetsMetrics
    <3>2. pc' = "metricsWait" => ~Loading' /\ ~Capturing'
      BY <2>1 DEF Loading, Capturing
    <3>3. "Emulation.setDeviceMetricsOverride" \in Methods \ ({"Target.closeTarget", "Page.navigate"} \cup DataMethods)
      BY DEF Methods, DataMethods
    <3> QED
      BY <1>0, <2>1, <2>2, <3>1, <3>2, <3>3, PagesSends
  <2> QED
    BY <1>1, <2>3, <2>4, <2>5
<1>2. CASE NavegateLoads /\ UNCHANGED convertVars
  <2>1. /\ stage' = "navegate" /\ stage = "navegate" /\ results' = results /\ pc = "navigate"
        /\ Send("Page.navigate", local.sessionId, local.url, "loadWait", local)
    BY <1>2 DEF NavegateLoads, StageInv, ConvertTypeOK, convertVars
  <2>2. Before /\ (pc' = "loadWait" => ~Before' /\ ~Capturing')
    BY <2>1 DEF Before, Capturing
  <2>3. "Page.navigate" \in Methods \ {"Target.closeTarget"}
    BY DEF Methods
  <2> QED
    BY <1>0, <2>1, <2>2, <2>3, PagesSends
<1>3. CASE ScreenshotCaptures /\ UNCHANGED convertVars
  <2>1. /\ stage' = "capture" /\ stage = "capture" /\ results' = results /\ pc = "capture"
        /\ Send("Page.captureScreenshot", m_SessionID, None, "captureWait", local)
    BY <1>3 DEF ScreenshotCaptures, StageInv, ConvertTypeOK, convertVars
  <2>2. Capturing /\ ~Before' /\ ~Loading'
    BY <2>1 DEF Before, Loading, Capturing
  <2>3. "Page.captureScreenshot" \in Methods \ {"Target.closeTarget"} /\ "Page.captureScreenshot" # "Page.navigate"
    BY DEF Methods, DataMethods
  <2> QED
    BY <1>0, <2>1, <2>2, <2>3, PagesSends
<1>4. CASE ConvertNavegates
  <2> DEFINE loc == [NoLocal EXCEPT !.url = job.url]
  <2>1. /\ stage' = "navegate" /\ stage = "ready" /\ results' = results
        /\ Send("Target.createTarget", None, None, "createWait", loc)
    BY <1>4 DEF ConvertNavegates, Navegate
  <2>2. Before /\ (pc' = "createWait" => ~Loading' /\ ~Capturing')
    BY <2>1 DEF Before, Loading, Capturing
  <2>3. "Target.createTarget" \in Methods \ ({"Target.closeTarget", "Page.navigate"} \cup DataMethods)
    BY DEF Methods, DataMethods
  <2> HIDE DEF loc
  <2> QED
    BY <2>1, <2>2, <2>3, PagesSends
<1>5. CASE ConvertCaptures
  <2> DEFINE loc == [NoLocal EXCEPT !.path = job.path]
  <2>1. /\ stage' = "capture" /\ stage = "navegate" /\ pc = "idle" /\ ret = "true" /\ results' = results
    BY <1>5 DEF ConvertCaptures
  <2>2. Capturing /\ ~Before' /\ ~Loading'
    BY <2>1 DEF Before, Loading, Capturing
  <2>3. CASE Screenshot(job.path)
    <3>1. Send("Page.getLayoutMetrics", m_SessionID, None, "layoutWait", loc)
      BY <2>3 DEF Screenshot
    <3>2. "Page.getLayoutMetrics" \in Methods \ ({"Target.closeTarget", "Page.navigate"} \cup DataMethods)
      BY DEF Methods, DataMethods
    <3> HIDE DEF loc
    <3> QED
      BY <1>0, <2>1, <2>2, <3>1, <3>2, PagesSends
  <2>4. CASE PrintToPDF(job.path)
    <3>1. Send("Page.printToPDF", m_SessionID, None, "printWait", loc)
      BY <2>4 DEF PrintToPDF
    <3>2. "Page.printToPDF" \in Methods \ {"Target.closeTarget"} /\ "Page.printToPDF" # "Page.navigate"
      BY DEF Methods, DataMethods
    <3> HIDE DEF loc
    <3> QED
      BY <1>0, <2>1, <2>2, <3>1, <3>2, PagesSends
  <2> QED
    BY <1>5, <2>3, <2>4 DEF ConvertCaptures
<1> QED
  BY <1>1, <1>2, <1>3, <1>4, <1>5

\* The steps of a conversion that write no command.
LEMMA PagesSteps ==
  ASSUME Inv, SessionInv, ConvertTypeOK, StageInv, PagesInv,
         ConvertLaunches \/ ConvertSetsTimeout \/ ConvertMarginThrows \/ ConvertReturns
  PROVE  PagesInv'
<1>1. CASE ConvertLaunches
  <2>1. /\ stage = "new" /\ stage' \in {"launched", "leave"} /\ link = "unset"
        /\ UNCHANGED <<results, page, cmds, m_MessageQueue, wire, pending>>
    BY <1>1 DEF ConvertLaunches, Launch
  <2>2. InFlight' = InFlight /\ Elements(cmds') = Elements(cmds)
    BY <2>1 DEF InFlight
  <2>3. (Before' => Before) /\ ~Loading' /\ ~Capturing'
    BY <2>1 DEF Before, Loading, Capturing
  <2> QED
    BY <2>1, <2>2, <2>3, PagesFrame
<1>2. CASE ConvertSetsTimeout \/ ConvertMarginThrows \/ ConvertReturns
  <2>1. /\ stage' \in {"ready", "leave"} /\ (stage' = "ready" => stage = "launched")
        /\ UNCHANGED <<results, link, page, cmds, m_MessageQueue, wire, pending>>
    BY <1>2 DEF ConvertSetsTimeout, SetTimeout, ConvertMarginThrows, ConvertReturns, vars, clientVars, browserVars
  <2>2. InFlight' = InFlight /\ Elements(cmds') = Elements(cmds)
    BY <2>1 DEF InFlight
  <2>3. (Before' => Before) /\ ~Loading' /\ ~Capturing'
    BY <2>1 DEF Before, Loading, Capturing
  <2> QED
    BY <2>1, <2>2, <2>3, PagesFrame
<1> QED
  BY <1>1, <1>2

\* The destructor ends the browser, and with it all its tabs.
LEMMA PagesLeaves ==
  ASSUME Inv, SessionInv, PagesInv, ConvertLeaves
  PROVE  PagesInv'
<1>1. InFlight' = {} /\ cmds' = <<>> /\ stage' = "new"
  BY LeavesKeeps DEF ConvertLeaves
<1>2. \A t \in Target : page'[t].state \in {"free", "closed"}
  <2>1. CASE link = "open"
    <3>1. page \in [Target -> Page] /\ BrowserGone
      BY <2>1 DEF ConvertLeaves, ExitManager, Inv, TypeOK
    <3> QED
      BY <3>1 DEF BrowserGone, Page
  <2>2. CASE link = "unset"
    BY <2>2 DEF ConvertLeaves, ExitManager, browserVars, PagesInv, TabsInv
  <2> QED
    BY <2>1, <2>2 DEF Inv, TypeOK
<1>3. Elements(cmds') = {}
  BY <1>1 DEF Elements
<1>4. ~Loading' /\ ~Capturing'
  BY <1>1 DEF Loading, Capturing
<1>5. TabsInv' /\ BeforeLoad'
  BY <1>1, <1>2, <1>3 DEF TabsInv, BeforeLoad, NoPageLoads, Elements
<1> QED
  BY <1>4, <1>5 DEF PagesInv, WhileLoading, WhileCapturing

\* The browser executes a command: what it prepares is an answer to it.
LEMMA PagesExecutes ==
  ASSUME Inv, SessionInv, PagesInv, BrowserExecutes, UNCHANGED convertVars
  PROVE  PagesInv'
<1> DEFINE c == Head(cmds)
<1>0. /\ cmds # <<>> /\ browser = "running" /\ link = "open"
      /\ page \in [Target -> Page] /\ attached \in [Session -> Target \cup {None}]
  BY DEF BrowserExecutes, BrowserCreatesTarget, BrowserAttaches, BrowserEnables, BrowserNavigates,
         BrowserMeasures, BrowserCaptures, BrowserClosesTarget, BrowserRejects, Executes, Inv, TypeOK, LinkInv
<1>1. PICK kind, value : Answer(kind, value)
  BY DEF BrowserExecutes, BrowserCreatesTarget, BrowserAttaches, BrowserEnables, BrowserNavigates,
         BrowserMeasures, BrowserCaptures, BrowserClosesTarget, BrowserRejects
<1>2. /\ UNCHANGED <<pc, ret, local, m_ID, m_SessionID, link, stage, results>>
      /\ (Before' <=> Before) /\ (Loading' <=> Loading) /\ (Capturing' <=> Capturing)
  BY <1>1 DEF Answer, clientVars, convertVars, Before, Loading, Capturing
<1>3. c \in Elements(cmds) /\ Elements(cmds') \subseteq Elements(cmds)
      /\ \A d \in Elements(cmds') : d.id # c.id
  BY <1>0, <1>1, ElementsOfTail, NumbersOfTail DEF Answer, Inv, TypeOK, SessionInv, AnswersInv, AnsweredOnce
<1>4. ASSUME NEW k, NEW v, Answer(k, v), NEW m \in InFlight', m \notin InFlight
      PROVE  m.kind = k /\ m.method = c.method /\ m.value = v
  BY <1>4 DEF Answer, Msg, InFlight
<1>5. CASE BrowserCreatesTarget
  <2>1. PICK t \in Target : /\ page[t].state = "free" /\ page' = [page EXCEPT ![t].state = "blank"]
                            /\ Answer("reply", t)
    BY <1>5 DEF BrowserCreatesTarget
  <2>2. \A u \in Target : \/ page'[u] = page[u]
                          \/ /\ page[u].state \notin {"loading", "loaded"}
                             /\ page'[u].state \notin {"loading", "loaded"}
    BY <1>0, <2>1 DEF Page
  <2>3. c.method = "Target.createTarget" /\ attached' = attached
    BY <1>5 DEF BrowserCreatesTarget, Executes
  <2>4. \A m \in InFlight' : m \in InFlight \/ (~LoadEvent(m) /\ ~DataReply(m))
    BY <1>4, <2>1, <2>3 DEF LoadEvent, DataReply, DataMethods
  <2> QED
    BY <1>0, <1>2, <1>3, <2>2, <2>3, <2>4, PagesFrame
<1>6. CASE BrowserAttaches
  <2>1. PICK s \in Session : /\ attached[s] = None /\ attached' = [attached EXCEPT ![s] = c.arg]
                             /\ Answer("reply", s)
    BY <1>6 DEF BrowserAttaches
  <2>2. c.method = "Target.attachToTarget" /\ page' = page
    BY <1>6 DEF BrowserAttaches, Executes
  <2>3. Capturing => attached'[m_SessionID] = attached[m_SessionID]
    BY <1>0, <2>1, NoneAssumption DEF PagesInv, WhileCapturing
  <2>4. \A m \in InFlight' : m \in InFlight \/ (~LoadEvent(m) /\ ~DataReply(m))
    BY <1>4, <2>1, <2>2 DEF LoadEvent, DataReply, DataMethods
  <2> QED
    BY <1>0, <1>2, <1>3, <2>2, <2>3, <2>4, PagesFrame
<1>7. CASE BrowserEnables \/ BrowserMeasures
  <2>1. /\ c.method \in {"Page.enable", "Emulation.setDeviceMetricsOverride", "Page.getLayoutMetrics"}
        /\ Answer("reply", None) /\ UNCHANGED <<page, attached>>
    BY <1>7 DEF BrowserEnables, BrowserMeasures, Executes
  <2>2. \A m \in InFlight' : m \in InFlight \/ (~LoadEvent(m) /\ ~DataReply(m))
    BY <1>4, <2>1 DEF LoadEvent, DataReply, DataMethods
  <2> QED
    BY <1>0, <1>2, <1>3, <2>1, <2>2, PagesFrame
<1>8. CASE BrowserRejects
  <2>1. Answer("error", None) /\ UNCHANGED <<page, attached>>
    BY <1>8 DEF BrowserRejects
  <2>2. \A m \in InFlight' : m \in InFlight \/ (~LoadEvent(m) /\ ~DataReply(m))
    BY <1>4, <2>1 DEF LoadEvent, DataReply
  <2> QED
    BY <1>0, <1>2, <1>3, <2>1, <2>2, PagesFrame
<1>9. CASE BrowserClosesTarget
  BY <1>3, <1>9 DEF BrowserClosesTarget, Executes, PagesInv, TabsInv
<1>10. CASE BrowserCaptures
  <2>1. /\ c.method \in DataMethods /\ UNCHANGED <<page, attached>>
        /\ Answer("reply", [page |-> page[attached[c.session]], method |-> c.method])
    BY <1>10 DEF BrowserCaptures, Executes, Shown
  <2>2. ~Before /\ ~Loading
    BY <1>3, <2>1 DEF PagesInv, BeforeLoad, WhileLoading
  <2>3. Capturing => c.session = m_SessionID
    BY <1>3, <2>1 DEF PagesInv, WhileCapturing
  <2>4. TabsInv'
    BY <1>2, <1>3, <2>1 DEF PagesInv, TabsInv, Elements
  <2>5. LoadedPage' = LoadedPage
    BY <1>2 DEF LoadedPage, job
  <2>6. ASSUME Capturing, NEW m \in InFlight', DataReply(m)
        PROVE  m.value = [page |-> LoadedPage, method |-> m.method]
    BY <1>4, <2>1, <2>3, <2>6 DEF PagesInv, WhileCapturing
  <2>7. WhileCapturing'
    BY <1>2, <1>3, <2>1, <2>5, <2>6 DEF PagesInv, WhileCapturing, Elements, DataReply
  <2> QED
    BY <1>2, <2>2, <2>4, <2>7 DEF PagesInv, BeforeLoad, WhileLoading
<1>11. CASE BrowserNavigates
  <2>1. /\ c.method = "Page.navigate" /\ Exists(attached[c.session]) /\ Answer("reply", None)
        /\ page' = [page EXCEPT ![attached[c.session]] = [url |-> c.arg, state |-> "loading"]]
        /\ attached' = attached
    BY <1>11 DEF BrowserNavigates, Executes, SessionExists
  <2>2. ~Before /\ ~Capturing
    BY <1>3, <2>1 DEF PagesInv, BeforeLoad, WhileCapturing
  <2>3. TabsInv'
    BY <1>0, <1>2, <1>3 DEF PagesInv, TabsInv, Elements
  <2>4. WhileLoading'
    <3> SUFFICES ASSUME Loading PROVE WhileLoading'
      BY <1>2 DEF WhileLoading
    <3>1. /\ c.id = m_ID /\ c.session = local.sessionId /\ c.arg = local.url
          /\ NoPageLoads /\ \A m \in InFlight : ~LoadEvent(m) /\ ~DataReply(m)
      BY <1>3, <2>1 DEF PagesInv, WhileLoading
    <3>2. attached[c.session] = local.targetId /\ local.targetId \in Target
      BY <3>1 DEF SessionInv, NavegateInv, Loading
    <3>3. \A d \in Elements(cmds') : d.method \notin DataMethods /\ d.method # "Page.navigate"
      BY <1>3, <3>1 DEF PagesInv, WhileLoading
    <3>4. \A t \in Target : page'[t].state \in {"loading", "loaded"} => t = local.targetId /\ page'[t].url = local.url
      BY <1>0, <2>1, <3>1, <3>2 DEF NoPageLoads
    <3>5. \A m \in InFlight' : ~LoadEvent(m) /\ ~DataReply(m)
      BY <1>4, <2>1, <3>1 DEF LoadEvent, DataReply, DataMethods
    <3> QED
      BY <1>2, <3>3, <3>4, <3>5 DEF WhileLoading, Elements, LoadEvent, DataReply
  <2> QED
    BY <1>2, <2>2, <2>3, <2>4 DEF PagesInv, BeforeLoad, WhileCapturing
<1> QED
  BY <1>5, <1>6, <1>7, <1>8, <1>9, <1>10, <1>11 DEF BrowserExecutes

LEMMA PagesBrowser ==
  ASSUME Inv, SessionInv, PagesInv, BrowserAnswers \/ BrowserFiresLoad \/ BrowserFiresOther \/ BrowserDies,
         UNCHANGED convertVars
  PROVE  PagesInv'
<1>0. /\ page \in [Target -> Page] /\ wire \in Seq(Message) /\ launches \in Nat /\ pending \subseteq Message
      /\ link = "open"
  BY DEF Inv, TypeOK, LinkInv, BrowserAnswers, BrowserFiresLoad, BrowserFiresOther, BrowserDies
<1>1. /\ UNCHANGED <<pc, ret, local, m_ID, m_SessionID, link, stage, results, attached, m_MessageQueue>>
      /\ (Before' <=> Before) /\ (Loading' <=> Loading) /\ (Capturing' <=> Capturing)
  BY DEF BrowserAnswers, BrowserFiresLoad, BrowserFiresOther, BrowserDies, BrowserSends, clientVars,
         convertVars, Before, Loading, Capturing
<1>2. CASE BrowserAnswers
  <2>1. PICK m \in pending : pending' = pending \ {m} /\ wire' = Append(wire, m) /\ cmds' = cmds /\ page' = page
    BY <1>2 DEF BrowserAnswers, BrowserSends
  <2>2. Elements(wire') = Elements(wire) \cup {m}
    BY <1>0, <2>1, ElementsOfAppend
  <2>3. \A k \in InFlight' : k \in InFlight
    BY <1>1, <2>1, <2>2 DEF InFlight, Elements
  <2>4. Elements(cmds') = Elements(cmds)
    BY <2>1
  <2> QED
    BY <1>0, <1>1, <2>1, <2>3, <2>4, PagesFrame
<1>3. CASE BrowserFiresOther
  <2>1. PICK m : m = Msg("event", 0, "other", None)
    OBVIOUS
  <2>2. m \in Message /\ ~LoadEvent(m) /\ ~DataReply(m)
    BY <1>0, <2>1 DEF Msg, Message, Events, LoadEvent, DataReply
  <2>3. wire' = Append(wire, m) /\ cmds' = cmds /\ page' = page /\ pending' = pending
    BY <1>3, <2>1 DEF BrowserFiresOther, BrowserSends
  <2>4. Elements(wire') = Elements(wire) \cup {m} /\ Elements(cmds') = Elements(cmds)
    BY <1>0, <2>2, <2>3, ElementsOfAppend
  <2>5. \A k \in InFlight' : k \in InFlight \/ (~LoadEvent(k) /\ ~DataReply(k))
    BY <1>1, <2>2, <2>3, <2>4 DEF InFlight, Elements
  <2> QED
    BY <1>0, <1>1, <2>3, <2>4, <2>5, PagesFrame
<1>4. CASE BrowserDies
  <2>1. /\ AnswersInv' /\ Elements(cmds') \subseteq Elements(cmds)
        /\ \A m \in InFlight' : m \in InFlight \/ m.kind = "tail"
    BY <1>4, BrowserDiesKeeps DEF SessionInv
  <2>2. page' = page /\ \A m \in InFlight' : m \in InFlight \/ (~LoadEvent(m) /\ ~DataReply(m))
    BY <1>4, <2>1 DEF BrowserDies, LoadEvent, DataReply
  <2> QED
    BY <1>0, <1>1, <2>1, <2>2, PagesFrame
<1>5. CASE BrowserFiresLoad
  <2>1. PICK t \in Target :
          /\ page[t].state = "loading" /\ page' = [page EXCEPT ![t].state = "loaded"]
          /\ \/ BrowserSends(Msg("event", 0, "Page.loadEventFired", t))
             \/ UNCHANGED <<clientVars, m_MessageQueue, cmds, wire, browser, launches, attached, enabled>>
    BY <1>5 DEF BrowserFiresLoad
  <2>2. PICK m : m = Msg("event", 0, "Page.loadEventFired", t)
    OBVIOUS
  <2>3. m \in Message /\ ~DataReply(m)
    BY <1>0, <2>2 DEF Msg, Message, Events, DataReply
  <2>4. cmds' = cmds /\ pending' = pending /\ (wire' = wire \/ wire' = Append(wire, m))
    BY <1>5, <2>1, <2>2 DEF BrowserFiresLoad, BrowserSends
  <2>5. \A k \in InFlight' : k \in InFlight \/ k = m
    <3>1. Elements(Append(wire, m)) = Elements(wire) \cup {m}
      BY <1>0, <2>3, ElementsOfAppend
    <3> QED
      BY <1>1, <2>4, <3>1 DEF InFlight, Elements
  <2>6. /\ page'[t].state = "loaded" /\ page'[t].url = page[t].url
        /\ \A u \in Target : u # t => page'[u] = page[u]
    BY <1>0, <2>1 DEF Page
  <2>7. Elements(cmds') = Elements(cmds) /\ LoadedPage' = LoadedPage
    BY <1>1, <2>4 DEF LoadedPage, job
  <2>8. TabsInv' /\ ~Before
    BY <1>0, <1>1, <2>1, <2>7 DEF PagesInv, TabsInv, BeforeLoad, NoPageLoads, Elements
  <2>9. WhileLoading'
    <3> SUFFICES ASSUME Loading PROVE WhileLoading'
      BY <1>1 DEF WhileLoading
    <3>1. t = local.targetId /\ page[t].url = local.url
      BY <2>1 DEF PagesInv, WhileLoading
    <3>2. \A c \in Elements(cmds') : c.method \notin DataMethods /\ c.method # "Page.navigate"
      BY <2>1, <2>7 DEF PagesInv, WhileLoading, NoPageLoads
    <3>3. \A u \in Target : page'[u].state \in {"loading", "loaded"} => u = local.targetId /\ page'[u].url = local.url
      BY <2>6, <3>1 DEF PagesInv, WhileLoading
    <3>4. \A k \in InFlight' : ~DataReply(k)
      BY <2>3, <2>5 DEF PagesInv, WhileLoading
    <3> QED
      BY <1>1, <2>6, <3>1, <3>2, <3>3, <3>4 DEF WhileLoading, Elements, DataReply
  <2>10. WhileCapturing'
    <3> SUFFICES ASSUME Capturing PROVE WhileCapturing'
      BY <1>1 DEF WhileCapturing
    <3>1. page[attached[m_SessionID]] = LoadedPage /\ attached[m_SessionID] \in Target
      BY DEF PagesInv, WhileCapturing
    <3>2. attached[m_SessionID] # t
      BY <2>1, <3>1 DEF LoadedPage
    <3>3. \A k \in InFlight' : DataReply(k) => k \in InFlight
      BY <2>3, <2>5
    <3> QED
      BY <1>1, <2>6, <2>7, <3>1, <3>2, <3>3 DEF PagesInv, WhileCapturing, Elements, DataReply
  <2> QED
    BY <1>1, <2>8, <2>9, <2>10 DEF PagesInv, BeforeLoad
<1> QED
  BY <1>2, <1>3, <1>4, <1>5

LEMMA PagesKeep ==
  ASSUME Inv, SessionInv, ConvertTypeOK, StageInv, PagesInv, ConvertNext \/ UNCHANGED allVars
  PROVE  PagesInv'
<1>1. CASE ConvertStep
  BY <1>1, PagesCalls, PagesSteps, PagesLeaves DEF ConvertStep
<1>2. CASE CallStep /\ UNCHANGED convertVars
  BY <1>2, PagesReads, PagesEnds, PagesBreak, PagesCalls DEF CallStep
<1>3. CASE BrowserStep /\ UNCHANGED convertVars
  BY <1>3, PagesExecutes, PagesBrowser DEF BrowserStep
<1>4. CASE UNCHANGED allVars
  <2>1. /\ UNCHANGED <<pc, ret, local, m_ID, m_SessionID, link, stage, results, attached, page, cmds,
                       m_MessageQueue, wire, pending>>
    BY <1>4 DEF allVars, convertVars, vars, clientVars, browserVars
  <2>2. InFlight' = InFlight /\ Elements(cmds') = Elements(cmds)
    BY <2>1 DEF InFlight
  <2>3. (Before' <=> Before) /\ (Loading' <=> Loading) /\ (Capturing' <=> Capturing)
    BY <2>1 DEF Before, Loading, Capturing
  <2> QED
    BY <2>1, <2>2, <2>3, PagesFrame
<1> QED
  BY <1>1, <1>2, <1>3, <1>4 DEF ConvertNext, Idles

-----------------------------------------------------------------------------
(* Whose messages are read. *)

LEMMA AllOwn ==
  ASSUME SessionInv, OwnMessages
  PROVE  \A m \in InFlight : m.browser = launches
BY InFlightElements DEF SessionInv, AnswersInv, OneBrowser, OwnMessages

LEMMA OwnKeeps ==
  ASSUME Inv, SessionInv, StageInv, OwnMessages, ConvertNext \/ UNCHANGED allVars
  PROVE  OwnMessages'
<1>1. ASSUME UNCHANGED <<m_MessageQueue, launches>> PROVE OwnMessages'
  BY <1>1 DEF OwnMessages, Elements
<1>2. ASSUME m_MessageQueue' = <<>> PROVE OwnMessages'
  BY <1>2 DEF OwnMessages, Elements
<1>3. ASSUME Take PROVE OwnMessages'
  <2>1. InFlight' \subseteq InFlight /\ launches' = launches
    BY <1>3, TakeProperties
  <2>2. Elements(m_MessageQueue') \subseteq InFlight'
    BY DEF InFlight, Elements
  <2> QED
    BY <2>1, <2>2, AllOwn DEF OwnMessages, Elements
<1>4. ASSUME NEW method, NEW session, NEW arg, NEW next, NEW loc, Send(method, session, arg, next, loc)
      PROVE  OwnMessages'
  BY <1>1, <1>4 DEF Send, browserVars
<1>5. CASE ConvertStep
  <2>1. CASE ConvertLaunches
    BY <1>2, <2>1 DEF ConvertLaunches, Launch, StageInv
  <2>2. CASE ConvertLeaves
    BY <1>2, <2>2 DEF ConvertLeaves
  <2>3. CASE ConvertNavegates \/ ConvertCaptures
    BY <1>4, <2>3 DEF ConvertNavegates, Navegate, ConvertCaptures, Screenshot, PrintToPDF
  <2>4. CASE ConvertSetsTimeout \/ ConvertMarginThrows \/ ConvertReturns
    BY <1>1, <2>4 DEF ConvertSetsTimeout, SetTimeout, ConvertMarginThrows, ConvertReturns, vars, browserVars
  <2> QED
    BY <1>5, <2>1, <2>2, <2>3, <2>4 DEF ConvertStep
<1>6. CASE CallStep
  <2>1. CASE \/ WaitDiscards \/ WaitFindsError \/ WaitThrows \/ NavegateGetsTarget \/ NavegateGetsSession
             \/ NavegateGetsMetrics \/ NavegateSeesLoad \/ CloseTabReturns \/ ScreenshotGetsLayout \/ DataArrives
    BY <1>3, <2>1 DEF WaitDiscards, WaitFindsError, WaitThrows, NavegateGetsTarget, NavegateGetsSession,
       NavegateGetsMetrics, NavegateSeesLoad, CloseTabReturns, ScreenshotGetsLayout, DataArrives, Await
  <2>2. CASE WaitTimesOut \/ WaitMeetsEnd \/ BlockedWriteBreaks
    BY <1>1, <2>2 DEF WaitTimesOut, ReadTimesOut, WaitMeetsEnd, BlockedWriteBreaks, browserVars
  <2>3. CASE NavegateAttaches \/ NavegateEnables \/ NavegateSetsMetrics \/ NavegateLoads \/ ScreenshotCaptures
    BY <1>4, <2>3 DEF NavegateAttaches, NavegateEnables, NavegateSetsMetrics, NavegateLoads, ScreenshotCaptures
  <2> QED
    BY <1>6, <2>1, <2>2, <2>3 DEF CallStep
<1>7. CASE BrowserStep
  <2>1. CASE BrowserExecutes
    BY <1>1, <2>1 DEF BrowserExecutes, BrowserCreatesTarget, BrowserAttaches, BrowserEnables, BrowserNavigates,
       BrowserMeasures, BrowserCaptures, BrowserClosesTarget, BrowserRejects, Answer
  <2>2. CASE BrowserAnswers \/ BrowserFiresLoad \/ BrowserFiresOther \/ BrowserDies
    BY <1>1, <2>2 DEF BrowserAnswers, BrowserFiresLoad, BrowserFiresOther, BrowserDies, BrowserSends
  <2> QED
    BY <1>7, <2>1, <2>2 DEF BrowserStep
<1>8. CASE UNCHANGED allVars
  BY <1>1, <1>8 DEF allVars, vars, browserVars
<1> QED
  BY <1>5, <1>6, <1>7, <1>8 DEF ConvertNext, Idles

-----------------------------------------------------------------------------
(* The invariant holds. *)

LEMMA InitConvert == ConvertInit => ConvertInv
<1> SUFFICES ASSUME ConvertInit PROVE ConvertInv
  OBVIOUS
<1>1. Inv /\ SessionInv /\ stage = "new" /\ results = <<>>
  BY InitInv, InitSession DEF ConvertInit
<1>2. ConvertTypeOK
  BY <1>1, EmptySeq, JobsAssumption, LenProperties DEF Inv, ConvertTypeOK
<1>3. StageInv
  BY <1>1 DEF ConvertInit, Init, StageInv
<1>4. Elements(cmds) = {} /\ InFlight = {} /\ ~Loading /\ ~Capturing
  BY <1>1 DEF ConvertInit, Init, Elements, InFlight, Loading, Capturing
<1>5. \A t \in Target : page[t].state = "free"
  BY DEF ConvertInit, Init
<1>6. TabsInv /\ BeforeLoad
  BY <1>4, <1>5 DEF TabsInv, BeforeLoad, NoPageLoads
<1>7. OwnMessages
  BY DEF ConvertInit, Init, OwnMessages, Elements
<1> QED
  BY <1>1, <1>2, <1>3, <1>4, <1>6, <1>7 DEF ConvertInv, PagesInv, WhileLoading, WhileCapturing

LEMMA NextConvert == ConvertInv /\ [ConvertNext]_allVars => ConvertInv'
<1> SUFFICES ASSUME ConvertInv, ConvertNext \/ UNCHANGED allVars PROVE ConvertInv'
  OBVIOUS
<1>1. Inv /\ SessionInv /\ ConvertTypeOK /\ StageInv /\ PagesInv /\ OwnMessages
  BY DEF ConvertInv
<1>2. Inv' /\ SessionInv'
  BY <1>1, ManagerKeeps
<1>3. ConvertTypeOK'
  BY <1>1, <1>2, ConvertTypes
<1>4. StageInv'
  BY <1>1, StageKeeps
<1>5. PagesInv'
  BY <1>1, PagesKeep
<1>6. OwnMessages'
  BY <1>1, OwnKeeps
<1> QED
  BY <1>2, <1>3, <1>4, <1>5, <1>6 DEF ConvertInv

THEOREM ConvertInvHolds == ConvertSpec => []ConvertInv
BY InitConvert, NextConvert, PTL DEF ConvertSpec

(* The conversions take and store what they mean to: tabs, sessions and captures are never
   mixed up, and there is one result for each finished conversion. *)
THEOREM ConvertTypeCorrect == ConvertSpec => []ConvertTypeOK
BY ConvertInvHolds, PTL DEF ConvertInv

(* Whichever call a conversion leaves at, the next one starts without a browser and
   without anything left of the last one to read. *)
THEOREM ConversionEndsBrowser == ConvertSpec => []BrowserEnded
<1>1. ConvertInv => BrowserEnded
  <2> SUFFICES ASSUME ConvertInv, stage = "new"
               PROVE  browser = "none" /\ link = "unset" /\ InFlight = {} /\ m_ID = 0
    BY DEF BrowserEnded
  <2>1. link = "unset" /\ m_ID = 0 /\ m_MessageQueue = <<>>
    BY DEF ConvertInv, StageInv
  <2>2. browser = "none" /\ wire = <<>> /\ pending = {}
    BY <2>1 DEF ConvertInv, Inv, LinkInv
  <2> QED
    BY <2>1, <2>2 DEF InFlight
<1> QED
  BY <1>1, ConvertInvHolds, PTL

-----------------------------------------------------------------------------
(* The load event. *)

\* The first load event of a browser is that of the page the conversion asked for.
LEMMA LoadIsOfItsPage ==
  ASSUME ConvertInv, Await("loadWait")
  PROVE  page[local.targetId] = [url |-> local.url, state |-> "loaded"]
<1>1. /\ Inv /\ SessionInv /\ pc = "loadWait" /\ Loading
      /\ NextMessage \in InFlight /\ LoadEvent(NextMessage)
  BY TakeProperties DEF ConvertInv, ConvertTypeOK, Await, Wanted, LoadEvent, StageInv, Outside, ImagePlaces, Loading
<1>2. local.targetId \in Target /\ page[local.targetId] \in Page
  BY <1>1 DEF SessionInv, NavegateInv, Inv, TypeOK
<1>3. page[local.targetId].state = "loaded" /\ page[local.targetId].url = local.url
  BY <1>1, <1>2 DEF ConvertInv, PagesInv, WhileLoading
<1> QED
  BY <1>2, <1>3 DEF Page

\* Navegate returns true from that wait only.
LEMMA NavegateReturns ==
  ASSUME ConvertInv, ConvertNext \/ UNCHANGED allVars, pc = "loadWait", pc' = "idle", ret' = "true"
  PROVE  Await("loadWait")
<1>1. Inv /\ StageInv /\ ConvertTypeOK
  BY DEF ConvertInv
<1>2. ~ConvertStep
  BY DEF ConvertStep, ConvertLaunches, Launch, ConvertSetsTimeout, SetTimeout, ConvertNavegates, Navegate,
         ConvertCaptures, ConvertMarginThrows, ConvertReturns, ConvertLeaves
<1>3. ~BrowserStep /\ ~UNCHANGED allVars
  BY <1>1, BrowserMoves DEF clientVars, allVars, vars
<1>4. CallStep
  BY <1>2, <1>3 DEF ConvertNext, Idles
<1>5. ~(WaitDiscards \/ WaitFindsError \/ WaitTimesOut \/ WaitThrows \/ WaitMeetsEnd \/ BlockedWriteBreaks)
  BY DEF WaitDiscards, clientVars, WaitFindsError, WaitTimesOut, WaitThrows, WaitMeetsEnd, Return,
         BlockedWriteBreaks
<1>6. NavegateSeesLoad
  BY <1>4, <1>5 DEF CallStep, NavegateGetsTarget, NavegateAttaches, NavegateGetsSession, NavegateEnables,
     NavegateSetsMetrics, NavegateGetsMetrics, NavegateLoads, CloseTabReturns, ScreenshotGetsLayout,
     ScreenshotCaptures, DataArrives, Await
<1> QED
  BY <1>6 DEF NavegateSeesLoad

(* A manager that serves one conversion does not take the load event of another page for
   its own, as one that is used again may. *)
THEOREM ConversionLoadsItsPage == ConvertSpec => NavegateLoadsItsPage
<1>1. ConvertInv /\ [ConvertNext]_allVars =>
        [pc = "loadWait" /\ ret' = "true" /\ pc' = "idle"
           => page[local.targetId] = [url |-> local.url, state |-> "loaded"]]_vars
  BY LoadIsOfItsPage, NavegateReturns DEF allVars
<1> QED
  BY <1>1, ConvertInvHolds, PTL DEF ConvertSpec, NavegateLoadsItsPage

-----------------------------------------------------------------------------
(* The result files. *)

\* What the current conversion is to save.
Capture == [page |-> LoadedPage, method |-> DataMethod(job.kind)]

LEMMA OneSaves ==
  ASSUME Inv, ConvertNext \/ UNCHANGED allVars
  PROVE  (DataArrives /\ UNCHANGED convertVars) \/ disk' = disk
<1>1. CASE ConvertStep
  <2>1. CASE ConvertNavegates \/ ConvertCaptures
    BY <2>1, SendMoves DEF ConvertNavegates, Navegate, ConvertCaptures, Screenshot, PrintToPDF
  <2>2. CASE ~(ConvertNavegates \/ ConvertCaptures)
    BY <1>1, <2>2 DEF ConvertStep, ConvertLaunches, Launch, ConvertSetsTimeout, SetTimeout,
       ConvertMarginThrows, ConvertReturns, ConvertLeaves, vars, clientVars
  <2> QED
    BY <2>1, <2>2
<1>2. CASE CallStep /\ UNCHANGED convertVars
  <2>1. CASE NavegateAttaches \/ NavegateEnables \/ NavegateSetsMetrics \/ NavegateLoads \/ ScreenshotCaptures
    BY <2>1, SendMoves DEF NavegateAttaches, NavegateEnables, NavegateSetsMetrics, NavegateLoads,
       ScreenshotCaptures
  <2>2. CASE \/ WaitDiscards \/ WaitFindsError \/ WaitTimesOut \/ WaitThrows \/ WaitMeetsEnd
             \/ NavegateGetsTarget \/ NavegateGetsSession \/ NavegateGetsMetrics \/ NavegateSeesLoad
             \/ CloseTabReturns \/ ScreenshotGetsLayout \/ BlockedWriteBreaks
    BY <2>2 DEF WaitDiscards, WaitFindsError, WaitTimesOut, WaitThrows, WaitMeetsEnd, NavegateGetsTarget,
       NavegateGetsSession, NavegateGetsMetrics, NavegateSeesLoad, CloseTabReturns, ScreenshotGetsLayout,
       BlockedWriteBreaks, clientVars
  <2> QED
    BY <1>2, <2>1, <2>2 DEF CallStep
<1>3. CASE BrowserStep /\ UNCHANGED convertVars
  <2>1. CASE BrowserExecutes
    BY <2>1 DEF BrowserExecutes, BrowserCreatesTarget, BrowserAttaches, BrowserEnables, BrowserNavigates,
       BrowserMeasures, BrowserCaptures, BrowserClosesTarget, BrowserRejects, Answer, clientVars
  <2>2. CASE BrowserAnswers \/ BrowserFiresLoad \/ BrowserFiresOther \/ BrowserDies
    BY <2>2 DEF BrowserAnswers, BrowserFiresLoad, BrowserFiresOther, BrowserDies, BrowserSends, clientVars
  <2> QED
    BY <1>3, <2>1, <2>2 DEF BrowserStep
<1>4. CASE UNCHANGED allVars
  BY <1>4 DEF allVars, vars, clientVars
<1> QED
  BY <1>1, <1>2, <1>3, <1>4 DEF ConvertNext, Idles

\* The answer a capture is read from answers that capture.
LEMMA CaptureArrives ==
  ASSUME ConvertInv, NEW place \in {"captureWait", "printWait"}, Take, pc = place, Wanted(NextMessage)
  PROVE  /\ NextMessage \in InFlight
         /\ NextMessage.kind = "reply" /\ NextMessage.method = Awaited[place]
<1>0. Inv /\ SessionInv /\ OwnMessages
  BY DEF ConvertInv
<1>1. NextMessage.kind = "reply" /\ NextMessage.id = m_ID
  BY DEF Wanted
<1>2. NextMessage \in InFlight
  BY <1>0, TakeProperties
<1>3. MessageOK(NextMessage) /\ NextMessage.browser = launches
  BY <1>0, <1>2, AllOwn DEF Inv, TrafficInv
<1>4. link = "open" /\ pc \in DOMAIN Awaited
  BY <1>0 DEF Inv, LinkInv, Awaited
<1> QED
  BY <1>1, <1>2, <1>3, <1>4 DEF MessageOK

LEMMA WhatIsSaved ==
  ASSUME ConvertInv, DataArrives
  PROVE  /\ stage = "capture" /\ pc \notin Outside /\ pc' = "idle" /\ ret' = "true"
         /\ Running /\ Len(results) + 1 \in DOMAIN Jobs /\ job \in Job
         /\ \/ disk' = [disk EXCEPT ![job.path] = Capture]
            \/ "disk" \in Faults /\ (disk' = disk \/ disk' = [disk EXCEPT ![job.path] = Part])
<1>1. PICK place \in {"captureWait", "printWait"} : Await(place)
  BY DEF DataArrives
<1>2. Take /\ pc = place /\ NextMessage.kind = "reply" /\ NextMessage.method = Awaited[place]
  BY <1>1, CaptureArrives DEF Await
<1>3. /\ stage = "capture" /\ pc \notin Outside /\ Running /\ local.path = job.path
      /\ place = "captureWait" => job.kind = "image"
      /\ place = "printWait" => job.kind = "pdf"
  BY <1>2 DEF ConvertInv, ConvertTypeOK, StageInv, Outside, NavegatePlaces, ImagePlaces
<1>4. NextMessage \in InFlight
  BY <1>1, CaptureArrives DEF Await
<1>5. DataReply(NextMessage) /\ NextMessage.method = DataMethod(job.kind)
  BY <1>2, <1>3 DEF DataReply, DataMethods, Awaited, DataMethod
<1>6. NextMessage.value = Capture
  BY <1>3, <1>4, <1>5 DEF ConvertInv, PagesInv, WhileCapturing, Capturing, Capture
<1>7. /\ pc' = "idle" /\ ret' = "true"
      /\ \/ disk' = [disk EXCEPT ![job.path] = Capture]
         \/ "disk" \in Faults /\ (disk' = disk \/ disk' = [disk EXCEPT ![job.path] = Part])
  BY <1>3, <1>6 DEF DataArrives, SaveFile, SaveFails, Return
<1> QED
  BY <1>3, <1>7, CurrentJob DEF ConvertInv

(* A result file that was written to its end shows, in the format asked for, the loaded page of a conversion that was
   to write it, for any list of jobs, whatever fails on the way. *)
THEOREM FilesCorrect == ConvertSpec => []FilesShowLoadedPages
<1>1. ConvertInit => FilesShowLoadedPages
  BY DEF ConvertInit, Init, FilesShowLoadedPages
<1>2. ConvertInv /\ FilesShowLoadedPages /\ [ConvertNext]_allVars => FilesShowLoadedPages'
  <2> SUFFICES ASSUME ConvertInv, FilesShowLoadedPages, ConvertNext \/ UNCHANGED allVars
               PROVE  FilesShowLoadedPages'
    OBVIOUS
  <2>1. CASE disk' = disk
    BY <2>1 DEF FilesShowLoadedPages
  <2>2. CASE DataArrives
    <3>1. /\ Len(results) + 1 \in 1 .. Len(Jobs) /\ job = Jobs[Len(results) + 1]
          /\ \/ disk' = disk \/ disk' = [disk EXCEPT ![job.path] = Capture]
             \/ disk' = [disk EXCEPT ![job.path] = Part]
      BY <2>2, WhatIsSaved, JobsAssumption, LenProperties DEF job
    <3>2. disk \in [Path -> Rendering \cup {None, Part}]
      BY DEF ConvertInv, Inv, TypeOK
    <3>3. ASSUME NEW p \in Path, disk'[p] \notin {None, Part}
          PROVE  \E i \in 1 .. Len(Jobs) :
                   /\ Jobs[i].path = p
                   /\ disk'[p] = [page |-> [url |-> Jobs[i].url, state |-> "loaded"],
                                  method |-> DataMethod(Jobs[i].kind)]
      <4>1. CASE disk'[p] = disk[p]
        BY <3>3, <4>1 DEF FilesShowLoadedPages
      <4>2. CASE p = job.path /\ disk'[p] = Capture
        BY <3>1, <4>2 DEF Capture, LoadedPage
      <4> QED
        BY <3>1, <3>2, <3>3, <4>1, <4>2
    <3> QED
      BY <3>3 DEF FilesShowLoadedPages
  <2> QED
    BY <2>1, <2>2, OneSaves DEF ConvertInv
<1> QED
  BY <1>1, <1>2, ConvertInvHolds, PTL DEF ConvertSpec

-----------------------------------------------------------------------------
(* The conversions implement module Conversions. *)

LEMMA CaptureIsSomething ==
  ASSUME ConvertTypeOK, Running
  PROVE  Capture \notin {None, Part}
<1>1. LoadedPage \in Page /\ DataMethod(job.kind) \in DataMethods
  BY CurrentJob DEF LoadedPage, Page, DataMethod, DataMethods
<1>2. Capture \in Rendering
  BY <1>1 DEF Capture, Rendering
<1> QED
  BY <1>2, CaptureAssumption

\* A call of the manager returns true to a conversion only when it is the last one.
LEMMA CallSucceeds ==
  ASSUME CallStep, pc' = "idle", ret' = "true", pc \notin Outside
  PROVE  DataArrives \/ pc \in {"closeWait", "loadWait"}
<1>1. CASE NavegateAttaches \/ NavegateEnables \/ NavegateSetsMetrics \/ NavegateLoads \/ ScreenshotCaptures
  BY <1>1, SendMoves DEF NavegateAttaches, NavegateEnables, NavegateSetsMetrics, NavegateLoads,
     ScreenshotCaptures
<1>2. CASE WaitFindsError \/ WaitTimesOut \/ WaitThrows \/ WaitMeetsEnd
  BY <1>2 DEF WaitFindsError, WaitTimesOut, WaitThrows, WaitMeetsEnd, Return
<1>3. CASE \/ WaitDiscards \/ NavegateGetsTarget \/ NavegateGetsSession \/ NavegateGetsMetrics
           \/ ScreenshotGetsLayout \/ BlockedWriteBreaks
  BY <1>3 DEF WaitDiscards, clientVars, BlockedWriteBreaks, Outside, NavegateGetsTarget, NavegateGetsSession,
     NavegateGetsMetrics, ScreenshotGetsLayout
<1>4. CASE NavegateSeesLoad \/ CloseTabReturns
  BY <1>4 DEF NavegateSeesLoad, CloseTabReturns, Await
<1> QED
  BY <1>1, <1>2, <1>3, <1>4 DEF CallStep

\* The capture arrives and is saved.
Saves == DataArrives /\ UNCHANGED convertVars

LEMMA FinishedKeeps ==
  ASSUME ConvertInv, ConvertNext \/ UNCHANGED allVars, ~Saves, ~ConvertLeaves
  PROVE  /\ (Finished' <=> Finished) /\ results' = results
         /\ Over => Over' /\ ret' = ret
<1> USE DEF Over
<1>0. ConvertTypeOK /\ StageInv /\ Inv
  BY DEF ConvertInv
<1>1. CASE ConvertLaunches \/ ConvertSetsTimeout
  BY <1>1 DEF ConvertLaunches, ConvertSetsTimeout, Finished
<1>2. CASE ConvertNavegates
  BY <1>2 DEF ConvertNavegates, Finished
<1>3. CASE ConvertCaptures
  <2>1. stage = "navegate" /\ results' = results
    BY <1>3 DEF ConvertCaptures
  <2>2. pc' = "idle" => ret' = "false"
    BY <1>3, SendMoves DEF ConvertCaptures, Screenshot, PrintToPDF
  <2> QED
    BY <2>1, <2>2 DEF Finished
<1>4. CASE ConvertMarginThrows
  BY <1>4 DEF ConvertMarginThrows, Finished
<1>5. CASE ConvertReturns
  <2>1. /\ pc = "idle" /\ stage' = "leave" /\ UNCHANGED <<results, pc, ret>>
        /\ (stage = "navegate" /\ ret # "true") \/ stage = "capture"
    BY <1>5 DEF ConvertReturns, vars, clientVars
  <2> QED
    BY <2>1 DEF Finished
<1>6. CASE CallStep /\ ~BlockedWriteBreaks /\ UNCHANGED convertVars
  <2>1. stage' = stage /\ results' = results /\ pc \notin Outside
    BY <1>0, <1>6, CallMoves DEF convertVars
  <2>2. ~(stage \in {"capture", "leave"} /\ pc \in {"closeWait", "loadWait"})
    BY <1>0 DEF StageInv, ImagePlaces, Outside
  <2> QED
    BY <1>6, <2>1, <2>2, CallSucceeds DEF Finished, Outside, Saves
<1>7. CASE BrowserStep /\ UNCHANGED convertVars
  BY <1>0, <1>7, BrowserMoves DEF clientVars, convertVars, Finished
<1>8. CASE UNCHANGED allVars
  BY <1>8 DEF allVars, vars, clientVars, convertVars, Finished
<1>9. CASE BlockedWriteBreaks /\ UNCHANGED convertVars
  BY <1>9, BreakMoves DEF convertVars, Finished
<1> QED
  BY <1>1, <1>2, <1>3, <1>4, <1>5, <1>6, <1>7, <1>8, <1>9 DEF ConvertNext, ConvertStep, Idles

LEMMA NextDisk ==
  ASSUME PathsDiffer, ConvertInv, DiskInv, ConvertNext \/ UNCHANGED allVars
  PROVE  DiskInv'
<1>0. ConvertTypeOK /\ StageInv /\ Inv /\ disk \in [Path -> Rendering \cup {None, Part}] /\ Len(results) \in Nat
  BY LenProperties DEF ConvertInv, ConvertTypeOK, Inv, TypeOK
<1>1. CASE Saves
  <2>1. /\ Len(results) + 1 \in DOMAIN Jobs /\ Running /\ pc' = "idle" /\ ret' = "true" /\ stage' = "capture"
        /\ job \in Job /\ results' = results /\ job' = job
        /\ \/ disk' = [disk EXCEPT ![job.path] = Capture]
           \/ "disk" \in Faults /\ (disk' = disk \/ disk' = [disk EXCEPT ![job.path] = Part])
    BY <1>1, WhatIsSaved DEF Saves, convertVars, job
  <2>2. ASSUME NEW i \in DOMAIN Jobs, i > Len(results) + 1  PROVE disk'[Jobs[i].path] = None
    <3>1. i # Len(results) + 1 /\ disk[Jobs[i].path] = None /\ Jobs[i] \in Job
      BY <1>0, <2>2, JobsAssumption, ElementOfSeq, LenProperties DEF DiskInv
    <3>2. Jobs[i].path # job.path /\ Jobs[i].path \in Path
      BY <2>1, <3>1 DEF PathsDiffer, job, Job
    <3> QED
      BY <1>0, <2>1, <3>1, <3>2
  <2>3. Whole(job.path)' \/ "disk" \in Faults
    BY <1>0, <2>1, CaptureIsSomething DEF Job, Whole
  <2> QED
    BY <2>1, <2>2, <2>3 DEF DiskInv, Over, Finished, Whole
<1>2. CASE ConvertLeaves
  <2>1. results' = Append(results, ret) /\ disk' = disk /\ stage' = "new"
    BY <1>2 DEF ConvertLeaves
  <2>2. Len(results') = Len(results) + 1
    BY <1>0, <2>1, AppendProperties DEF ConvertTypeOK, Inv, TypeOK
  <2>3. \A i \in DOMAIN Jobs : i > Len(results') + 1 => disk'[Jobs[i].path] = None
    <3>1. \A i \in DOMAIN Jobs : i \in Nat
      BY JobsAssumption, LenProperties
    <3> QED
      BY <1>0, <2>1, <2>2, <3>1 DEF DiskInv
  <2>4. ASSUME Running'  PROVE disk'[job'.path] = None
    <3>1. Len(results') + 1 \in DOMAIN Jobs /\ Len(results') + 1 > Len(results) + 1
      BY <1>0, <2>2, <2>4, JobsAssumption, LenProperties DEF Running
    <3> QED
      BY <2>1, <3>1 DEF DiskInv, job
  <2> QED
    BY <2>1, <2>3, <2>4 DEF DiskInv, Over, Finished, Whole
<1>3. CASE disk' = disk /\ ~Saves /\ ~ConvertLeaves
  <2>1. /\ (Finished' <=> Finished) /\ results' = results /\ job' = job /\ (Running' <=> Running)
        /\ Over => Over' /\ ret' = ret
    BY <1>3, FinishedKeeps DEF job, Running
  <2>2. disk[job.path] = None => ~Whole(job.path)
    BY DEF Whole
  <2> QED
    BY <1>3, <2>1, <2>2 DEF DiskInv, Whole
<1>4. Saves \/ disk' = disk
  BY <1>0, OneSaves DEF Saves
<1> QED
  BY <1>1, <1>2, <1>3, <1>4

\* The files and their order, as module Conversions sees them.
LEMMA PromiseFiles ==
  ASSUME ConvertTypeOK, Running
  PROVE  /\ Promise!Current = Len(results) + 1
         /\ Promise!Current <= Len([i \in DOMAIN Jobs |-> Jobs[i].path])
         /\ Promise!File = job.path
         /\ [i \in DOMAIN Jobs |->
               [page |-> [url |-> Jobs[i].url, state |-> "loaded"],
                method |-> DataMethod(Jobs[i].kind)]][Promise!Current] = Capture
<1> DEFINE files == [i \in DOMAIN Jobs |-> Jobs[i].path]
<1>1. Len(results) + 1 \in DOMAIN Jobs
  BY CurrentJob
<1>2. Len(Jobs) \in Nat /\ DOMAIN Jobs = 1 .. Len(Jobs) /\ \A i \in 1 .. Len(Jobs) : Jobs[i] \in Job
  BY JobsAssumption, LenProperties, ElementOfSeq
<1>3. files \in Seq(Path) /\ DOMAIN files = 1 .. Len(Jobs)
  BY <1>2, IsASeq DEF Job
<1>4. Len(files) = Len(Jobs)
  BY <1>2, <1>3, LenProperties
<1> QED
  BY <1>1, <1>2, <1>4 DEF Promise!Current, Promise!File, job, Capture, LoadedPage

LEMMA PromiseStep ==
  ASSUME PathsDiffer, ConvertInv, DiskInv, ConvertNext \/ UNCHANGED allVars
  PROVE  \/ Promise!Next
         \/ "disk" \in Faults /\ Promise!SucceedWithoutFile
         \/ UNCHANGED Promise!conversionVars
<1>0. ConvertTypeOK /\ StageInv /\ Inv
  BY DEF ConvertInv
<1>1. CASE Saves
  <2>1. /\ stage = "capture" /\ pc \notin Outside /\ Running /\ results' = results
        /\ \/ disk' = [disk EXCEPT ![job.path] = Capture]
           \/ disk' = disk
           \/ disk' = [disk EXCEPT ![job.path] = Part]
    BY <1>1, WhatIsSaved DEF Saves, convertVars
  <2>2. CASE \/ disk' = [disk EXCEPT ![job.path] = Capture]
             \/ disk' = [disk EXCEPT ![job.path] = Part]
    <3>1. disk[job.path] = None
      BY <2>1 DEF DiskInv, Over, Outside
    <3>2. Promise!Save \/ Promise!SaveInPart
      BY <1>0, <2>1, <2>2, <3>1, PromiseFiles
         DEF Promise!Save, Promise!SaveInPart, Promise!Write, Promise!Untouched
    <3> QED
      BY <3>2 DEF Promise!Next
  <2>3. CASE disk' = disk
    BY <2>1, <2>3 DEF Promise!conversionVars
  <2> QED
    BY <2>1, <2>2, <2>3
<1>2. CASE ConvertLeaves
  <2>1. /\ results' = Append(results, ret) /\ disk' = disk /\ stage = "leave" /\ pc = "idle" /\ Running
        /\ ret \in {"true", "false", "threw"}
    BY <1>0, <1>2 DEF ConvertLeaves, StageInv, Inv, TypeOK
  <2>2. /\ Whole(job.path) => ret = "true"
        /\ ret = "true" => Whole(job.path) \/ "disk" \in Faults
        /\ Promise!Saved <=> Whole(job.path)
    BY <1>0, <2>1, PromiseFiles DEF DiskInv, Finished, Over, Promise!Saved, Whole
  <2>3. CASE Whole(job.path)
    BY <1>0, <2>1, <2>2, <2>3, PromiseFiles DEF Promise!Next, Promise!Succeed, Promise!Return
  <2>4. CASE ~Whole(job.path) /\ ret # "true"
    BY <1>0, <2>1, <2>2, <2>4, PromiseFiles DEF Promise!Next, Promise!Fail, Promise!Return
  <2>5. CASE ~Whole(job.path) /\ ret = "true" /\ "disk" \in Faults
    BY <1>0, <2>1, <2>2, <2>5, PromiseFiles DEF Promise!SucceedWithoutFile, Promise!Return
  <2> QED
    BY <2>2, <2>3, <2>4, <2>5
<1>3. CASE disk' = disk /\ ~Saves /\ ~ConvertLeaves
  BY <1>3, FinishedKeeps DEF Promise!conversionVars
<1>4. Saves \/ disk' = disk
  BY <1>0, OneSaves DEF Saves
<1> QED
  BY <1>1, <1>2, <1>3, <1>4

(* To their caller, conversions of different files are those of module Conversions: each
   saves its capture at most once and before it returns, one that fails has not saved
   it, and nobody touches the file of another. *)
THEOREM ConversionsKept ==
  ASSUME PathsDiffer
  PROVE  ConvertSpec => ImplementsConversions
<1>1. ConvertInit => DiskInv /\ Promise!Init
  <2> SUFFICES ASSUME ConvertInit PROVE DiskInv /\ Promise!Init
    OBVIOUS
  <2>1. disk = [p \in Path |-> None] /\ results = <<>> /\ ConvertTypeOK
    BY InitConvert DEF ConvertInit, Init, ConvertInv
  <2>2. Promise!Init
    BY <2>1 DEF Promise!Init
  <2>3. \A i \in DOMAIN Jobs : Jobs[i].path \in Path
    <3>1. \A i \in DOMAIN Jobs : Jobs[i] \in Job
      BY JobsAssumption, ElementOfSeq, LenProperties
    <3> QED
      BY <3>1 DEF Job
  <2>4. DiskInv
    BY <2>1, <2>3, CurrentJob DEF DiskInv, ConvertInit, Over, Finished, Whole
  <2> QED
    BY <2>2, <2>4
<1>2. ConvertInv /\ DiskInv /\ [ConvertNext]_allVars => DiskInv'
  BY NextDisk
<1>3. ConvertInv /\ DiskInv /\ [ConvertNext]_allVars =>
        [Promise!Next \/ ("disk" \in Faults /\ Promise!SucceedWithoutFile)]_(Promise!conversionVars)
  BY PromiseStep
<1> QED
  BY <1>1, <1>2, <1>3, ConvertInvHolds, PTL DEF ConvertSpec, ImplementsConversions

-----------------------------------------------------------------------------
(* The port to node: the inductive invariant.  Most of its steps are steps that
   ConvertHtmlModule could take as well; the others are the launch, the command whose
   answer is not waited for, and the ways in which a call reports a failure that the
   original overlooks or does not have. *)

\* Each conversion makes a manager of its own, so that nothing an earlier browser wrote can
\* be read, and no read is given up inside a message.
Fresh == \A m \in InFlight : m.browser = launches /\ m.kind # "tail"

NodeInv == ConvertInv /\ Fresh

\* Success is not reported of a file that could not be written, or not to its end.
Reported == Running /\ Finished => Whole(job.path)

LEMMA NodeParts == NodeInv => Inv /\ SessionInv /\ ConvertTypeOK /\ StageInv /\ PagesInv /\ Fresh
BY DEF NodeInv, ConvertInv

-----------------------------------------------------------------------------
(* The steps that ConvertHtmlModule does not have. *)

Written(next, loc) == pc' = next /\ local' = loc /\ ret' = ret

\* A call ends without a message.
GivesUp ==
  /\ pc' = "idle" /\ ret' \in {"false", "threw"} /\ local' = NoLocal /\ m_ID' \in {m_ID, m_ID + 1}
  /\ UNCHANGED <<m_TargetID, m_SessionID, m_MessageQueue, m_Timeout, link, disk, cmds, wire, browserVars>>

NodeGivesUp ==
  /\ GivesUp /\ results' = results
  /\ \/ pc \notin Outside /\ stage' = stage
     \/ stage = "ready" /\ stage' = "navegate"
     \/ stage = "navegate" /\ pc = "idle" /\ stage' = "capture"

NodeSaveFails ==
  /\ NodeAwait("captureWait") \/ NodeAwait("printWait")
  /\ SaveFails(local.path) /\ Return("false")
  /\ UNCHANGED <<m_ID, m_TargetID, m_SessionID, m_Timeout, link, convertVars>>

NodeCommand ==
  \/ /\ pc = "metrics" /\ UNCHANGED convertVars
     /\ Send("Emulation.setDeviceMetricsOverride", local.sessionId, None, "navigate", local)
     /\ Written("navigate", local)
  \/ /\ stage = "ready" /\ stage' = "navegate" /\ results' = results
     /\ Send("Target.createTarget", None, None, "createWait", [NoLocal EXCEPT !.url = job.url])
     /\ Written("createWait", [NoLocal EXCEPT !.url = job.url])
  \/ /\ stage = "navegate" /\ pc = "idle" /\ ret = "true" /\ job.kind = "image"
     /\ stage' = "capture" /\ results' = results
     /\ Send("Page.getLayoutMetrics", m_SessionID, None, "layoutWait", [NoLocal EXCEPT !.path = job.path])
     /\ Written("layoutWait", [NoLocal EXCEPT !.path = job.path])
  \/ /\ stage = "navegate" /\ pc = "idle" /\ ret = "true" /\ job.kind = "pdf"
     /\ stage' = "capture" /\ results' = results
     /\ Send("Page.printToPDF", m_SessionID, None, "printWait", [NoLocal EXCEPT !.path = job.path])
     /\ Written("printWait", [NoLocal EXCEPT !.path = job.path])

NodeStep == NodeLaunches \/ NodeGivesUp \/ NodeSaveFails \/ NodeCommand

\* A write succeeds exactly when that of ConvertHtmlModule does, or it gives the call up.
LEMMA NodeWrites ==
  ASSUME Inv, NEW method, NEW session, NEW arg, NEW next, NEW loc, NodeSend(method, session, arg, next, loc)
  PROVE  GivesUp \/ (Send(method, session, arg, next, loc) /\ Written(next, loc))
<1>1. m_ID' = m_ID + 1
      /\ UNCHANGED <<m_TargetID, m_SessionID, m_MessageQueue, m_Timeout, link, disk, wire, browserVars>>
  BY DEF NodeSend
<1>2. CASE Return("false") /\ UNCHANGED cmds
  BY <1>1, <1>2 DEF GivesUp, Return
<1>3. CASE /\ browser = "running" /\ pc' = next /\ local' = loc /\ UNCHANGED ret
           /\ cmds' = Append(cmds, [id |-> m_ID + 1, method |-> method, session |-> session, arg |-> arg])
  <2>1. link = "open"
    BY <1>3 DEF Inv, TypeOK, LinkInv
  <2> QED
    BY <1>1, <1>3, <2>1 DEF Send, Written
<1> QED
  BY <1>2, <1>3 DEF NodeSend

\* The reply a wait is for has the fields it needs: there are no answers of another browser.
LEMMA NodeAwaits ==
  ASSUME NodeInv, NEW place \in Waits, NodeAwait(place)
  PROVE  Await(place)
<1>1. pc = place /\ Take /\ Wanted(NextMessage)
  BY DEF NodeAwait
<1>2. NextMessage \in InFlight /\ NextMessage.browser = launches /\ MessageOK(NextMessage)
  BY <1>1, NodeParts, TakeProperties DEF Fresh, Inv, TrafficInv
<1>3. link = "open"
  BY <1>1, WaitPlaces, NodeParts DEF Inv, LinkInv
<1>4. CASE pc \in {"loadWait", "metricsWait", "closeWait"}
  BY <1>1, <1>4 DEF Await, HasResult
<1>5. CASE pc \notin {"loadWait", "metricsWait", "closeWait"}
  <2>1. pc \in DOMAIN Awaited /\ NextMessage.kind = "reply" /\ NextMessage.id = m_ID
    BY <1>1, <1>5 DEF Waits, Wanted
  <2> QED
    BY <1>1, <1>2, <1>3, <1>5, <2>1 DEF MessageOK, Await, HasResult, Awaited, DataMethods
<1> QED
  BY <1>4, <1>5

\* The calls of the manager.
LEMMA NodeCalls ==
  ASSUME NodeInv, NodeCallStep, UNCHANGED convertVars
  PROVE  CallStep \/ NodeStep
<1>0. Inv /\ Fresh
  BY NodeParts
<1>1. CASE NodeDiscards
  <2>1. NextMessage.kind # "tail"
    BY <1>0, <1>1, TakeProperties DEF NodeDiscards, Fresh
  <2> QED
    BY <1>1, <2>1 DEF NodeDiscards, WaitDiscards, CallStep
<1>2. CASE NodeFindsError
  BY <1>2 DEF NodeFindsError, membersKept, WaitFindsError, CallStep
<1>3. CASE NodeMeetsEnd
  <2>1. WaitMeetsEnd
    BY <1>3 DEF NodeMeetsEnd, membersKept, WaitMeetsEnd, browserVars
  <2> QED
    BY <2>1 DEF CallStep
<1>4. CASE NodeReadThrows
  <2>1. pc \notin Outside
    BY <1>4, WaitPlaces DEF NodeReadThrows, Waiting, Outside
  <2>2. GivesUp
    BY <1>4 DEF NodeReadThrows, GivesUp, Return, membersKept
  <2> QED
    BY <2>1, <2>2 DEF NodeGivesUp, NodeStep, convertVars
<1>5. CASE NodeGetsTarget \/ NodeGetsSession \/ NodeSeesLoad \/ NodeGetsLayout
  <2>1. {"createWait", "attachWait", "loadWait", "layoutWait"} \subseteq Waits
    BY DEF Waits, Awaited
  <2>2. NavegateGetsTarget \/ NavegateGetsSession \/ NavegateSeesLoad \/ ScreenshotGetsLayout
    BY <1>5, <2>1, NodeAwaits DEF NodeGetsTarget, NodeGetsSession, NodeSeesLoad, NodeGetsLayout, membersKept,
       NavegateGetsTarget, NavegateGetsSession, NavegateSeesLoad, ScreenshotGetsLayout
  <2> QED
    BY <2>2 DEF CallStep
<1>6. CASE NodeSaves
  <2>1. {"captureWait", "printWait"} \subseteq Waits
    BY DEF Waits, Awaited
  <2>2. CASE disk' = [disk EXCEPT ![local.path] = NextMessage.value] /\ Return("true")
    <3>1. DataArrives
      BY <1>6, <2>1, <2>2, NodeAwaits DEF NodeSaves, DataArrives, SaveFile
    <3> QED
      BY <3>1 DEF CallStep
  <2>3. CASE SaveFails(local.path) /\ Return("false")
    BY <1>6, <2>3 DEF NodeSaves, NodeSaveFails, NodeStep, convertVars
  <2> QED
    BY <1>6, <2>2, <2>3 DEF NodeSaves
<1>7. CASE NodeAttaches \/ NodeEnables \/ NodeLoads \/ NodeCaptures \/ NodeSetsMetrics
  <2>1. pc \notin Outside
    BY <1>7 DEF NodeAttaches, NodeEnables, NodeLoads, NodeCaptures, NodeSetsMetrics, Outside
  <2>2. CASE GivesUp
    BY <2>1, <2>2 DEF NodeGivesUp, NodeStep, convertVars
  <2>3. CASE ~GivesUp
    <3>1. NavegateAttaches \/ NavegateEnables \/ NavegateLoads \/ ScreenshotCaptures \/ NodeCommand
      BY <1>0, <1>7, <2>3, NodeWrites
         DEF NodeAttaches, NodeEnables, NodeLoads, NodeCaptures, NodeSetsMetrics,
             NavegateAttaches, NavegateEnables, NavegateLoads, ScreenshotCaptures, NodeCommand
    <3> QED
      BY <3>1 DEF CallStep, NodeStep
  <2> QED
    BY <2>2, <2>3
<1> QED
  BY <1>1, <1>2, <1>3, <1>4, <1>5, <1>6, <1>7 DEF NodeCallStep

\* The steps of a conversion.
LEMMA NodeConversions ==
  ASSUME NodeInv, NodeConvertStep
  PROVE  ConvertStep \/ NodeStep
<1>0. Inv /\ ConvertTypeOK /\ StageInv
  BY NodeParts
<1>1. CASE NodeLaunches
  BY <1>1 DEF NodeStep
<1>2. CASE NodeSetsTimeout \/ NodeReturns
  BY <1>2 DEF NodeSetsTimeout, NodeReturns, ConvertSetsTimeout, ConvertReturns, ConvertStep
<1>3. CASE NodeLeaves
  <2>1. ConvertLeaves
    BY <1>3 DEF NodeLeaves, NewManager, ConvertLeaves, ExitManager
  <2> QED
    BY <2>1 DEF ConvertStep
<1>4. CASE NodeNavigates
  <2>1. /\ stage = "ready" /\ stage' = "navegate" /\ results' = results
        /\ NodeSend("Target.createTarget", None, None, "createWait", [NoLocal EXCEPT !.url = job.url])
    BY <1>4 DEF NodeNavigates, NodeNavigate
  <2> QED
    BY <1>0, <2>1, NodeWrites DEF NodeGivesUp, NodeCommand, NodeStep
<1>5. CASE NodeConverts
  <2>1. /\ stage = "navegate" /\ pc = "idle" /\ ret = "true" /\ stage' = "capture" /\ results' = results
        /\ job.kind = "image" \/ job.kind = "pdf"
    BY <1>0, <1>5, CurrentJob DEF NodeConverts, StageInv, Job
  <2>2. CASE job.kind = "image"
    <3>1. NodeSend("Page.getLayoutMetrics", m_SessionID, None, "layoutWait", [NoLocal EXCEPT !.path = job.path])
      BY <1>5, <2>2 DEF NodeConverts, NodeScreenshot
    <3> QED
      BY <1>0, <2>1, <2>2, <3>1, NodeWrites DEF NodeGivesUp, NodeCommand, NodeStep
  <2>3. CASE job.kind = "pdf"
    <3>1. NodeSend("Page.printToPDF", m_SessionID, None, "printWait", [NoLocal EXCEPT !.path = job.path])
      BY <1>5, <2>3 DEF NodeConverts, NodePrintToPDF
    <3> QED
      BY <1>0, <2>1, <2>3, <3>1, NodeWrites DEF NodeGivesUp, NodeCommand, NodeStep
  <2> QED
    BY <2>1, <2>2, <2>3
<1> QED
  BY <1>1, <1>2, <1>3, <1>4, <1>5 DEF NodeConvertStep

LEMMA NodeNextIs ==
  ASSUME NodeInv, NodeNext \/ UNCHANGED allVars
  PROVE  ConvertNext \/ NodeStep \/ UNCHANGED allVars
BY NodeConversions, NodeCalls DEF NodeNext, ConvertNext

-----------------------------------------------------------------------------
(* What they leave as it is. *)

\* Nothing is on its way when a conversion begins.
LEMMA NothingInFlight ==
  ASSUME NodeInv, stage = "new"
  PROVE  /\ m_MessageQueue = <<>> /\ wire = <<>> /\ cmds = <<>> /\ pending = {} /\ InFlight = {}
         /\ link = "unset" /\ browser = "none" /\ pc = "idle" /\ m_ID = 0
<1>1. /\ m_MessageQueue = <<>> /\ cmds = <<>> /\ pending = {} /\ link = "unset" /\ pc = "idle" /\ m_ID = 0
  BY NodeParts DEF StageInv
<1>2. wire = <<>> /\ browser = "none"
  BY <1>1, NodeParts DEF Inv, LinkInv
<1> QED
  BY <1>1, <1>2 DEF InFlight

LEMMA LaunchesKeeps ==
  ASSUME NodeInv, NodeLaunches
  PROVE  Inv' /\ SessionInv' /\ InFlight' = {}
<1>0. Inv /\ SessionInv /\ stage = "new"
  BY NodeParts DEF NodeLaunches
<1>1. /\ launches' = launches + 1
      /\ UNCHANGED <<pc, local, m_ID, m_TargetID, m_SessionID, m_MessageQueue, m_Timeout, disk,
                     cmds, wire, page, attached, enabled, pending>>
      /\ ret' \in {"true", "false", "threw"} /\ link' \in {"unset", "open"}
      /\ browser' \in {"none", "running", "dead", "deadMidMessage"}
      /\ link' = "unset" => browser' = "none"
  BY <1>0, NothingInFlight DEF NodeLaunches
<1>2. /\ m_MessageQueue' = <<>> /\ wire' = <<>> /\ cmds' = <<>> /\ pending' = {} /\ pc' = "idle"
      /\ InFlight' = {}
  BY <1>0, <1>1, NothingInFlight DEF InFlight
<1>3. Elements(cmds') = {} /\ Elements(wire') = {} /\ Elements(m_MessageQueue') = {}
  BY <1>2 DEF Elements
<1>4. TypeOK' /\ LinkInv'
  BY <1>0, <1>1, <1>2 DEF Inv, TypeOK, LinkInv
<1>5. TrafficInv'
  BY <1>2, <1>3 DEF TrafficInv, Elements
<1>6. AnswersInv'
  BY <1>2, <1>3 DEF AnswersInv, OneBrowser, AnsweredOnce, TabsOfAnswers, AttachFollows, OnceIn, Apart, Elements
<1>7. NavegateInv'
  BY <1>2 DEF NavegateInv
<1>8. SessionOfTarget'
  BY <1>0, <1>1, MembersKeep DEF SessionInv, AttachedGoOn
<1> QED
  BY <1>2, <1>4, <1>5, <1>6, <1>7, <1>8 DEF Inv, SessionInv

LEMMA GivingUpKeeps ==
  ASSUME Inv, SessionInv, GivesUp
  PROVE  Inv' /\ SessionInv' /\ InFlight' = InFlight
<1>1. /\ pc' = "idle" /\ m_ID \in Nat /\ m_ID' \in Nat /\ m_ID <= m_ID'
      /\ UNCHANGED <<m_TargetID, m_SessionID, m_MessageQueue, m_Timeout, link, disk, cmds, wire, browserVars>>
  BY DEF GivesUp, Inv, TypeOK
<1>2. InFlight' = InFlight
  BY <1>1 DEF InFlight, browserVars
<1>3. NoLocal \in LocalType /\ pc' \notin DOMAIN Awaited
  BY <1>1, LocalTypes, WaitPlaces
<1>4. TypeOK'
  BY <1>1, <1>3 DEF GivesUp, Inv, TypeOK, LocalType, Places, browserVars
<1>5. LinkInv'
  BY <1>1 DEF Inv, LinkInv, browserVars
<1>6. /\ \A m \in InFlight : m \in Message /\ MessageOK(m) /\ m.id \in Nat
      /\ \A c \in Elements(cmds) : CommandOK(c) /\ c.id \in Nat
  BY TrafficTypes
<1>7. ASSUME NEW c \in Elements(cmds) PROVE CommandOK(c)'
  BY <1>1, <1>3, <1>6 DEF CommandOK
<1>8. ASSUME NEW m \in InFlight PROVE MessageOK(m)'
  BY <1>1, <1>3, <1>6 DEF MessageOK, browserVars
<1>9. TrafficInv'
  BY <1>1, <1>2, <1>7, <1>8 DEF TrafficInv, Elements
<1>10. SessionInv'
  BY <1>1, SendFails
<1> QED
  BY <1>2, <1>4, <1>5, <1>9, <1>10 DEF Inv

LEMMA SaveFailingKeeps ==
  ASSUME NodeInv, NodeSaveFails
  PROVE  Inv' /\ SessionInv' /\ InFlight' \subseteq InFlight
<1>0. Inv /\ SessionInv
  BY NodeParts
<1>1. /\ Take /\ pc \in {"captureWait", "printWait"} /\ pc' = "idle" /\ ret' = "false" /\ local' = NoLocal
      /\ UNCHANGED <<m_ID, m_TargetID, m_SessionID, m_Timeout, link>>
      /\ disk' = disk \/ disk' = [disk EXCEPT ![local.path] = Part]
  BY DEF NodeSaveFails, NodeAwait, SaveFails, Return
<1>2. InFlight' \subseteq InFlight /\ attached' = attached
  BY <1>0, <1>1, TakeProperties DEF Take
<1>3. NoLocal \in LocalType /\ "idle" \notin DOMAIN Awaited /\ "idle" \in Places
  BY LocalTypes, WaitPlaces DEF Places
<1>4. Inv'
  <2>1. disk' \in [Path -> Rendering \cup {None, Part}]
    BY <1>0, <1>1 DEF Inv, TypeOK
  <2> QED
    BY <1>0, <1>1, <1>3, <2>1, ReadPreserves DEF LocalType, Inv, TypeOK
<1>5. AnswersInv'
  BY <1>0, <1>1, TakeKeeps DEF SessionInv
<1>6. NavegateInv'
  BY <1>1, NothingRemembered DEF WithSession
<1>7. SessionOfTarget'
  BY <1>0, <1>1, <1>2, MembersKeep DEF SessionInv, AttachedGoOn
<1> QED
  BY <1>2, <1>4, <1>5, <1>6, <1>7 DEF SessionInv

LEMMA CommandKeeps ==
  ASSUME NodeInv, NodeCommand
  PROVE  Inv' /\ SessionInv' /\ InFlight' = InFlight /\ launches' = launches
<1>0. Inv /\ SessionInv /\ ConvertTypeOK /\ StageInv
  BY NodeParts
<1>1. /\ local \in LocalType /\ local.sessionId \in Session \cup {None} /\ m_SessionID \in Session \cup {None}
  BY <1>0 DEF Inv, TypeOK, LocalType
<1>2. stage \in {"ready", "navegate"} => job.url \in Url /\ job.path \in Path
  BY <1>0, CurrentJob DEF StageInv
<1>3. CASE pc = "metrics" /\ Send("Emulation.setDeviceMetricsOverride", local.sessionId, None, "navigate", local)
  <2>1. /\ "Emulation.setDeviceMetricsOverride" \in Methods \ {"Target.attachToTarget", "Page.navigate"}
        /\ "navigate" \in Places \ {"idle", "killed", "blocked", "attach", "attachWait"} /\ "navigate" \notin DOMAIN Awaited
        /\ pc \in WithSession
    BY <1>3, WaitPlaces DEF Methods, DataMethods, Places, Waits, Awaited, WithSession
  <2>2. Inv'
    BY <1>0, <1>1, <1>3, <2>1, SendPreserves
  <2>3. SessionInv'
    BY <1>0, <1>1, <1>3, <2>1, SendsKeep
  <2> QED
    BY <1>3, <2>2, <2>3 DEF Send, InFlight, browserVars
<1>4. CASE stage = "ready" /\ Send("Target.createTarget", None, None, "createWait", [NoLocal EXCEPT !.url = job.url])
  <2>1. PICK loc : loc = [NoLocal EXCEPT !.url = job.url]
    OBVIOUS
  <2>2. /\ "Target.createTarget" \in Methods \ {"Target.attachToTarget", "Page.navigate"}
        /\ "createWait" \in Places \ {"idle", "killed", "blocked", "attach", "attachWait"}
        /\ Awaited["createWait"] = "Target.createTarget" /\ "createWait" \notin WithSession
    BY DEF Methods, DataMethods, Places, Waits, Awaited, WithSession
  <2>3. loc \in LocalType /\ Send("Target.createTarget", None, None, "createWait", loc)
    BY <1>2, <1>4, <2>1, LocalTypes
  <2>4. Inv'
    BY <1>0, <2>2, <2>3, SendPreserves
  <2>5. SessionInv'
    BY <1>0, <2>2, <2>3, SendsKeep
  <2> QED
    BY <2>3, <2>4, <2>5 DEF Send, InFlight, browserVars
<1>5. CASE /\ stage = "navegate"
           /\ Send("Page.getLayoutMetrics", m_SessionID, None, "layoutWait", [NoLocal EXCEPT !.path = job.path])
  <2>1. PICK loc : loc = [NoLocal EXCEPT !.path = job.path]
    OBVIOUS
  <2>2. /\ "Page.getLayoutMetrics" \in Methods \ {"Target.attachToTarget", "Page.navigate"}
        /\ "layoutWait" \in Places \ {"idle", "killed", "blocked", "attach", "attachWait"}
        /\ Awaited["layoutWait"] = "Page.getLayoutMetrics" /\ "layoutWait" \notin WithSession
    BY DEF Methods, DataMethods, Places, Waits, Awaited, WithSession
  <2>3. loc \in LocalType /\ Send("Page.getLayoutMetrics", m_SessionID, None, "layoutWait", loc)
    BY <1>2, <1>5, <2>1, LocalTypes
  <2>4. Inv'
    BY <1>0, <1>1, <2>2, <2>3, SendPreserves
  <2>5. SessionInv'
    BY <1>0, <1>1, <2>2, <2>3, SendsKeep
  <2> QED
    BY <2>3, <2>4, <2>5 DEF Send, InFlight, browserVars
<1>6. CASE /\ stage = "navegate"
           /\ Send("Page.printToPDF", m_SessionID, None, "printWait", [NoLocal EXCEPT !.path = job.path])
  <2>1. PICK loc : loc = [NoLocal EXCEPT !.path = job.path]
    OBVIOUS
  <2>2. /\ "Page.printToPDF" \in Methods \ {"Target.attachToTarget", "Page.navigate"}
        /\ "printWait" \in Places \ {"idle", "killed", "blocked", "attach", "attachWait"}
        /\ Awaited["printWait"] = "Page.printToPDF" /\ "printWait" \notin WithSession
    BY DEF Methods, DataMethods, Places, Waits, Awaited, WithSession
  <2>3. loc \in LocalType /\ Send("Page.printToPDF", m_SessionID, None, "printWait", loc)
    BY <1>2, <1>6, <2>1, LocalTypes
  <2>4. Inv'
    BY <1>0, <1>1, <2>2, <2>3, SendPreserves
  <2>5. SessionInv'
    BY <1>0, <1>1, <2>2, <2>3, SendsKeep
  <2> QED
    BY <2>3, <2>4, <2>5 DEF Send, InFlight, browserVars
<1> QED
  BY <1>3, <1>4, <1>5, <1>6 DEF NodeCommand

\* Where the conversion is after them.
LEMMA NodeStepStage ==
  ASSUME NodeInv, NodeStep
  PROVE  /\ StageInv' /\ results' = results
         /\ stage' \in {"launched", "navegate", "capture", "leave"}
<1> USE DEF Outside, NavegatePlaces, ImagePlaces
<1>0. Inv /\ ConvertTypeOK /\ StageInv
  BY NodeParts
<1>1. results' = results => job' = job /\ (Running' <=> Running)
  BY DEF job, Running
<1>2. CASE NodeLaunches
  <2>1. /\ stage = "new" /\ Running /\ stage' \in {"launched", "leave"} /\ results' = results
        /\ UNCHANGED <<pc, m_ID, m_MessageQueue, cmds, pending>>
    BY <1>2 DEF NodeLaunches
  <2> QED
    BY <1>0, <1>1, <2>1 DEF StageInv
<1>3. CASE NodeGivesUp
  <2>1. pc' = "idle" /\ results' = results /\ stage # "new"
    BY <1>0, <1>3 DEF NodeGivesUp, GivesUp, StageInv
  <2>2. stage' \in {"navegate", "capture"}
    BY <1>0, <1>3 DEF NodeGivesUp, StageInv, ConvertTypeOK
  <2> QED
    BY <1>0, <1>1, <2>1, <2>2 DEF StageInv
<1>4. CASE NodeSaveFails
  <2>1. pc \notin Outside /\ pc' = "idle" /\ results' = results /\ stage' = stage
    BY <1>4 DEF NodeSaveFails, NodeAwait, Return, convertVars
  <2>2. stage \in {"navegate", "capture"}
    BY <1>0, <2>1 DEF StageInv, ConvertTypeOK
  <2> QED
    BY <1>0, <1>1, <2>1, <2>2 DEF StageInv
<1>5. CASE NodeCommand
  <2>1. CASE pc = "metrics" /\ UNCHANGED convertVars /\ Written("navigate", local)
    <3>1. stage = "navegate" /\ stage' = stage /\ results' = results /\ pc' = "navigate" /\ local' = local
      BY <1>0, <2>1 DEF StageInv, ConvertTypeOK, convertVars, Written
    <3> QED
      BY <1>0, <1>1, <2>1, <3>1 DEF StageInv
  <2>2. CASE /\ stage = "ready" /\ stage' = "navegate" /\ results' = results
             /\ Written("createWait", [NoLocal EXCEPT !.url = job.url])
    <3>1. pc' = "createWait" /\ local'.url = job.url
      BY <2>2 DEF Written, NoLocal
    <3> QED
      BY <1>0, <1>1, <2>2, <3>1 DEF StageInv
  <2>3. CASE /\ stage = "navegate" /\ stage' = "capture" /\ results' = results /\ job.kind = "image"
             /\ Written("layoutWait", [NoLocal EXCEPT !.path = job.path])
    <3>1. pc' = "layoutWait" /\ local'.path = job.path
      BY <2>3 DEF Written, NoLocal
    <3> QED
      BY <1>0, <1>1, <2>3, <3>1 DEF StageInv
  <2>4. CASE /\ stage = "navegate" /\ stage' = "capture" /\ results' = results /\ job.kind = "pdf"
             /\ Written("printWait", [NoLocal EXCEPT !.path = job.path])
    <3>1. pc' = "printWait" /\ local'.path = job.path
      BY <2>4 DEF Written, NoLocal
    <3> QED
      BY <1>0, <1>1, <2>4, <3>1 DEF StageInv
  <2> QED
    BY <1>5, <2>1, <2>2, <2>3, <2>4 DEF NodeCommand
<1> QED
  BY <1>2, <1>3, <1>4, <1>5 DEF NodeStep

\* What the tabs show after them.
LEMMA NodeStepPages ==
  ASSUME NodeInv, NodeStep
  PROVE  PagesInv'
<1> USE DEF Outside, NavegatePlaces, ImagePlaces
<1>0. Inv /\ SessionInv /\ ConvertTypeOK /\ StageInv /\ PagesInv
  BY NodeParts
<1>1. CASE NodeLaunches
  <2>1. /\ stage = "new" /\ stage' \in {"launched", "leave"} /\ link = "unset"
        /\ UNCHANGED <<results, page, cmds, m_MessageQueue, wire, pending>>
    BY <1>1, NothingInFlight DEF NodeLaunches
  <2>2. InFlight' = InFlight /\ Elements(cmds') = Elements(cmds)
    BY <2>1 DEF InFlight
  <2>3. (Before' => Before) /\ ~Loading' /\ ~Capturing'
    BY <2>1 DEF Before, Loading, Capturing
  <2> QED
    BY <1>0, <2>1, <2>2, <2>3, PagesFrame
<1>2. CASE NodeGivesUp
  <2>1. /\ pc' = "idle" /\ ret' # "true" /\ stage' \in {"navegate", "capture"}
        /\ UNCHANGED <<results, link, page, cmds>>
    BY <1>0, <1>2, NodeStepStage DEF NodeStep, NodeGivesUp, GivesUp, StageInv, ConvertTypeOK, browserVars
  <2>2. InFlight' = InFlight /\ Elements(cmds') = Elements(cmds)
    BY <1>0, <1>2, <2>1, GivingUpKeeps DEF NodeGivesUp
  <2>3. ~Before' /\ ~Loading' /\ ~Capturing'
    BY <2>1 DEF Before, Loading, Capturing
  <2> QED
    BY <1>0, <2>1, <2>2, <2>3, PagesFrame
<1>3. CASE NodeSaveFails
  <2>1. /\ Take /\ pc \in {"captureWait", "printWait"} /\ pc' = "idle" /\ ret' = "false"
        /\ UNCHANGED <<stage, results, link, page, cmds>>
    BY <1>3 DEF NodeSaveFails, NodeAwait, Return, convertVars, Take
  <2>2. InFlight' \subseteq InFlight /\ Elements(cmds') = Elements(cmds)
    BY <1>3, <2>1, SaveFailingKeeps
  <2>3. ~Before' /\ ~Loading' /\ ~Capturing'
    BY <1>0, <2>1 DEF Before, Loading, Capturing, StageInv
  <2> QED
    BY <1>0, <2>1, <2>2, <2>3, PagesFrame
<1>4. CASE NodeCommand
  <2>0. /\ local.sessionId \in Session \cup {None} /\ m_SessionID \in Session \cup {None}
    BY <1>0 DEF Inv, TypeOK
  <2>1. CASE /\ pc = "metrics" /\ UNCHANGED convertVars
             /\ Send("Emulation.setDeviceMetricsOverride", local.sessionId, None, "navigate", local)
    <3>1. stage = "navegate" /\ stage' = "navegate" /\ results' = results
      BY <1>0, <2>1 DEF StageInv, ConvertTypeOK, convertVars
    <3>2. Before /\ (pc' = "navigate" => ~Loading' /\ ~Capturing')
      BY <2>1, <3>1 DEF Before, Loading, Capturing
    <3>3. "Emulation.setDeviceMetricsOverride" \in Methods \ ({"Target.closeTarget", "Page.navigate"} \cup DataMethods)
      BY DEF Methods, DataMethods
    <3> QED
      BY <1>0, <2>0, <2>1, <3>1, <3>2, <3>3, PagesSends
  <2>2. CASE /\ stage = "ready" /\ stage' = "navegate" /\ results' = results
             /\ Send("Target.createTarget", None, None, "createWait", [NoLocal EXCEPT !.url = job.url])
    <3>1. PICK loc : loc = [NoLocal EXCEPT !.url = job.url]
      OBVIOUS
    <3>2. Before /\ (pc' = "createWait" => ~Loading' /\ ~Capturing')
      BY <2>2 DEF Before, Loading, Capturing
    <3>3. "Target.createTarget" \in Methods \ ({"Target.closeTarget", "Page.navigate"} \cup DataMethods)
      BY DEF Methods, DataMethods
    <3>4. Send("Target.createTarget", None, None, "createWait", loc)
      BY <2>2, <3>1
    <3> QED
      BY <1>0, <2>2, <3>2, <3>3, <3>4, PagesSends
  <2>3. CASE /\ stage = "navegate" /\ pc = "idle" /\ ret = "true" /\ stage' = "capture" /\ results' = results
             /\ \/ Send("Page.getLayoutMetrics", m_SessionID, None, "layoutWait", [NoLocal EXCEPT !.path = job.path])
                \/ Send("Page.printToPDF", m_SessionID, None, "printWait", [NoLocal EXCEPT !.path = job.path])
    <3>1. PICK loc : loc = [NoLocal EXCEPT !.path = job.path]
      OBVIOUS
    <3>2. Capturing /\ ~Before' /\ ~Loading'
      BY <2>3 DEF Before, Loading, Capturing
    <3>3. /\ "Page.getLayoutMetrics" \in Methods \ {"Target.closeTarget", "Page.navigate"}
          /\ "Page.printToPDF" \in Methods \ {"Target.closeTarget", "Page.navigate"}
      BY DEF Methods, DataMethods
    <3>4. \/ Send("Page.getLayoutMetrics", m_SessionID, None, "layoutWait", loc)
          \/ Send("Page.printToPDF", m_SessionID, None, "printWait", loc)
      BY <2>3, <3>1
    <3> QED
      BY <1>0, <2>0, <2>3, <3>2, <3>3, <3>4, PagesSends
  <2> QED
    BY <1>4, <2>1, <2>2, <2>3 DEF NodeCommand
<1> QED
  BY <1>1, <1>2, <1>3, <1>4 DEF NodeStep

\* New messages are the browser's, and it is the one launched last.
LEMMA FreshKeeps ==
  ASSUME NodeInv, NodeNext \/ UNCHANGED allVars
  PROVE  Fresh'
<1>0. Inv /\ ConvertTypeOK /\ StageInv /\ Fresh
  BY NodeParts
<1>1. SUFFICES ASSUME ~Fresh' PROVE FALSE
  OBVIOUS
<1>2. ~(InFlight' \subseteq InFlight /\ launches' = launches) /\ InFlight' # {}
  BY <1>0, <1>1 DEF Fresh
<1>3. ASSUME Take PROVE FALSE
  BY <1>0, <1>2, <1>3, TakeProperties DEF Take
<1>4. ASSUME UNCHANGED <<m_MessageQueue, wire, pending, launches>> PROVE FALSE
  BY <1>2, <1>4 DEF InFlight
<1>5. CASE NodeLaunches
  BY <1>2, <1>5, LaunchesKeeps
<1>6. CASE NodeLeaves
  <2>1. ConvertLeaves
    BY <1>6 DEF NodeLeaves, NewManager, ConvertLeaves, ExitManager
  <2> QED
    BY <1>0, <1>2, <2>1, NodeParts, LeavesKeeps
<1>7. ASSUME NEW method, NEW session, NEW arg, NEW next, NEW loc, NodeSend(method, session, arg, next, loc)
      PROVE  FALSE
  BY <1>4, <1>7 DEF NodeSend, browserVars
<1>8. CASE NodeSetsTimeout \/ NodeReturns
  BY <1>4, <1>8 DEF NodeSetsTimeout, SetTimeout, NodeReturns, vars, browserVars
<1>9. CASE NodeNavigates \/ NodeConverts
  BY <1>7, <1>9 DEF NodeNavigates, NodeNavigate, NodeConverts, NodeScreenshot, NodePrintToPDF
<1>10. CASE NodeCallStep
  <2>1. CASE NodeMeetsEnd \/ NodeReadThrows
    BY <1>4, <2>1 DEF NodeMeetsEnd, NodeReadThrows, browserVars
  <2>2. CASE NodeAttaches \/ NodeEnables \/ NodeSetsMetrics \/ NodeLoads \/ NodeCaptures
    BY <1>7, <2>2 DEF NodeAttaches, NodeEnables, NodeSetsMetrics, NodeLoads, NodeCaptures
  <2>3. CASE \/ NodeDiscards \/ NodeFindsError \/ NodeGetsTarget \/ NodeGetsSession \/ NodeSeesLoad
             \/ NodeGetsLayout \/ NodeSaves
    BY <1>3, <2>3 DEF NodeDiscards, NodeFindsError, NodeGetsTarget, NodeGetsSession, NodeSeesLoad,
       NodeGetsLayout, NodeSaves, NodeAwait
  <2> QED
    BY <1>10, <2>1, <2>2, <2>3 DEF NodeCallStep
<1>11. CASE BrowserExecutes
  <2>1. PICK kind, value : Answer(kind, value) /\ kind \in {"reply", "error"}
    BY <1>11 DEF BrowserExecutes, BrowserCreatesTarget, BrowserAttaches, BrowserEnables, BrowserNavigates,
       BrowserMeasures, BrowserCaptures, BrowserClosesTarget, BrowserRejects
  <2>2. /\ UNCHANGED <<m_MessageQueue, wire, launches>>
        /\ pending' = pending \cup {Msg(kind, Head(cmds).id, Head(cmds).method, value)}
    BY <2>1 DEF Answer
  <2>3. \A m \in InFlight' : m \in InFlight \/ (m.browser = launches /\ m.kind = kind)
    BY <2>2 DEF InFlight, Msg
  <2> QED
    BY <1>0, <1>1, <2>1, <2>2, <2>3 DEF Fresh
<1>12. ASSUME NEW m, BrowserSends(m), pending' \subseteq pending,
              m \in pending \/ (m.browser = launches /\ m.kind = "event" /\ m \in Message)
       PROVE  FALSE
  <2>1. wire' = Append(wire, m) /\ UNCHANGED <<m_MessageQueue, launches>> /\ wire \in Seq(Message) /\ m \in Message
    BY <1>0, <1>12 DEF BrowserSends, Inv, TypeOK
  <2>2. Elements(wire') = Elements(wire) \cup {m}
    BY <2>1, ElementsOfAppend
  <2>3. \A k \in InFlight' : k \in InFlight \/ k = m
    BY <1>12, <2>1, <2>2 DEF InFlight, Elements
  <2>4. m.browser = launches /\ m.kind # "tail"
    BY <1>0, <1>12 DEF Fresh, InFlight
  <2> QED
    BY <1>0, <1>1, <2>1, <2>3, <2>4 DEF Fresh
<1>13. CASE BrowserAnswers
  BY <1>12, <1>13 DEF BrowserAnswers
<1>14. CASE BrowserFiresLoad \/ BrowserFiresOther
  <2>1. \A t \in Target : Msg("event", 0, "Page.loadEventFired", t) \in Message
    BY <1>0 DEF Msg, Message, Events, Inv, TypeOK
  <2>2. Msg("event", 0, "other", None) \in Message
    BY <1>0 DEF Msg, Message, Events, Inv, TypeOK
  <2>3. \A method, value : LET m == Msg("event", 0, method, value) IN m.browser = launches /\ m.kind = "event"
    BY DEF Msg
  <2>4. pending' = pending
    BY <1>14 DEF BrowserFiresLoad, BrowserFiresOther
  <2>5. CASE BrowserFiresOther
    BY <1>12, <2>2, <2>3, <2>4, <2>5 DEF BrowserFiresOther
  <2>6. CASE BrowserFiresLoad
    BY <1>4, <1>12, <2>1, <2>3, <2>4, <2>6 DEF BrowserFiresLoad
  <2> QED
    BY <1>14, <2>5, <2>6
<1>15. CASE BrowserDies
  <2>1. /\ UNCHANGED <<m_MessageQueue, launches>> /\ pending' = {} /\ wire \in Seq(Message)
        /\ wire' = wire \/ (wire # <<>> /\ wire' = SubSeq(wire, 1, Len(wire) - 1))
    BY <1>0, <1>15 DEF BrowserDies, Inv, TypeOK
  <2>2. Elements(wire') \subseteq Elements(wire)
    <3>1. CASE wire # <<>> /\ wire' = SubSeq(wire, 1, Len(wire) - 1)
      <4>1. Len(wire) - 1 \in 0 .. Len(wire)
        BY <2>1, <3>1, LenProperties, EmptySeq
      <4> QED
        BY <2>1, <3>1, <4>1, ElementsOfSubSeq
    <3> QED
      BY <2>1, <3>1
  <2> QED
    BY <1>2, <2>1, <2>2 DEF InFlight, Elements
<1>16. CASE UNCHANGED allVars
  BY <1>4, <1>16 DEF allVars, vars, browserVars
<1> QED
  BY <1>5, <1>6, <1>8, <1>9, <1>10, <1>11, <1>13, <1>14, <1>15, <1>16
     DEF NodeNext, NodeConvertStep, BrowserStep, Idles

-----------------------------------------------------------------------------
(* The invariant holds. *)

LEMMA InitNode == ConvertInit => NodeInv
BY InitConvert DEF ConvertInit, Init, NodeInv, Fresh, InFlight

LEMMA NextNode == NodeInv /\ [NodeNext]_allVars => NodeInv'
<1> SUFFICES ASSUME NodeInv, NodeNext \/ UNCHANGED allVars PROVE NodeInv'
  OBVIOUS
<1>1. Fresh'
  BY FreshKeeps
<1>2. CASE ConvertNext \/ UNCHANGED allVars
  BY <1>1, <1>2, NextConvert DEF NodeInv
<1>3. CASE NodeStep
  <2>1. Inv' /\ SessionInv'
    BY <1>3, NodeParts, LaunchesKeeps, GivingUpKeeps, SaveFailingKeeps, CommandKeeps DEF NodeStep, NodeGivesUp
  <2>2. StageInv' /\ results' = results /\ stage' \in {"launched", "navegate", "capture", "leave"}
    BY <1>3, NodeStepStage
  <2>3. ConvertTypeOK'
    BY <2>1, <2>2, NodeParts DEF ConvertTypeOK, Inv
  <2>4. PagesInv'
    BY <1>3, NodeStepPages
  <2>5. OwnMessages'
    BY <1>1 DEF Fresh, InFlight, OwnMessages, Elements
  <2> QED
    BY <1>1, <2>1, <2>2, <2>3, <2>4, <2>5 DEF NodeInv, ConvertInv
<1> QED
  BY <1>2, <1>3, NodeNextIs

THEOREM NodeInvHolds == NodeSpec => []NodeInv
BY InitNode, NextNode, PTL DEF NodeSpec

(* With three commands under way at once too, the answer a wait takes is the answer to the
   command just written. *)
THEOREM NodeAnswersMatch == NodeSpec => []ReplyIsForCommand
<1>1. NodeInv => ReplyIsForCommand
  <2> SUFFICES ASSUME NodeInv, pc \in DOMAIN Awaited, NEW m \in InFlight,
                      m.kind = "reply" /\ m.id = m_ID /\ m.browser = launches
               PROVE  m.method = Awaited[pc]
    BY DEF ReplyIsForCommand
  <2>1. link = "open"
    BY WaitPlaces, NodeParts DEF Inv, LinkInv
  <2> QED
    BY <2>1, NodeParts DEF Inv, TrafficInv, MessageOK
<1> QED
  BY <1>1, NodeInvHolds, PTL

(* "finally" ends the browser, however the conversion fails: the next one begins without
   one and without anything left to read. *)
THEOREM NodeEndsBrowser == NodeSpec => []BrowserEnded
<1>1. NodeInv => BrowserEnded
  BY NothingInFlight DEF BrowserEnded
<1> QED
  BY <1>1, NodeInvHolds, PTL

\* Navegate returns true from the wait for the load event only.
LEMMA NodeNavigateReturns ==
  ASSUME NodeInv, NodeNext \/ UNCHANGED allVars, pc = "loadWait", pc' = "idle", ret' = "true"
  PROVE  Await("loadWait")
<1>1. ~NodeStep
  BY DEF NodeStep, NodeLaunches, NodeGivesUp, GivesUp, NodeSaveFails, Return, NodeCommand, Written
<1> QED
  BY <1>1, NodeNextIs, NavegateReturns DEF NodeInv

(* Neither the answers to the three commands sent before it nor the load event of another page
   end the wait for the page. *)
THEOREM NodeLoadsItsPage == NodeSpec => NavegateLoadsItsPage
<1>1. NodeInv /\ [NodeNext]_allVars =>
        [pc = "loadWait" /\ ret' = "true" /\ pc' = "idle"
           => page[local.targetId] = [url |-> local.url, state |-> "loaded"]]_vars
  BY NodeNavigateReturns, LoadIsOfItsPage DEF NodeInv, allVars
<1> QED
  BY <1>1, NodeInvHolds, PTL DEF NodeSpec, NavegateLoadsItsPage

-----------------------------------------------------------------------------
(* The conversions keep the promise of module Conversions. *)

LEMMA NodeStepFiles ==
  ASSUME NodeInv, NodeStep
  PROVE  /\ results' = results /\ ~Over /\ ~Finished'
         /\ \/ disk' = disk
            \/ Over' /\ ret' # "true" /\ Running /\ disk' = [disk EXCEPT ![job.path] = Part]
<1> USE DEF Over
<1>0. StageInv /\ ConvertTypeOK
  BY NodeParts
<1>1. results' = results
  BY NodeStepStage
<1>2. CASE NodeLaunches
  BY <1>1, <1>2 DEF NodeLaunches, Finished
<1>3. CASE NodeGivesUp
  BY <1>1, <1>3 DEF NodeGivesUp, GivesUp, Finished, Outside
<1>4. CASE NodeSaveFails
  <2>1. /\ pc \in {"captureWait", "printWait"} /\ pc' = "idle" /\ ret' = "false" /\ stage' = stage
        /\ disk' = disk \/ disk' = [disk EXCEPT ![local.path] = Part]
    BY <1>4 DEF NodeSaveFails, NodeAwait, SaveFails, Return, convertVars
  <2>2. stage = "capture" /\ local.path = job.path /\ Running
    BY <1>0, <2>1 DEF StageInv, ConvertTypeOK, Outside, NavegatePlaces
  <2> QED
    BY <1>1, <2>1, <2>2 DEF Finished
<1>5. CASE NodeCommand
  <2>1. disk' = disk /\ pc' # "idle"
    BY <1>5, SendMoves DEF NodeCommand, Written
  <2> QED
    BY <1>1, <1>5, <2>1 DEF NodeCommand, Finished
<1> QED
  BY <1>2, <1>3, <1>4, <1>5 DEF NodeStep

\* The file is written before its conversion returns true.
LEMMA SavesFile ==
  ASSUME NodeInv, NodeNext \/ UNCHANGED allVars, Saves
  PROVE  Whole(job.path)'
<1>0. Inv /\ SessionInv /\ ConvertTypeOK /\ StageInv
  BY NodeParts
<1>1. PICK place \in {"captureWait", "printWait"} : Await(place)
  BY DEF Saves, DataArrives
<1>2. /\ pc = place /\ pc' = "idle" /\ ret' = "true" /\ stage' = stage
      /\ stage = "capture" /\ Running /\ job \in Job
  BY <1>1, WhatIsSaved DEF Saves, Await, convertVars, NodeInv
<1>3. NextMessage.value \in Rendering
  BY <1>0, <1>1, AwaitProperties DEF Waits, Awaited
<1>4. NodeSaves
  <2>1. ~NodeConvertStep
    BY <1>2 DEF NodeConvertStep, NodeLaunches, NodeSetsTimeout, NodeNavigates, NodeConverts, NodeReturns,
       NodeLeaves, NewManager
  <2>2. ~BrowserStep /\ ~UNCHANGED allVars
    BY <1>0, <1>2, BrowserMoves DEF clientVars, allVars, vars
  <2>3. NodeCallStep
    BY <2>1, <2>2 DEF NodeNext, Idles
  <2>4. ~(NodeDiscards \/ NodeFindsError \/ NodeMeetsEnd \/ NodeReadThrows)
    BY <1>2 DEF NodeDiscards, NodeFindsError, NodeMeetsEnd, NodeReadThrows, Return, clientVars
  <2>5. ~(NodeGetsTarget \/ NodeGetsSession \/ NodeSeesLoad \/ NodeGetsLayout \/ NodeAttaches \/ NodeEnables
          \/ NodeSetsMetrics \/ NodeLoads \/ NodeCaptures)
    BY <1>2 DEF NodeGetsTarget, NodeGetsSession, NodeSeesLoad, NodeGetsLayout, NodeAwait, NodeAttaches,
       NodeEnables, NodeSetsMetrics, NodeLoads, NodeCaptures
  <2> QED
    BY <2>3, <2>4, <2>5 DEF NodeCallStep
<1>5. disk' = [disk EXCEPT ![local.path] = NextMessage.value]
  BY <1>2, <1>4 DEF NodeSaves, Return
<1>6. /\ local.path = job.path /\ job.path \in Path /\ disk \in [Path -> Rendering \cup {None, Part}]
      /\ job' = job
  BY <1>0, <1>2 DEF StageInv, Outside, Job, Inv, TypeOK, Saves, convertVars, job
<1> QED
  BY <1>3, <1>5, <1>6, CaptureAssumption DEF Whole

LEMMA NodeDisk ==
  ASSUME PathsDiffer, NodeInv, DiskInv, Reported, NodeNext \/ UNCHANGED allVars
  PROVE  DiskInv' /\ Reported'
<1>0. ConvertInv /\ StageInv
  BY NodeParts DEF NodeInv
<1>1. CASE NodeStep
  <2>1. /\ results' = results /\ ~Over /\ ~Finished'
        /\ \/ disk' = disk
           \/ Over' /\ ret' # "true" /\ Running /\ disk' = [disk EXCEPT ![job.path] = Part]
    BY <1>1, NodeStepFiles
  <2>2. job' = job /\ (Running' <=> Running)
    BY <2>1 DEF job, Running
  <2>3. CASE disk' = disk
    <3>1. Running => disk[job.path] = None
      BY <2>1 DEF DiskInv
    <3> QED
      BY <2>1, <2>2, <2>3, <3>1 DEF DiskInv, Reported, Whole
  <2>4. CASE Over' /\ ret' # "true" /\ Running /\ disk' = [disk EXCEPT ![job.path] = Part]
    <3>1. /\ ConvertTypeOK /\ disk \in [Path -> Rendering \cup {None, Part}] /\ Len(results) \in Nat
          /\ job \in Job /\ job.path \in Path /\ Len(results) + 1 \in DOMAIN Jobs
      BY <1>0, <2>4, CurrentJob DEF ConvertInv, Inv, TypeOK
    <3>2. ASSUME NEW i \in DOMAIN Jobs, i > Len(results) + 1  PROVE disk'[Jobs[i].path] = None
      <4>1. i # Len(results) + 1 /\ disk[Jobs[i].path] = None /\ Jobs[i] \in Job
        BY <3>1, <3>2, JobsAssumption, ElementOfSeq, LenProperties DEF DiskInv
      <4>2. Jobs[i].path # job.path /\ Jobs[i].path \in Path
        BY <3>1, <4>1 DEF PathsDiffer, job, Job
      <4> QED
        BY <2>4, <3>1, <4>1, <4>2
    <3>3. ~Whole(job.path)'
      BY <2>2, <2>4, <3>1 DEF Whole
    <3> QED
      BY <2>1, <2>2, <2>4, <3>2, <3>3 DEF DiskInv, Reported
  <2> QED
    BY <2>1, <2>3, <2>4
<1>2. CASE ConvertNext \/ UNCHANGED allVars
  <2>1. DiskInv'
    BY <1>0, <1>2, NextDisk
  <2>2. CASE Saves
    <3>1. job' = job
      BY <2>2 DEF Saves, convertVars, job
    <3> QED
      BY <1>2, <2>1, <2>2, <3>1, SavesFile DEF Reported
  <2>3. CASE ConvertLeaves
    BY <2>1, <2>3 DEF ConvertLeaves, Reported, Finished, Over
  <2>4. CASE ~Saves /\ ~ConvertLeaves
    <3>1. (Finished' <=> Finished) /\ results' = results /\ disk' = disk
      BY <1>0, <1>2, <2>4, FinishedKeeps, OneSaves DEF Saves, ConvertInv
    <3> QED
      BY <2>1, <3>1 DEF Reported, job, Running, Whole
  <2> QED
    BY <2>2, <2>3, <2>4
<1> QED
  BY <1>1, <1>2, NodeNextIs

LEMMA NodePromiseStep ==
  ASSUME PathsDiffer, NodeInv, DiskInv, Reported, NodeNext \/ UNCHANGED allVars
  PROVE  Promise!Next \/ UNCHANGED Promise!conversionVars
<1>0. ConvertInv /\ StageInv /\ ConvertTypeOK
  BY NodeParts DEF NodeInv
<1>1. CASE NodeStep
  <2>1. /\ results' = results /\ ~Over
        /\ disk' = disk \/ (Running /\ disk' = [disk EXCEPT ![job.path] = Part])
    BY <1>1, NodeStepFiles
  <2>2. CASE disk' = disk
    BY <2>1, <2>2 DEF Promise!conversionVars
  <2>3. CASE Running /\ disk' = [disk EXCEPT ![job.path] = Part]
    <3>1. disk[job.path] = None
      BY <2>1, <2>3 DEF DiskInv
    <3>2. Promise!SaveInPart
      BY <1>0, <2>1, <2>3, <3>1, PromiseFiles DEF Promise!SaveInPart, Promise!Write, Promise!Untouched
    <3> QED
      BY <3>2 DEF Promise!Next
  <2> QED
    BY <2>1, <2>2, <2>3
<1>2. CASE ConvertNext \/ UNCHANGED allVars
  <2>1. CASE ConvertLeaves
    <3>1. /\ results' = Append(results, ret) /\ disk' = disk /\ stage = "leave" /\ pc = "idle" /\ Running
          /\ ret \in {"true", "false", "threw"}
      BY <1>0, <2>1 DEF ConvertLeaves, StageInv, ConvertInv, Inv, TypeOK
    <3>2. /\ Whole(job.path) <=> ret = "true"
          /\ Promise!Saved <=> Whole(job.path)
      BY <1>0, <3>1, PromiseFiles DEF DiskInv, Reported, Finished, Over, Promise!Saved, Whole
    <3>3. CASE ret = "true"
      BY <1>0, <3>1, <3>2, <3>3, PromiseFiles DEF Promise!Next, Promise!Succeed, Promise!Return
    <3>4. CASE ret # "true"
      BY <1>0, <3>1, <3>2, <3>4, PromiseFiles DEF Promise!Next, Promise!Fail, Promise!Return
    <3> QED
      BY <3>3, <3>4
  <2>2. CASE ~ConvertLeaves
    <3>1. results' = results
      BY <1>0, <1>2, <2>2, FinishedKeeps DEF Saves, convertVars
    <3>2. ~Promise!SucceedWithoutFile
      <4>1. results \in Seq({"true", "false", "threw"})
        BY <1>0 DEF ConvertTypeOK
      <4>2. Len(Append(results, "true")) = Len(results) + 1 /\ Len(results) \in Nat
        BY <4>1, AppendProperties, LenProperties
      <4> QED
        BY <3>1, <4>2 DEF Promise!SucceedWithoutFile, Promise!Return
    <3> QED
      BY <1>0, <1>2, <3>2, PromiseStep
  <2> QED
    BY <2>1, <2>2
<1> QED
  BY <1>1, <1>2, NodeNextIs

(* Conversions of different files are those of module Conversions to the letter: true if and
   only if the whole file is there, with the capture of the loaded page. *)
THEOREM NodePromiseKept ==
  ASSUME PathsDiffer
  PROVE  NodeSpec => NodeKeepsPromise
<1>1. ConvertInit => DiskInv /\ Reported /\ Promise!Init
  <2> SUFFICES ASSUME ConvertInit PROVE DiskInv /\ Reported /\ Promise!Init
    OBVIOUS
  <2>1. disk = [p \in Path |-> None] /\ results = <<>> /\ stage = "new"
    BY DEF ConvertInit, Init
  <2>2. \A i \in DOMAIN Jobs : Jobs[i].path \in Path
    <3>1. \A i \in DOMAIN Jobs : Jobs[i] \in Job
      BY JobsAssumption, ElementOfSeq, LenProperties
    <3> QED
      BY <3>1 DEF Job
  <2>3. Running => job.path \in Path
    BY InitConvert, CurrentJob DEF ConvertInv
  <2> QED
    BY <2>1, <2>2, <2>3 DEF DiskInv, Reported, Finished, Over, Whole, Promise!Init
<1>2. NodeInv /\ DiskInv /\ Reported /\ [NodeNext]_allVars => DiskInv' /\ Reported'
  BY NodeDisk
<1>3. NodeInv /\ DiskInv /\ Reported /\ [NodeNext]_allVars => [Promise!Next]_(Promise!conversionVars)
  BY NodePromiseStep
<1> QED
  BY <1>1, <1>2, <1>3, NodeInvHolds, PTL DEF NodeSpec, NodeKeepsPromise, Promise!Spec
=============================================================================
