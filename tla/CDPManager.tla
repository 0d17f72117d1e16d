----------------------------- MODULE CDPManager -----------------------------
(***************************************************************************)
(* class CDPManager of ConvertHtmlModule.cpp: a single-threaded client of  *)
(* the Chrome DevTools Protocol.  It writes numbered commands to a         *)
(* browser, reads the browser's messages one at a time and throws away     *)
(* every message it is not waiting for.                                    *)
(*                                                                         *)
(* The pipe (CDPPipe) appears here as the manager sees it: a FIFO of whole *)
(* messages, the first part of which the pipe has already pulled into      *)
(* m_MessageQueue and the rest of which is still in the kernel (wire).     *)
(* The browser is external: it executes commands in the order they were    *)
(* written, answers them in any order, and emits events when it likes.     *)
(*                                                                         *)
(* One action is one step of the client between two calls of the pipe, so  *)
(* every interleaving of client and browser is a behaviour.                *)
(***************************************************************************)
EXTENDS Integers, Sequences, FiniteSets

CONSTANTS
  Url,          \* addresses a caller may ask for
  Path,         \* result files
  Target,       \* tab identifiers the browser can hand out
  Session,      \* session identifiers the browser can hand out
  None,         \* the empty string, no file, no value
  Part,         \* a file that holds a part of its data only
  Faults,       \* the failures of this instance, a subset of FaultKinds
  MaxId,        \* bound: no call starts once m_ID has reached MaxId
  MaxLaunches,  \* bound: number of browsers started
  MaxEvents     \* bound: events other than load events that are not read yet

FaultKinds ==
  {"noLaunch",    \* Launch returns false
   "unconnected", \* Launch returns true without having set m_PID and the fds
   "error",       \* the browser rejects a valid command
   "slow",        \* the browser lets a read time out
   "torn",        \* a read times out, or the browser dies, inside a message
   "stall",       \* the browser does not read: the pipe to it has no room, or too little
   "crash",       \* the browser dies
   "disk"}        \* the result file cannot be opened, or not be written to its end

ASSUME NoneAssumption == None \notin Url \cup Path \cup Target \cup Session
ASSUME BoundAssumption == MaxId \in Nat /\ MaxLaunches \in Nat /\ MaxEvents \in Nat
ASSUME FaultAssumption == Faults \subseteq FaultKinds

VARIABLES
  pc,             \* where the client is inside a public call, "idle" outside
  ret,            \* outcome of the last public call
  local,          \* arguments and local variables of the call in progress
  m_ID, m_TargetID, m_SessionID,      \* members of CDPManager
  m_MessageQueue, m_Timeout, link,    \* members of CDPPipe_Linux
  disk,           \* the result files
  cmds,           \* commands written and not yet executed
  wire,           \* messages in the browser's pipe, not yet read
  browser,        \* the process behind the pipes
  launches,       \* number of browsers launched so far
  page,           \* what each tab shows
  attached,       \* the tab each session is attached to
  enabled,        \* sessions with Page events enabled
  pending         \* answers the browser has not sent yet

clientVars  == <<pc, ret, local, m_ID, m_TargetID, m_SessionID, m_Timeout, link, disk>>
browserVars == <<browser, launches, page, attached, enabled, pending>>
vars == <<clientVars, m_MessageQueue, cmds, wire, browserVars>>

-----------------------------------------------------------------------------
(* Commands, messages, pages. *)

DataMethods == {"Page.captureScreenshot", "Page.printToPDF"}
Methods == {"Target.createTarget", "Target.attachToTarget", "Target.closeTarget",
            "Page.enable", "Emulation.setDeviceMetricsOverride", "Page.navigate",
            "Page.getLayoutMetrics"} \cup DataMethods
Events == {"Page.loadEventFired", "other"}

\* "free" has never been created; "closed" will never exist again.
Page == [url : Url \cup {None}, state : {"free", "blank", "loading", "loaded", "closed"}]

\* What the "data" of a capture shows: the page as it was when it was taken.
Rendering == [page : Page, method : DataMethods]

\* A result file that was written can be told from one that was not, or not wholly.
ASSUME CaptureAssumption == None \notin Rendering /\ Part \notin Rendering /\ Part # None

Command == [id : Nat, method : Methods, session : Session \cup {None},
            arg : Url \cup Target \cup {None}]

\* The "method" of a reply stands for the fields its "result" has; "browser"
\* is the number of the launch that produced the message.
Message == [kind : {"reply", "error", "event", "tail"}, id : Nat,
            method : Methods \cup Events \cup {None},
            value : Target \cup Session \cup Rendering \cup {None}, browser : Nat]

NoLocal == [url |-> None, path |-> None, targetId |-> None, sessionId |-> None]

\* The method whose answer _Wait(m_ID) is waiting for.
Awaited ==
  [createWait |-> "Target.createTarget", attachWait |-> "Target.attachToTarget",
   metricsWait |-> "Emulation.setDeviceMetricsOverride", layoutWait |-> "Page.getLayoutMetrics",
   captureWait |-> "Page.captureScreenshot", printWait |-> "Page.printToPDF",
   closeWait |-> "Target.closeTarget"]
Waits == DOMAIN Awaited \cup {"loadWait"}
Places == {"idle", "killed", "blocked", "attach", "enable", "metrics", "navigate", "capture"} \cup Waits

TypeOK ==
  /\ pc \in Places
  /\ ret \in {"true", "false", "threw"}
  /\ local \in [url : Url \cup {None}, path : Path \cup {None},
                targetId : Target \cup {None}, sessionId : Session \cup {None}]
  /\ m_ID \in Nat /\ m_TargetID \in Target \cup {None} /\ m_SessionID \in Session \cup {None}
  /\ m_MessageQueue \in Seq(Message)
  /\ m_Timeout \in BOOLEAN         \* TRUE: set; FALSE: nullptr, wait for ever
  /\ link \in {"unset", "open"}    \* "unset": m_PID = m_WriteFD = m_ReadFD = -1
  /\ disk \in [Path -> Rendering \cup {None, Part}]
  /\ cmds \in Seq(Command) /\ wire \in Seq(Message)
  /\ browser \in {"none", "running", "dead", "deadMidMessage"}
  /\ launches \in Nat
  /\ page \in [Target -> Page]
  /\ attached \in [Session -> Target \cup {None}]
  /\ enabled \subseteq Session
  /\ pending \subseteq Message

Init ==
  /\ pc = "idle" /\ ret = "true" /\ local = NoLocal
  /\ m_ID = 0 /\ m_TargetID = None /\ m_SessionID = None
  /\ m_MessageQueue = <<>> /\ m_Timeout = FALSE /\ link = "unset"
  /\ disk = [p \in Path |-> None]
  /\ cmds = <<>> /\ wire = <<>>
  /\ browser = "none" /\ launches = 0
  /\ page = [t \in Target |-> [url |-> None, state |-> "free"]]
  /\ attached = [s \in Session |-> None]
  /\ enabled = {} /\ pending = {}

-----------------------------------------------------------------------------
(* The pipe as the manager uses it. *)

Return(outcome) == pc' = "idle" /\ ret' = outcome /\ local' = NoLocal

\* Mutant: the command goes out without a number of its own.
SendSameId(method, session, arg, next, loc) ==
  /\ link = "open" /\ browser = "running"
  /\ cmds' = Append(cmds, [id |-> m_ID, method |-> method, session |-> session, arg |-> arg])
  /\ pc' = next /\ local' = loc
  /\ UNCHANGED <<ret, m_ID, m_TargetID, m_SessionID, m_MessageQueue, m_Timeout, link, disk,
                 wire, browserVars>>

(* m_Pipe->Write(...) of the next command, and the early return that follows
   it.  With a full pipe, or no pipe at all, select() times out, or hangs when no
   time-out is set; FD_SET of the descriptor -1 is undefined and may as well end
   the process.  A pipe with too little room for the command passes select(), and
   write() blocks in the middle of it, whatever the time-out.  (A write() that
   goes on when the browser reads again is one that happens later.)  A write to a pipe
   nobody reads any more kills the process (SIGPIPE has its default action). *)
Send(method, session, arg, next, loc) ==
  /\ m_ID' = m_ID + 1
  /\ \/ /\ link = "open" /\ browser = "running"
        /\ cmds' = Append(cmds, [id |-> m_ID + 1, method |-> method,
                                 session |-> session, arg |-> arg])
        /\ pc' = next /\ local' = loc /\ UNCHANGED ret
     \/ /\ m_Timeout
        /\ link = "unset" \/ (browser = "running" /\ "stall" \in Faults)
        /\ Return("false") /\ UNCHANGED cmds
     \/ /\ \/ link = "unset" /\ ~m_Timeout
           \/ browser = "running" /\ "stall" \in Faults
        /\ pc' = "blocked" /\ UNCHANGED <<cmds, ret, local>>
     \/ /\ link = "unset" \/ browser \in {"dead", "deadMidMessage"}
        /\ pc' = "killed" /\ UNCHANGED <<cmds, ret, local>>
  /\ UNCHANGED <<m_TargetID, m_SessionID, m_MessageQueue, m_Timeout, link, disk, wire, browserVars>>

(* The browser dies without having read the command that blocks: SIGPIPE. *)
BlockedWriteBreaks ==
  /\ pc = "blocked" /\ browser \in {"dead", "deadMidMessage"}
  /\ pc' = "killed"
  /\ UNCHANGED <<ret, local, m_ID, m_TargetID, m_SessionID, m_Timeout, link, disk,
                 m_MessageQueue, cmds, wire, browserVars>>

Readable == m_MessageQueue # <<>> \/ wire # <<>>
NextMessage == IF m_MessageQueue # <<>> THEN Head(m_MessageQueue) ELSE Head(wire)

(* m_Pipe->Read(message) that succeeds: the queue first, otherwise a read of
   the pipe that splits n messages, returns the first and queues the others.
   A read that also meets the cut-off end of a dead browser's output drops it. *)
Take ==
  /\ Readable
  /\ \/ /\ m_MessageQueue # <<>>
        /\ m_MessageQueue' = Tail(m_MessageQueue)
        /\ UNCHANGED <<wire, browser>>
     \/ /\ m_MessageQueue = <<>>
        /\ \E n \in 1 .. Len(wire) :
             /\ m_MessageQueue' = SubSeq(wire, 2, n)
             /\ wire' = SubSeq(wire, n + 1, Len(wire))
             /\ \/ UNCHANGED browser
                \/ browser = "deadMidMessage" /\ n = Len(wire) /\ browser' = "dead"
  /\ UNCHANGED <<cmds, launches, page, attached, enabled, pending>>

TailOfMessage == [kind |-> "tail", id |-> 0, method |-> None, value |-> None, browser |-> launches]

(* m_Pipe->Read(message) that times out and returns false.  A time-out inside
   a message throws away every complete message this read has gathered and the
   beginning of that one, whose tail is read later. *)
ReadTimesOut ==
  /\ m_MessageQueue = <<>> /\ browser = "running"
  /\ m_Timeout /\ "slow" \in Faults
  /\ \/ wire = <<>> /\ UNCHANGED wire
     \/ wire # <<>> /\ "torn" \in Faults /\ wire' = <<TailOfMessage>>
  /\ UNCHANGED <<m_MessageQueue, cmds, browserVars>>

-----------------------------------------------------------------------------
(* CDPManager::_Wait(int) and CDPManager::_Wait(const std::string&) *)

\* Mutant: any event ends the wait for the load event.
WantedAnyEvent(m) ==
  IF pc = "loadWait" THEN m.kind = "event" ELSE m.kind = "reply" /\ m.id = m_ID

\* Mutant: the answer to Page.navigate ends the wait for the load event.
WantedReply(m) == m.kind = "reply" /\ m.id = m_ID

Wanted(m) ==
  IF pc = "loadWait" THEN m.kind = "event" /\ m.method = "Page.loadEventFired"
                     ELSE m.kind = "reply" /\ m.id = m_ID

\* The reply has the field the caller extracts from its result; "data" is in both kinds
\* of captures.
HasResult(m) ==
  CASE pc \in {"createWait", "attachWait", "layoutWait"} -> m.method = Awaited[pc]
    [] pc \in {"captureWait", "printWait"}              -> m.method \in DataMethods
    [] OTHER                                            -> TRUE

Waiting == pc \in Waits

(* A message that is neither an error nor the one waited for is dropped. *)
WaitDiscards ==
  /\ Waiting /\ Take
  /\ NextMessage.kind \notin {"error", "tail"} /\ ~Wanted(NextMessage)
  /\ UNCHANGED clientVars

(* Any message with an "error" ends the wait, whatever command it answers. *)
WaitFindsError ==
  /\ Waiting /\ Take
  /\ NextMessage.kind = "error"
  /\ Return("false")
  /\ UNCHANGED <<m_ID, m_TargetID, m_SessionID, m_Timeout, link, disk>>

\* Mutant: a wait that times out reads again.
WaitRetries ==
  /\ Waiting /\ ReadTimesOut
  /\ UNCHANGED clientVars

WaitTimesOut ==
  /\ Waiting /\ ReadTimesOut
  /\ Return("false")
  /\ UNCHANGED <<m_ID, m_TargetID, m_SessionID, m_Timeout, link, disk>>

(* json::parse throws on the tail of a message, get<>() on a missing field. *)
WaitThrows ==
  /\ Waiting /\ Take
  /\ \/ NextMessage.kind = "tail"
     \/ Wanted(NextMessage) /\ ~HasResult(NextMessage)
  /\ Return("threw")
  /\ UNCHANGED <<m_ID, m_TargetID, m_SessionID, m_Timeout, link, disk>>

(* The browser is gone and everything it wrote has been read.  A clean end fails
   the assertion that something was read, or returns false in a build without
   assertions.  An end inside a message calls front() on the empty queue, which
   is undefined: it crashes or yields a string that does not parse. *)
WaitMeetsEnd ==
  /\ Waiting /\ ~Readable
  /\ browser \in {"dead", "deadMidMessage"} /\ browser' = "dead"
  /\ \/ pc' = "killed" /\ UNCHANGED <<ret, local>>
     \/ Return(IF browser = "dead" THEN "false" ELSE "threw")
  /\ UNCHANGED <<m_ID, m_TargetID, m_SessionID, m_Timeout, link, disk, m_MessageQueue, cmds, wire,
                 launches, page, attached, enabled, pending>>

(* The wait returns the message it was for. *)
Await(place) == pc = place /\ Take /\ Wanted(NextMessage) /\ HasResult(NextMessage)

-----------------------------------------------------------------------------
(* bool CDPManager::Navegate(url, viewportSize) *)

Navegate(u) ==
  /\ pc = "idle" /\ m_ID < MaxId
  /\ Send("Target.createTarget", None, None, "createWait", [NoLocal EXCEPT !.url = u])

\* Mutant: the member is set before the tab is known to work.
NavegateSetsTarget ==
  /\ Await("createWait")
  /\ local' = [local EXCEPT !.targetId = NextMessage.value]
  /\ m_TargetID' = NextMessage.value
  /\ pc' = "attach"
  /\ UNCHANGED <<ret, m_ID, m_SessionID, m_Timeout, link, disk>>

NavegateGetsTarget ==
  /\ Await("createWait")
  /\ local' = [local EXCEPT !.targetId = NextMessage.value]
  /\ pc' = "attach"
  /\ UNCHANGED <<ret, m_ID, m_TargetID, m_SessionID, m_Timeout, link, disk>>

NavegateAttaches ==
  pc = "attach" /\ Send("Target.attachToTarget", None, local.targetId, "attachWait", local)

\* Mutant: Page events are not enabled.
NavegateSkipsEnable ==
  /\ Await("attachWait")
  /\ local' = [local EXCEPT !.sessionId = NextMessage.value]
  /\ pc' = "metrics"
  /\ UNCHANGED <<ret, m_ID, m_TargetID, m_SessionID, m_Timeout, link, disk>>

NavegateGetsSession ==
  /\ Await("attachWait")
  /\ local' = [local EXCEPT !.sessionId = NextMessage.value]
  /\ pc' = "enable"
  /\ UNCHANGED <<ret, m_ID, m_TargetID, m_SessionID, m_Timeout, link, disk>>

\* The answer to Page.enable is not awaited.
NavegateEnables ==
  pc = "enable" /\ Send("Page.enable", local.sessionId, None, "metrics", local)

NavegateSetsMetrics ==
  pc = "metrics" /\ Send("Emulation.setDeviceMetricsOverride", local.sessionId, None, "metricsWait", local)

NavegateGetsMetrics ==
  /\ Await("metricsWait")
  /\ pc' = "navigate"
  /\ UNCHANGED <<ret, local, m_ID, m_TargetID, m_SessionID, m_Timeout, link, disk>>

\* The answer to Page.navigate is not awaited, the load event is.
NavegateLoads ==
  pc = "navigate" /\ Send("Page.navigate", local.sessionId, local.url, "loadWait", local)

\* Any tab's load event will do: the event's session is not looked at.
NavegateSeesLoad ==
  /\ Await("loadWait")
  /\ m_TargetID' = local.targetId /\ m_SessionID' = local.sessionId
  /\ Return("true")
  /\ UNCHANGED <<m_ID, m_Timeout, link, disk>>

(* bool CDPManager::CloseTab().  The members keep the closed tab's ids. *)

CloseTab ==
  /\ pc = "idle" /\ m_ID < MaxId
  /\ Send("Target.closeTarget", None, m_TargetID, "closeWait", NoLocal)

CloseTabReturns ==
  /\ Await("closeWait")
  /\ Return("true")
  /\ UNCHANGED <<m_ID, m_TargetID, m_SessionID, m_Timeout, link, disk>>

(* bool CDPManager::Screenshot(resultFilePath, ...) *)

Screenshot(p) ==
  /\ pc = "idle" /\ m_ID < MaxId
  /\ Send("Page.getLayoutMetrics", m_SessionID, None, "layoutWait", [NoLocal EXCEPT !.path = p])

\* Mutant: the file is created before the capture has arrived.
ScreenshotCreatesFile ==
  /\ Await("layoutWait")
  /\ pc' = "capture"
  /\ disk' = [disk EXCEPT ![local.path] =
                [page |-> page[m_TargetID], method |-> "Page.captureScreenshot"]]
  /\ UNCHANGED <<ret, local, m_ID, m_TargetID, m_SessionID, m_Timeout, link>>

ScreenshotGetsLayout ==
  /\ Await("layoutWait")
  /\ pc' = "capture"
  /\ UNCHANGED <<ret, local, m_ID, m_TargetID, m_SessionID, m_Timeout, link, disk>>

ScreenshotCaptures ==
  pc = "capture" /\ Send("Page.captureScreenshot", m_SessionID, None, "captureWait", local)

(* bool CDPManager::PrintToPDF(resultFilePath, margin, landscape) *)

PrintToPDF(p) ==
  /\ pc = "idle" /\ m_ID < MaxId
  /\ Send("Page.printToPDF", m_SessionID, None, "printWait", [NoLocal EXCEPT !.path = p])

\* What is left of a file that cannot be opened, or not be written to its end.
SaveFails(p) == "disk" \in Faults /\ (UNCHANGED disk \/ disk' = [disk EXCEPT ![p] = Part])

(* _SaveFile, void: whether the file could be opened and written goes unnoticed. *)
SaveFile(p, data) == disk' = [disk EXCEPT ![p] = data] \/ SaveFails(p)

(* The end of Screenshot and of PrintToPDF: the data is saved. *)
DataArrives ==
  /\ Await("captureWait") \/ Await("printWait")
  /\ SaveFile(local.path, NextMessage.value)
  /\ Return("true")
  /\ UNCHANGED <<m_ID, m_TargetID, m_SessionID, m_Timeout, link>>

-----------------------------------------------------------------------------
(* bool CDPManager::Launch(), void Exit(), void SetTimeout(milliseconds) *)

Launch ==
  /\ pc = "idle" /\ link = "unset" /\ launches < MaxLaunches
  /\ \/ link' = "open" /\ browser' = "running" /\ ret' = "true"
     \/ "noLaunch" \in Faults /\ ret' = "false" /\ UNCHANGED <<link, browser>>
     \/ "unconnected" \in Faults /\ ret' = "true" /\ UNCHANGED <<link, browser>>
  /\ launches' = launches + 1
  /\ UNCHANGED <<pc, local, m_ID, m_TargetID, m_SessionID, m_MessageQueue, m_Timeout, disk,
                 cmds, wire, page, attached, enabled, pending>>

\* What closing the pipes and SIGKILL do to the other side.
BrowserGone ==
  /\ cmds' = <<>> /\ wire' = <<>> /\ pending' = {}
  /\ page' = [t \in Target |-> IF page[t].state = "free" THEN page[t]
                               ELSE [page[t] EXCEPT !.state = "closed"]]
  /\ browser' = "none"
  /\ UNCHANGED <<launches, attached, enabled>>

\* Mutant: m_ID is reset to -1 like the members of the pipe.
ExitToMinusOne ==
  /\ m_ID' = -1 /\ m_TargetID' = None /\ m_SessionID' = None /\ link' = "unset"
  /\ IF link = "open" THEN BrowserGone ELSE UNCHANGED <<cmds, wire, browserVars>>

\* Without fds there is nothing to close.  m_MessageQueue is kept.
ExitManager ==
  /\ m_ID' = 0 /\ m_TargetID' = None /\ m_SessionID' = None /\ link' = "unset"
  /\ IF link = "open" THEN BrowserGone ELSE UNCHANGED <<cmds, wire, browserVars>>

Exit ==
  /\ pc = "idle"
  /\ ExitManager
  /\ UNCHANGED <<pc, ret, local, m_Timeout, m_MessageQueue, disk>>

SetTimeout(set) ==
  /\ pc = "idle" /\ set # m_Timeout
  /\ m_Timeout' = set
  /\ UNCHANGED <<pc, ret, local, m_ID, m_TargetID, m_SessionID, link, disk,
                 m_MessageQueue, cmds, wire, browserVars>>

-----------------------------------------------------------------------------
(* The browser, external: what the client relies on. *)

Msg(kind, id, method, value) ==
  [kind |-> kind, id |-> id, method |-> method, value |-> value, browser |-> launches]

Exists(t) == t \in Target /\ page[t].state \notin {"free", "closed"}
SessionExists(s) == s \in Session /\ Exists(attached[s])
Shown(s) == page[attached[s]]

\* The command at the head of the pipe is executed and its answer prepared.
Answer(kind, value) ==
  /\ pending' = pending \cup {Msg(kind, Head(cmds).id, Head(cmds).method, value)}
  /\ cmds' = Tail(cmds)
  /\ UNCHANGED <<clientVars, m_MessageQueue, wire, browser, launches>>

Executes(method) == browser = "running" /\ cmds # <<>> /\ Head(cmds).method = method

BrowserCreatesTarget ==
  /\ Executes("Target.createTarget")
  /\ \E t \in Target :
       /\ page[t].state = "free"
       /\ page' = [page EXCEPT ![t].state = "blank"]
       /\ Answer("reply", t)
  /\ UNCHANGED <<attached, enabled>>

BrowserAttaches ==
  /\ Executes("Target.attachToTarget") /\ Exists(Head(cmds).arg)
  /\ \E s \in Session :
       /\ attached[s] = None
       /\ attached' = [attached EXCEPT ![s] = Head(cmds).arg]
       /\ Answer("reply", s)
  /\ UNCHANGED <<page, enabled>>

BrowserEnables ==
  /\ Executes("Page.enable") /\ SessionExists(Head(cmds).session)
  /\ enabled' = enabled \cup {Head(cmds).session}
  /\ Answer("reply", None)
  /\ UNCHANGED <<page, attached>>

BrowserNavigates ==
  /\ Executes("Page.navigate") /\ SessionExists(Head(cmds).session)
  /\ page' = [page EXCEPT ![attached[Head(cmds).session]] =
                [url |-> Head(cmds).arg, state |-> "loading"]]
  /\ Answer("reply", None)
  /\ UNCHANGED <<attached, enabled>>

BrowserMeasures ==
  /\ \/ Executes("Emulation.setDeviceMetricsOverride")
     \/ Executes("Page.getLayoutMetrics")
  /\ SessionExists(Head(cmds).session)
  /\ Answer("reply", None)
  /\ UNCHANGED <<page, attached, enabled>>

BrowserCaptures ==
  /\ \E method \in DataMethods :
       /\ Executes(method) /\ SessionExists(Head(cmds).session)
       /\ Answer("reply", [page |-> Shown(Head(cmds).session), method |-> method])
  /\ UNCHANGED <<page, attached, enabled>>

BrowserClosesTarget ==
  /\ Executes("Target.closeTarget") /\ Exists(Head(cmds).arg)
  /\ page' = [page EXCEPT ![Head(cmds).arg].state = "closed"]
  /\ Answer("reply", None)
  /\ UNCHANGED <<attached, enabled>>

\* The target or session of the command does not exist.
Unknown(c) ==
  \/ c.method \in {"Target.attachToTarget", "Target.closeTarget"} /\ ~Exists(c.arg)
  \/ c.method \notin {"Target.createTarget", "Target.attachToTarget", "Target.closeTarget"}
     /\ ~SessionExists(c.session)

BrowserRejects ==
  /\ browser = "running" /\ cmds # <<>>
  /\ Unknown(Head(cmds)) \/ "error" \in Faults
  /\ Answer("error", None)
  /\ UNCHANGED <<page, attached, enabled>>

BrowserSends(m) ==
  /\ wire' = Append(wire, m)
  /\ UNCHANGED <<clientVars, m_MessageQueue, cmds, browser, launches, attached, enabled>>

\* Answers leave in any order.
BrowserAnswers ==
  /\ browser = "running"
  /\ \E m \in pending : pending' = pending \ {m} /\ BrowserSends(m)
  /\ UNCHANGED page

\* A page finishes loading; whoever enabled Page events hears of it.
BrowserFiresLoad ==
  /\ browser = "running"
  /\ \E t \in Target :
       /\ page[t].state = "loading"
       /\ page' = [page EXCEPT ![t].state = "loaded"]
       /\ IF \E s \in enabled : attached[s] = t
          THEN BrowserSends(Msg("event", 0, "Page.loadEventFired", t))
          ELSE UNCHANGED <<clientVars, m_MessageQueue, cmds, wire, browser, launches, attached, enabled>>
  /\ UNCHANGED pending

UnreadOthers == {i \in DOMAIN (m_MessageQueue \o wire) : (m_MessageQueue \o wire)[i].method = "other"}

\* Any other event, any number of times.
BrowserFiresOther ==
  /\ browser = "running" /\ Cardinality(UnreadOthers) < MaxEvents
  /\ BrowserSends(Msg("event", 0, "other", None))
  /\ UNCHANGED <<page, pending>>

\* What it has written stays readable, except for a message it was writing.
BrowserDies ==
  /\ "crash" \in Faults /\ browser = "running"
  /\ \/ browser' = "dead" /\ UNCHANGED wire
     \/ /\ "torn" \in Faults /\ wire # <<>> /\ browser' = "deadMidMessage"
        /\ wire' = SubSeq(wire, 1, Len(wire) - 1)
  /\ cmds' = <<>> /\ pending' = {}
  /\ UNCHANGED <<clientVars, m_MessageQueue, launches, page, attached, enabled>>

-----------------------------------------------------------------------------

\* Steps inside a public call.
CallStep ==
  \/ WaitDiscards \/ WaitFindsError \/ WaitTimesOut \/ WaitThrows \/ WaitMeetsEnd
  \/ NavegateGetsTarget \/ NavegateAttaches \/ NavegateGetsSession \/ NavegateEnables
  \/ NavegateSetsMetrics \/ NavegateGetsMetrics \/ NavegateLoads \/ NavegateSeesLoad
  \/ CloseTabReturns
  \/ ScreenshotGetsLayout \/ ScreenshotCaptures
  \/ DataArrives \/ BlockedWriteBreaks

\* The public calls, in any order a caller likes.
StartCall ==
  \/ Launch \/ Exit \/ CloseTab
  \/ \E set \in BOOLEAN : SetTimeout(set)
  \/ \E u \in Url : Navegate(u)
  \/ \E p \in Path : Screenshot(p) \/ PrintToPDF(p)

BrowserExecutes ==
  \/ BrowserCreatesTarget \/ BrowserAttaches \/ BrowserEnables \/ BrowserNavigates
  \/ BrowserMeasures \/ BrowserCaptures \/ BrowserClosesTarget \/ BrowserRejects

BrowserStep ==
  \/ BrowserExecutes \/ BrowserAnswers
  \/ BrowserFiresLoad \/ BrowserFiresOther \/ BrowserDies

Next == StartCall \/ CallStep \/ BrowserStep

Spec == Init /\ [][Next]_vars

-----------------------------------------------------------------------------
(* Properties of the manager under any order of public calls. *)

\* Everything the browser has said, or will, that the client has not consumed.
InFlight == {m_MessageQueue[i] : i \in DOMAIN m_MessageQueue}
              \cup {wire[i] : i \in DOMAIN wire} \cup pending

(* What _Wait(m_ID) would take for its answer is the answer to the command just
   written: answers come back in any order, those to Page.enable and
   Page.navigate are never waited for, calls are abandoned half-way, and a
   message of an earlier browser does not count. *)
ReplyIsForCommand ==
  pc \in DOMAIN Awaited =>
    \A m \in InFlight : m.kind = "reply" /\ m.id = m_ID /\ m.browser = launches
                         => m.method = Awaited[pc]

(* The members Navegate leaves behind name one tab: the session is attached to
   the target, also after calls that failed half-way, time-outs and a change of
   browser, so Screenshot and CloseTab act on the same tab. *)
SessionOfTarget ==
  (m_SessionID = None <=> m_TargetID = None)
    /\ (m_SessionID # None => attached[m_SessionID] = m_TargetID)

(* Navegate ("page load", "wait for the event Page.loadEventFired") returns true
   only when the page it was asked for has loaded. *)
NavegateLoadsItsPage ==
  [][pc = "loadWait" /\ ret' = "true" /\ pc' = "idle"
       => page[local.targetId] = [url |-> local.url, state |-> "loaded"]]_vars
=============================================================================
