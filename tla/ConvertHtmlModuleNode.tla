----------------------- MODULE ConvertHtmlModuleNode -----------------------
(***************************************************************************)
(* node/ConvertHtmlModule.js: the same conversions in JavaScript.  Waits   *)
(* have no time-out, three commands go out before the first answer is      *)
(* looked for, a write that finds the pipe full fails, errors are          *)
(* exceptions, and "finally" ends the browser.  Its pipes are in           *)
(* CDPPipeNode; the state, the browser and the promise are those of        *)
(* ConvertHtmlModule.                                                      *)
(***************************************************************************)
EXTENDS ConvertHtmlModule

-----------------------------------------------------------------------------
(* class CDPPipe as the manager sees it. *)

\* Mutant: all commands of a manager go out with one number.
NodeSendsSameId(method, session, arg, next, loc) ==
  /\ m_ID' = 1
  /\ \/ /\ browser = "running"
        /\ cmds' = Append(cmds, [id |-> 1, method |-> method, session |-> session, arg |-> arg])
        /\ pc' = next /\ local' = loc /\ UNCHANGED ret
     \/ /\ browser # "running" \/ "stall" \in Faults
        /\ Return("false") /\ UNCHANGED cmds
  /\ UNCHANGED <<m_TargetID, m_SessionID, m_MessageQueue, m_Timeout, link, disk, wire, browserVars>>

(* Write(JSON.stringify({ id: ++this.m_ID, ... })) and the early return.  A full pipe
   (EAGAIN) and a dead browser (EPIPE; node ignores the signal) make it false. *)
NodeSend(method, session, arg, next, loc) ==
  /\ m_ID' = m_ID + 1
  /\ \/ /\ browser = "running"
        /\ cmds' = Append(cmds, [id |-> m_ID + 1, method |-> method,
                                 session |-> session, arg |-> arg])
        /\ pc' = next /\ local' = loc /\ UNCHANGED ret
     \/ /\ browser # "running" \/ "stall" \in Faults
        /\ Return("false") /\ UNCHANGED cmds
  /\ UNCHANGED <<m_TargetID, m_SessionID, m_MessageQueue, m_Timeout, link, disk, wire, browserVars>>

membersKept == <<m_ID, m_TargetID, m_SessionID, m_Timeout, link, disk>>

-----------------------------------------------------------------------------
(* _WaitId(id) and _WaitMethod(method) *)

NodeDiscards ==
  /\ Waiting /\ Take
  /\ NextMessage.kind # "error" /\ ~Wanted(NextMessage)
  /\ UNCHANGED clientVars

\* Mutant: an error that answers another command is passed over.
NodePassesErrors ==
  /\ Waiting /\ Take
  /\ NextMessage.kind = "error"
  /\ IF NextMessage.id = m_ID /\ pc # "loadWait" THEN Return("false") ELSE UNCHANGED <<pc, ret, local>>
  /\ UNCHANGED membersKept

NodeFindsError ==
  /\ Waiting /\ Take
  /\ NextMessage.kind = "error"
  /\ Return("false")
  /\ UNCHANGED membersKept

\* Read returns null.
NodeMeetsEnd ==
  /\ Waiting /\ ~Readable /\ browser = "dead"
  /\ Return("false")
  /\ UNCHANGED <<membersKept, m_MessageQueue, cmds, wire, browserVars>>

(* The end of the pipe inside a message: JSON.parse throws in Read, or nothing is
   left and undefined.length throws in the wait, outside its try block. *)
NodeReadThrows ==
  /\ Waiting /\ m_MessageQueue = <<>> /\ browser = "deadMidMessage"
  /\ Return("threw")
  /\ UNCHANGED <<membersKept, m_MessageQueue, cmds, wire, browserVars>>

NodeAwait(place) == pc = place /\ Take /\ Wanted(NextMessage)

-----------------------------------------------------------------------------
(* Navigate(url, viewWidth, viewHeight) *)

NodeNavigate(u) ==
  pc = "idle" /\ NodeSend("Target.createTarget", None, None, "createWait", [NoLocal EXCEPT !.url = u])

NodeGetsTarget ==
  /\ NodeAwait("createWait")
  /\ local' = [local EXCEPT !.targetId = NextMessage.value] /\ pc' = "attach"
  /\ UNCHANGED <<ret, membersKept>>

NodeAttaches ==
  pc = "attach" /\ NodeSend("Target.attachToTarget", None, local.targetId, "attachWait", local)

NodeGetsSession ==
  /\ NodeAwait("attachWait")
  /\ local' = [local EXCEPT !.sessionId = NextMessage.value] /\ pc' = "enable"
  /\ UNCHANGED <<ret, membersKept>>

NodeEnables == pc = "enable" /\ NodeSend("Page.enable", local.sessionId, None, "metrics", local)

NodeSetsMetrics ==
  /\ pc = "metrics"
  /\ NodeSend("Emulation.setDeviceMetricsOverride", local.sessionId, None, "navigate", local)

NodeLoads ==
  pc = "navigate" /\ NodeSend("Page.navigate", local.sessionId, local.url, "loadWait", local)

NodeSeesLoad ==
  /\ NodeAwait("loadWait")
  /\ m_TargetID' = local.targetId /\ m_SessionID' = local.sessionId
  /\ Return("true")
  /\ UNCHANGED <<m_ID, m_Timeout, link, disk>>

(* Screenshot(resultFilePath, ...) and PrintToPDF(resultFilePath, ...) *)

NodeScreenshot(p) ==
  pc = "idle" /\ NodeSend("Page.getLayoutMetrics", m_SessionID, None, "layoutWait",
                          [NoLocal EXCEPT !.path = p])

NodeGetsLayout ==
  /\ NodeAwait("layoutWait") /\ pc' = "capture"
  /\ UNCHANGED <<ret, local, membersKept>>

NodeCaptures ==
  pc = "capture" /\ NodeSend("Page.captureScreenshot", m_SessionID, None, "captureWait", local)

NodePrintToPDF(p) ==
  pc = "idle" /\ NodeSend("Page.printToPDF", m_SessionID, None, "printWait",
                          [NoLocal EXCEPT !.path = p])

\* Mutant: the result of writeFileSync is not looked at.
NodeSavesUnnoticed ==
  /\ NodeAwait("captureWait") \/ NodeAwait("printWait")
  /\ SaveFile(local.path, NextMessage.value)
  /\ Return("true")
  /\ UNCHANGED <<m_ID, m_TargetID, m_SessionID, m_Timeout, link>>

\* _SaveFile reports whether the file was written; one that was not may be left in part.
NodeSaves ==
  /\ NodeAwait("captureWait") \/ NodeAwait("printWait")
  /\ \/ disk' = [disk EXCEPT ![local.path] = NextMessage.value] /\ Return("true")
     \/ SaveFails(local.path) /\ Return("false")
  /\ UNCHANGED <<m_ID, m_TargetID, m_SessionID, m_Timeout, link>>

-----------------------------------------------------------------------------
(* ConvertHtmlModule.HtmltoImage(...) and HtmlToPdf(...) *)

(* spawn() of a browser that cannot be executed returns pipes to nobody, and says
   so in an event that no synchronous program hears in time.  Without descriptors
   left it has no stdio, and reading its handles throws. *)
NodeLaunches ==
  /\ stage = "new" /\ Running /\ launches < MaxLaunches
  /\ \/ link' = "open" /\ browser' = "running" /\ ret' = "true"
     \/ "unconnected" \in Faults /\ link' = "open" /\ browser' = "dead" /\ ret' = "true"
     \/ "noLaunch" \in Faults /\ ret' = "threw" /\ UNCHANGED <<link, browser>>
  /\ launches' = launches + 1
  /\ stage' = IF ret' = "true" THEN "launched" ELSE "leave"
  /\ UNCHANGED <<pc, local, m_ID, m_TargetID, m_SessionID, m_MessageQueue, m_Timeout, disk,
                 cmds, wire, page, attached, enabled, pending, results>>

NodeSetsTimeout ==
  stage = "launched" /\ SetTimeout(TRUE) /\ stage' = "ready" /\ UNCHANGED results

NodeNavigates ==
  stage = "ready" /\ NodeNavigate(job.url) /\ stage' = "navegate" /\ UNCHANGED results

NodeConverts ==
  /\ stage = "navegate" /\ pc = "idle" /\ ret = "true"
  /\ IF job.kind = "image" THEN NodeScreenshot(job.path) ELSE NodePrintToPDF(job.path)
  /\ stage' = "capture" /\ UNCHANGED results

NodeReturns ==
  /\ pc = "idle"
  /\ stage = "capture" \/ (stage = "navegate" /\ ret # "true")
  /\ stage' = "leave" /\ UNCHANGED <<vars, results>>

NewManager ==
  /\ m_ID' = 0 /\ m_TargetID' = None /\ m_SessionID' = None /\ link' = "unset"
  /\ m_MessageQueue' = <<>> /\ m_Timeout' = FALSE
  /\ results' = Append(results, ret) /\ stage' = "new"
  /\ UNCHANGED <<pc, ret, local, disk>>

\* Mutant: Exit() is called after the conversion, not in a finally block.
LeavesOnReturn ==
  /\ stage = "leave" /\ pc = "idle"
  /\ IF ret # "threw" THEN BrowserGone ELSE UNCHANGED <<cmds, wire, browserVars>>
  /\ NewManager

(* finally: Exit() closes both pipes and tells the browser to end, if there is one.
   The next conversion makes a manager of its own. *)
NodeLeaves ==
  /\ stage = "leave" /\ pc = "idle"
  /\ IF link = "open" THEN BrowserGone ELSE UNCHANGED <<cmds, wire, browserVars>>
  /\ NewManager

-----------------------------------------------------------------------------

NodeConvertStep ==
  \/ NodeLaunches \/ NodeSetsTimeout \/ NodeNavigates \/ NodeConverts \/ NodeReturns \/ NodeLeaves

NodeCallStep ==
  \/ NodeDiscards \/ NodeFindsError \/ NodeMeetsEnd \/ NodeReadThrows
  \/ NodeGetsTarget \/ NodeAttaches \/ NodeGetsSession \/ NodeEnables \/ NodeSetsMetrics
  \/ NodeLoads \/ NodeSeesLoad
  \/ NodeGetsLayout \/ NodeCaptures \/ NodeSaves

NodeNext ==
  \/ NodeConvertStep
  \/ NodeCallStep /\ UNCHANGED convertVars
  \/ BrowserStep /\ UNCHANGED convertVars
  \/ Idles

(* The program runs, and so does the browser, until it dies: no time-out helps
   against one that stays silent. *)
NodeSpec ==
  /\ ConvertInit /\ [][NodeNext]_allVars
  /\ WF_allVars(NodeConvertStep \/ (NodeCallStep /\ UNCHANGED convertVars))
  /\ WF_allVars(BrowserExecutes /\ UNCHANGED convertVars)
  /\ WF_allVars(BrowserAnswers /\ UNCHANGED convertVars)
  /\ WF_allVars(BrowserFiresLoad /\ UNCHANGED convertVars)

-----------------------------------------------------------------------------
(* Properties. *)

(* The conversions keep the promise of module Conversions to the letter: true if and only
   if the whole file is there, also when the disk, the pipe or the browser fails, and
   whatever the answers to the three commands nobody waited for do to later waits. *)
NodeKeepsPromise == Promise!Spec

(* With a browser that works on or dies both conversions end, also after
   exceptions: the load event is waited for after the answers to Page.enable, the metrics
   and Page.navigate, which may all come late, and an error among them ends it. *)
NodeTerminates == <>Ended
=============================================================================
