-------------------------- MODULE ConvertHtmlModule --------------------------
(***************************************************************************)
(* ConvertHtmlModule::HtmlToImage and HtmlToPdf of ConvertHtmlModule.cpp,  *)
(* called one after the other by a program such as main.cpp.  Each builds  *)
(* its own CDPManager, launches a browser with it, loads the page, saves   *)
(* the capture and lets the destructor end the browser, whichever step the *)
(* conversion leaves at.  The program is one that catches exceptions; the  *)
(* main() of the repository does not, and ends at the first.               *)
(***************************************************************************)
EXTENDS CDPManager

CONSTANT Jobs     \* the conversions, in the order the program asks for them

\* An image, or a PDF with a margin that is a number or is not.
Job == [kind : {"image", "pdf"}, url : Url, path : Path, margin : {"number", "garbage"}]

ASSUME JobsAssumption == Jobs \in Seq(Job)

VARIABLES
  stage,     \* how far the current conversion is
  results    \* what the finished conversions returned

convertVars == <<stage, results>>
allVars == <<vars, convertVars>>

ConvertTypeOK ==
  /\ TypeOK
  /\ stage \in {"new", "launched", "ready", "navegate", "capture", "leave"}
  /\ results \in Seq({"true", "false", "threw"})
  /\ Len(results) <= Len(Jobs)

ConvertInit == Init /\ stage = "new" /\ results = <<>>

\* Mutant: one conversion too many.
RunningOnce == Len(results) <= Len(Jobs)

Running == Len(results) < Len(Jobs)
job == Jobs[Len(results) + 1]

-----------------------------------------------------------------------------

(* CDPManager cdpManager; if (!cdpManager.Launch()) return false; *)
ConvertLaunches ==
  /\ stage = "new" /\ Running
  /\ Launch
  /\ stage' = IF ret' = "true" THEN "launched" ELSE "leave"
  /\ UNCHANGED results

(* cdpManager.SetTimeout(5000); *)
ConvertSetsTimeout ==
  /\ stage = "launched"
  /\ SetTimeout(TRUE)
  /\ stage' = "ready"
  /\ UNCHANGED results

(* cdpManager.Navegate(htmlURL, ...) *)
ConvertNavegates ==
  /\ stage = "ready"
  /\ Navegate(job.url)
  /\ stage' = "navegate"
  /\ UNCHANGED results

(* Screenshot(...), or std::stod(margin) and PrintToPDF(...). *)
ConvertCaptures ==
  /\ stage = "navegate" /\ pc = "idle" /\ ret = "true"
  /\ IF job.kind = "image" THEN Screenshot(job.path)
                           ELSE job.margin = "number" /\ PrintToPDF(job.path)
  /\ stage' = "capture"
  /\ UNCHANGED results

ConvertMarginThrows ==
  /\ stage = "navegate" /\ pc = "idle" /\ ret = "true"
  /\ job.kind = "pdf" /\ job.margin = "garbage"
  /\ ret' = "threw" /\ stage' = "leave"
  /\ UNCHANGED <<pc, local, m_ID, m_TargetID, m_SessionID, m_Timeout, link, disk,
                 m_MessageQueue, cmds, wire, browserVars, results>>

(* A call that did not return true ends the conversion; so does the capture. *)
ConvertReturns ==
  /\ pc = "idle"
  /\ \/ stage = "navegate" /\ ret # "true"
     \/ stage = "capture"
  /\ stage' = "leave"
  /\ UNCHANGED <<vars, results>>

\* Mutant: the destructor forgets Exit().
LeavesWithoutExit ==
  /\ stage = "leave" /\ pc = "idle"
  /\ m_ID' = 0 /\ m_TargetID' = None /\ m_SessionID' = None /\ link' = "unset"
  /\ m_MessageQueue' = <<>> /\ m_Timeout' = FALSE
  /\ results' = Append(results, ret) /\ stage' = "new"
  /\ UNCHANGED <<pc, ret, local, disk, cmds, wire, browserVars>>

(* ~CDPManager() runs Exit(); what is left of the object goes with it, and the
   next conversion starts from a new one. *)
ConvertLeaves ==
  /\ stage = "leave" /\ pc = "idle"
  /\ ExitManager
  /\ m_MessageQueue' = <<>> /\ m_Timeout' = FALSE
  /\ results' = Append(results, ret) /\ stage' = "new"
  /\ UNCHANGED <<pc, ret, local, disk>>

ConvertStep ==
  \/ ConvertLaunches \/ ConvertSetsTimeout \/ ConvertNavegates
  \/ ConvertCaptures \/ ConvertMarginThrows \/ ConvertReturns \/ ConvertLeaves

ClientStep == ConvertStep \/ (CallStep /\ UNCHANGED convertVars)

(* The program ends when all conversions have, or a signal kills it.  It may also
   hang in a write() for as long as the browser does not read. *)
Ended == ~Running \/ pc = "killed"
Idles == (Ended \/ pc = "blocked") /\ UNCHANGED allVars

ConvertNext ==
  \/ ConvertStep
  \/ CallStep /\ UNCHANGED convertVars
  \/ BrowserStep /\ UNCHANGED convertVars
  \/ Idles

ConvertSpec == ConvertInit /\ [][ConvertNext]_allVars

(* The calling thread runs.  Nothing is asked of the browser. *)
ConvertFairSpec == ConvertSpec /\ WF_allVars(ClientStep)

(* A browser that works on: it executes, answers and loads. *)
HealthySpec ==
  /\ ConvertFairSpec
  /\ WF_allVars(BrowserExecutes /\ UNCHANGED convertVars)
  /\ WF_allVars(BrowserAnswers /\ UNCHANGED convertVars)
  /\ WF_allVars(BrowserFiresLoad /\ UNCHANGED convertVars)

-----------------------------------------------------------------------------
(* Properties of the conversions. *)

DataMethod(kind) == IF kind = "image" THEN "Page.captureScreenshot" ELSE "Page.printToPDF"

(* A result file written to its end holds the capture, in the format asked for, of
   the page of a conversion that was to write it, taken after that page had loaded:
   not of about:blank, of a page still loading or of another conversion's page. *)
FilesShowLoadedPages ==
  \A p \in Path : disk[p] \notin {None, Part} =>
    \E i \in 1 .. Len(Jobs) :
      /\ Jobs[i].path = p
      /\ disk[p] = [page |-> [url |-> Jobs[i].url, state |-> "loaded"],
                    method |-> DataMethod(Jobs[i].kind)]

(* To their caller the conversions are those of module Conversions: one after the other
   each saves its capture at most once and before it returns, one that returns false
   or throws has not, and nobody touches another conversion's file.  The one difference
   is that _SaveFile reports nothing, so that a conversion whose file cannot be opened,
   or only be written in part, returns true as well. *)
Promise == INSTANCE Conversions WITH
  Files <- [i \in DOMAIN Jobs |-> Jobs[i].path],
  Contents <- [i \in DOMAIN Jobs |->
                 [page |-> [url |-> Jobs[i].url, state |-> "loaded"],
                  method |-> DataMethod(Jobs[i].kind)]],
  Nothing <- None,
  Piece <- Part

ImplementsConversions ==
  Promise!Init
    /\ [][Promise!Next \/ ("disk" \in Faults /\ Promise!SucceedWithoutFile)]_(Promise!conversionVars)

(* Between conversions no browser is running and nothing of the last one can be
   read: whichever call the conversion left at, the destructor ended it. *)
BrowserEnded ==
  stage = "new" => browser = "none" /\ link = "unset" /\ InFlight = {} /\ m_ID = 0

(* Every conversion ends, whatever the browser does or fails to do, with two
   exceptions: write() of a command that is longer than the room in the pipe blocks for
   as long as a living browser does not read, in spite of the time-out; and a wait
   has no deadline of its own, so that a browser which never stops sending other
   events holds it up. *)
Terminates ==
  <>Ended \/ <>[](pc = "blocked" /\ browser = "running") \/ []<><<BrowserFiresOther>>_allVars

(* With a browser that works on and no failures every conversion returns true
   and leaves its file, except that a margin std::stod cannot read throws: no wait
   misses what it is waiting for by throwing it away or by leaving it to an earlier
   wait, also when other events never stop coming, and a conversion that threw does
   not disturb the next. *)
Expected(j) == IF j.kind = "pdf" /\ j.margin = "garbage" THEN "threw" ELSE "true"
AllConverted ==
  <>(/\ results = [i \in DOMAIN Jobs |-> Expected(Jobs[i])]
     /\ \A i \in DOMAIN Jobs : Expected(Jobs[i]) = "true" => disk[Jobs[i].path] \notin {None, Part})
=============================================================================
