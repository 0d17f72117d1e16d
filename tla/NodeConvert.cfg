CONSTANTS
  u1 = u1
  u2 = u2
  p1 = p1
  p2 = p2
  Url = {u1, u2}
  Path = {p1, p2}
  Target = {t1, t2}
  Session = {s1, s2}
  None = None
  Part = Part
  Jobs <- ImageThenPdf
  Faults = {"noLaunch", "unconnected", "error", "torn", "stall", "crash", "disk"}
  MaxId = 7
  MaxLaunches = 2
  MaxEvents = 0
SPECIFICATION NodeSpec
INVARIANTS
  ReplyIsForCommand
  BrowserEnded
PROPERTIES
  NavegateLoadsItsPage
  NodeKeepsPromise
  NodeTerminates
