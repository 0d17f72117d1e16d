CONSTANTS
  Url = {u1}
  Path = {p1}
  Target = {t1, t2}
  Session = {s1, s2}
  None = None
  Part = Part
  Faults = {"error", "slow", "torn", "stall", "crash"}
  MaxId = 6
  MaxLaunches = 2
  MaxEvents = 1
  MaxBacklog = 2
SPECIFICATION Spec
SYMMETRY TabSymmetry
CONSTRAINT SmallBacklog
INVARIANTS
  TypeOK
  ReplyIsForCommand
  SessionOfTarget
CHECK_DEADLOCK FALSE
