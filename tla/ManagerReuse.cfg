CONSTANTS
  Url = {u1, u2}
  Path = {p1}
  Target = {t1, t2}
  Session = {s1, s2}
  None = None
  Part = Part
  Faults = {"slow"}
  MaxId = 6
  MaxLaunches = 1
  MaxEvents = 0
  MaxBacklog = 3
SPECIFICATION Spec
SYMMETRY TabSymmetry
CONSTRAINT SmallBacklog
PROPERTY NavegateLoadsItsPage
CHECK_DEADLOCK FALSE
