CONSTANTS
  u1 = u1
  u2 = u2
  p1 = p1
  p2 = p2
  Url = {u1, u2}
  Path = {p1, p2}
  Target = {t1, t2, t3}
  Session = {s1, s2, s3}
  None = None
  Part = Part
  Jobs <- BadPdfFirst
  Faults = {}
  MaxId = 7
  MaxLaunches = 3
  MaxEvents = 1
SPECIFICATION HealthySpec
PROPERTY AllConverted
