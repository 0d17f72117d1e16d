CONSTANTS
  MaxFd = 12
  Tables <- StandardAndOne
  MaxLaunches = 1
  Faults = {}
SPECIFICATION Spec
INVARIANT ChromeIsWired
CHECK_DEADLOCK FALSE
