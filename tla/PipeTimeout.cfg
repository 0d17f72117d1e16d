CONSTANTS
  Ports = {"linux"}
  MessageSize <- TwoMessages
  CommandSize <- Nothing
  BufLen = 3
  PipeCap = 4
  Settings <- AllSettings
  INFINITE = 2147483647
  MaxSettings = 1
  Faults = {"slow"}
SPECIFICATION Spec
INVARIANT TimeoutIsTheSetting
CHECK_DEADLOCK FALSE
