CONSTANTS
  Ports = {"linux"}
  MessageSize <- TwoMessages
  CommandSize <- Nothing
  BufLen = 3
  PipeCap = 4
  Settings <- NoSettings
  INFINITE = 2147483647
  MaxSettings = 0
  Faults = {"signal"}
SPECIFICATION Spec
INVARIANT InterruptedReadIsRetried
CHECK_DEADLOCK FALSE
