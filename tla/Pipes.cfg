CONSTANTS
  Ports = {"linux", "windows", "node"}
  MessageSize <- ThreeMessages
  CommandSize <- TwoCommands
  BufLen = 2
  PipeCap = 3
  Settings <- TwoSettings
  INFINITE = 2147483647
  MaxSettings = 1
  Faults = {"slow", "signal", "handles", "crash"}
SPECIFICATION FairSpec
INVARIANTS
  TypeOK
  CommandsWhole
  CommandsAsReported
  MessagesNeverGlued
PROPERTIES
  ImplementsChannel
  ReadReturns
  WriteReturns
CHECK_DEADLOCK FALSE
