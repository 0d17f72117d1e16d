CONSTANTS
  Base = 32
  ShortBytes = 1
  LongBytes = 2
  BufLen = 17
  Sizes <- SmallSizes
  Faults = {"split", "close"}
SPECIFICATION Spec
INVARIANTS
  TypeOK
  PiecesOfFrames
  BrowserUnderstands
  NextCommandInStep
PROPERTY SavesOrWaits
CHECK_DEADLOCK FALSE
