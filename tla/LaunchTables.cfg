CONSTANTS
  MaxFd = 9
  Tables <- AnyOfSix
  MaxLaunches = 2
  Faults = {"fork", "dup2", "exec", "chrome", "autoreap"}
SPECIFICATION Spec
INVARIANTS
  TypeOK
  WiredUnlessInTheWay
  ProgramFilesUntouched
  ConnectedEnds
PROPERTIES
  LaunchIsUndone
  FailedLaunchKeeps
CHECK_DEADLOCK FALSE
