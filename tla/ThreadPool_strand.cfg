SPECIFICATION Spec
CONSTANTS
  ThreadNum = 2
  QueSize = 1
  CreateCanFail = FALSE
  CanStop = TRUE
  MaxTasks = 2
  MaxSpurious = 0
INVARIANT NoTaskLeftBehind
CHECK_DEADLOCK FALSE
