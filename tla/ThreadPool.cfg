SPECIFICATION FairSpec
CONSTANTS
  ThreadNum = 3
  QueSize = 1
  CreateCanFail = TRUE
  CanStop = TRUE
  MaxTasks = 3
  MaxSpurious = 1
INVARIANTS
  TypeOK
  Conservation
  NoSleepOverWork
  NoSleepOverRoom
  PopFindsTask
  StoppedMeansQuiet
PROPERTIES
  ImplementsBuffer
  EveryTaskRuns
  PushReturns
\* After stop has returned nothing may be left to do, and when no thread could
\* be created the event loop stays asleep in addTask.
CHECK_DEADLOCK FALSE
