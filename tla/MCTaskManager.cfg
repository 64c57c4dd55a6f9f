\* Three pool threads, a schedule list of two, three commands, any two failures.
SPECIFICATION FairSpec
CONSTANTS
  NumWorkers = 3
  TASK_MAXNUM = 2
  PipeCap = 3
  ReadMax = 2
  MaxCmds = 3
  Faults <- AllFaults
  MaxFaults = 2
  Leftover <- OnlyZero
INVARIANTS
  TypeOK
  SemBalance
  SchedulerFindsTask
  OnePlace
  PendingFifo
  TriggersCovered
PROPERTIES
  AcquiredExecuted
  OldestExecuted
CHECK_DEADLOCK FALSE
