\* Three pool threads, the least that suffices; two commands, any failure once.
SPECIFICATION SysFairSpec
CONSTANTS
  NumWorkers = 3
  TASK_MAXNUM = 1
  PipeCap = 2
  ReadMax = 2
  MaxCmds = 2
  Faults <- AllFaults
  MaxFaults = 1
  Leftover <- OnlyZero
INVARIANTS
  PoolReadyWhenUsed
  EventsOnce
PROPERTIES
  PoolSuffices
  ImplementsTaskManager
CHECK_DEADLOCK FALSE
