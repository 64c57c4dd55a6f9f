\* Two commands, nothing fails.
SPECIFICATION Spec
CONSTANTS
  NumWorkers = 1
  TASK_MAXNUM = 1
  PipeCap = 3
  ReadMax = 2
  MaxCmds = 2
  Faults <- NoFaults
  MaxFaults = 0
  Leftover <- OnlyZero
INVARIANT
  NoStrandedCommand
CHECK_DEADLOCK FALSE
