\* One command, nothing fails.
SPECIFICATION Spec
CONSTANTS
  NumWorkers = 1
  TASK_MAXNUM = 1
  PipeCap = 3
  ReadMax = 2
  MaxCmds = 1
  Faults <- NoFaults
  MaxFaults = 0
  Leftover <- ZeroOrJunk
INVARIANT
  RecycleFreesNothingElse
CHECK_DEADLOCK FALSE
