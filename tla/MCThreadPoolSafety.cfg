\* Two callers, four jobs, three workers (four requested, MaxNum is three).
SPECIFICATION Spec
CONSTANTS
  j1 = j1
  j2 = j2
  j3 = j3
  j4 = j4
  a1 = a1
  a2 = a2
  NoJob = NoJob
  NoOne = NoOne
  MaxThrNum = 4
  DefaultNum = 2
  MaxNum = 3
  Adders <- TwoAdders
  Jobs <- FourJobs
  Forever = {}
SYMMETRY AdderSymmetry
INVARIANTS
  TypeOK
  NoStrandedJob
  Fifo
  HeapExact
  OneOwner
  NoSleeperAfterBroadcast
  AloneAfterJoin
CHECK_DEADLOCK FALSE
