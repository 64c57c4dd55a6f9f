\* Two workers (the default for a request of 0), two callers, one job that need not return.
SPECIFICATION FairSpec
CONSTANTS
  j1 = j1
  j2 = j2
  j3 = j3
  j4 = j4
  a1 = a1
  a2 = a2
  NoJob = NoJob
  NoOne = NoOne
  MaxThrNum = 0
  DefaultNum = 2
  MaxNum = 3
  Adders <- TwoAdders
  Jobs <- ThreeJobs
  Forever <- OneForever
PROPERTIES
  JobServed
  DestroyReturns
  ImplementsWorkQueue
CHECK_DEADLOCK FALSE
