SPECIFICATION FairSpec
CONSTANTS
  j1 = j1
  j2 = j2
  j3 = j3
  CopyJob = {j1, j2, j3}
  HighPriority = {j3}
  Ord <- JobOrd
  MaxVisits = 1
  Closer = {c1, c2}
  NoJob = NoJob
INVARIANTS
  TypeOK
  EachJobInOnePlace
  NoJobLost
  NoLostWakeup
PROPERTIES
  ImplementsService
  AcceptedJobsComplete
  CloseReturns
CHECK_DEADLOCK FALSE
