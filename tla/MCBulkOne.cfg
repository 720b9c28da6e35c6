SPECIFICATION FairSpec
CONSTANTS
  Streams = {s1}
  Requests <- LiveRequests
  MaxLen = 9
  ChunkLen = 3
  Workers = 2
  Permits = 3
  LocalPermits = 3
INVARIANTS
  OkMeansIndexedOnce
PROPERTIES
  EveryRequestAnswered
