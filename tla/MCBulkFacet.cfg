SPECIFICATION Spec
CONSTANTS
  Streams = {s1}
  Requests <- FacetRequests
  MaxLen = 4
  ChunkLen = 3
  Workers = 2
  Permits = 3
  LocalPermits = 2
INVARIANTS
  OkMeansIndexedOnce
CHECK_DEADLOCK FALSE
