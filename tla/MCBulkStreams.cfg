SPECIFICATION Spec
CONSTANTS
  Streams = {s1, s2}
  Requests <- MixedRequests
  MaxLen = 7
  ChunkLen = 3
  Workers = 2
  Permits = 3
  LocalPermits = 2
INVARIANTS
  TypeOK
  AnswerAfterAllChunks
  OkMeansIndexedOnce
  NoSpuriousError
  QueueNeverOverflows
  PermitsReturned
  ShardDrained
PROPERTIES
  FragmentGivenOnce
SYMMETRY StreamSymmetry
