SPECIFICATION FairSpec
CONSTANTS
  Handlers = {h1, h2}
  MaxChunks = 2
  MaxShard = 1
  MaxDocs = 0
  Workers = 2
  Permits = 8
  StartMayFail = TRUE
  NoThread = NoThread
INVARIANTS
  TypeOK
  FinishNotMissed
  CountsBalance
  PermitsAccounted
PROPERTIES
  FullShardCloses
CHECK_DEADLOCK FALSE
