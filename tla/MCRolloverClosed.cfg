SPECIFICATION Spec
CONSTANTS
  Handlers = {h1}
  MaxChunks = 4
  MaxShard = 1
  MaxDocs = 1
  Workers = 2
  Permits = 8
  StartMayFail = FALSE
  NoThread = NoThread
INVARIANTS
  NoChunkMeetsClosedWriter
CHECK_DEADLOCK FALSE
