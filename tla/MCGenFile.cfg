SPECIFICATION Spec
CONSTANTS
  MaxSaves = 3
  Clients = {"take", "release"}
  IOFails = TRUE
  Power = TRUE
INVARIANTS
  TypeOK
  NothingLost
  SnapshotStateKept
  NoStaleFiles
CHECK_DEADLOCK FALSE
