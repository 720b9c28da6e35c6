SPECIFICATION Spec
CONSTANTS
  MaxSaves = 12
  Clients = {}
  IOFails = FALSE
  Power = FALSE
INVARIANTS
  LoadsNewest
CHECK_DEADLOCK FALSE
