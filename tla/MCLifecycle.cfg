SPECIFICATION Spec
CONSTANTS
  Index = {a, b}
  MaxDocs = 1
  MaxCrashes = 1
  IOFails = TRUE
SYMMETRY Symmetry
INVARIANTS
  TypeOK
  CreatedSurvives
  DeletedReturnsOnlyUnsaved
  CommitsKept
  AckedKept
CHECK_DEADLOCK FALSE
