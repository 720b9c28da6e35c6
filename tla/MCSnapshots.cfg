SPECIFICATION Spec
CONSTANTS
  Client = {c1, c2}
  MaxDocs = 2
  MaxFields = 1
  MaxCommits = 2
  MaxSnapshots = 2
  MaxCrashes = 1
SYMMETRY Symmetry
INVARIANTS
  TypeOK
  SnapshotFilesKept
  TaxonomyCoversIndex
  SettingsCoverIndex
  ReleaseFrees
CHECK_DEADLOCK FALSE
