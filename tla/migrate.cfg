SPECIFICATION FairSpec
CONSTANTS
  Migrator = {m1, m2, m3}
  N = 2
  None = None
INVARIANTS
  AppliedOnceInOrder
  Serialized
  UpToDate
  MigrateInv
PROPERTIES
  Released
CHECK_DEADLOCK FALSE
