SPECIFICATION FairSpec
CONSTANTS
  Procs = {p1, p2}
  p1 = p1
  p2 = p2
  None = None
  Settings <- AllSettings
INVARIANT TypeOK
INVARIANT RollbackSafe
PROPERTY BackupIsWriteOnce
PROPERTY EventuallyMigrated
CHECK_DEADLOCK FALSE
