SPECIFICATION FairSpec
CONSTANTS
  Manifests = {r1, r2, r3, r4}
  Names = {n1, n2, n3, n4}
  Keys = {k1, k2}
  None = None
  r1 = r1
  r2 = r2
  r3 = r3
  r4 = r4
  n1 = n1
  n2 = n2
  n3 = n3
  n4 = n4
  k1 = k1
  k2 = k2
  Settings <- AllSettings
  Concurrency = 2
  Steps = 2
INVARIANT TypeOK
INVARIANT ParentsFirst
INVARIANT Accounted
INVARIANT SuccessIsStored
PROPERTY NoSecondCopy
PROPERTY StaleNeverSucceeds
PROPERTY DryRunChangesNothing
PROPERTY PushEnds
CHECK_DEADLOCK FALSE
