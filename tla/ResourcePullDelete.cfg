SPECIFICATION FairSpec
CONSTANTS
  Filters = {f1, f2}
  Items = {i1, i2, i3, i4}
  f1 = f1
  f2 = f2
  i1 = i1
  i2 = i2
  i3 = i3
  i4 = i4
  Requests <- Sensible
  ReadOnly = {i2}
  Managed = {i3}
  Unsupported = {i4}
  HonorsDryRun = {i1, i2}
  Concurrency = 2
  MaxFaults = 1
  MaxForeign = 1
  Interrupts = TRUE
INVARIANT TypeOK
INVARIANT ZeroMeansDone
INVARIANT CancelIsNotAFailure
INVARIANT NothingAfterFailedSelection
PROPERTY CommandEnds
CHECK_DEADLOCK FALSE
