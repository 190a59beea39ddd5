SPECIFICATION Spec
CONSTANTS
  Filters = {f1, f2}
  Items = {i1, i2, i3, i4}
  f1 = f1
  f2 = f2
  i1 = i1
  i2 = i2
  i3 = i3
  i4 = i4
  Requests <- Named
  ReadOnly = {}
  Managed = {}
  Unsupported = {}
  HonorsDryRun = {i1, i2}
  Concurrency = 2
  MaxFaults = 0
  MaxForeign = 0
  Interrupts = FALSE
INVARIANT EveryNamedIsProcessed
CHECK_DEADLOCK FALSE
