SPECIFICATION Spec
CONSTANTS
  l1 = l1
  l2 = l2
  m1 = m1
  w1 = w1
  Loaders = {l1, l2}
  Mutators = {m1}
  Writers = {w1}
  Layers <- ThreeLayers
  Files <- TwoFiles
  Settings <- AllSettings
  Free = Free
INVARIANT TypeOK
INVARIANT ConsistentView
INVARIANT WritersNeverFailALoad
INVARIANT NoCircularWait
PROPERTY NoUnlockedWrite
PROPERTY OnlyLockedIsMerged
CHECK_DEADLOCK FALSE
