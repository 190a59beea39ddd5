SPECIFICATION FairSpec
CONSTANTS
  Tabs = {t1, t2}
  Codes = {c1, c2}
  None = None
  Settings <- AllSettings
  Lines = 2
  Faults = 1
  Tries = 2
INVARIANT TypeOK
INVARIANT OneExchange
INVARIANT NoFalseFailure
PROPERTY ToldEnds
CHECK_DEADLOCK FALSE
