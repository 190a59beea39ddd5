SPECIFICATION FairSpec
CONSTANTS
  Tabs = {t1, t2}
  Codes = {c1, c2}
  None = None
  Settings <- Remote
  Lines = 1
  Faults = 1
  Tries = 2
PROPERTY ClaimedIsDelivered
CHECK_DEADLOCK FALSE
