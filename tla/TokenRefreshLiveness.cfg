\* Two processes with two requests each, contending for the lock.
SPECIFICATION FairSpec
CONSTANTS
  Procs = {p1, p2}
  Requests = {r1, r2}
  MaxAges = 1
  MaxLogins = 0
  MaxFaults = 0
  Free = Free
PROPERTY EveryRequestEnds
