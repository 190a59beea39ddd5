\* One process with two requests, and one failure.
SPECIFICATION Spec
CONSTANTS
  Procs = {p1}
  Requests = {r1, r2}
  MaxAges = 1
  MaxLogins = 0
  MaxFaults = 1
  Free = Free
PROPERTY UnpersistedNeverSent
