\* Two processes with two requests each: failures, crashes and a login.
SPECIFICATION Spec
CONSTANTS
  Procs = {p1, p2}
  Requests = {r1, r2}
  MaxAges = 1
  MaxLogins = 1
  MaxFaults = 2
  Free = Free
SYMMETRY Symmetry
INVARIANTS TypeOK NeverReplayed LockedOutOnlyByFailure NeverPresentedAgain
PROPERTY LoginWins
