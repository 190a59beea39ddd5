\* Two processes with the keychain on, two edits of a document with one
\* credential, and two failures, crashes or power losses.
SPECIFICATION FairSpec
CONSTANTS
  Procs = {p1, p2}
  Edits = {e1, e2}
  Creds = {c1}
  Current = {c1}
  Accounts = {a1, a2, a3, a4, a5, a6}
  PolicyOff = {}
  MaxFaults = 2
  Unset = Unset
  NotFound = NotFound
  NoFile = NoFile
  NoEdit = NoEdit
  NoSave = NoSave
  Free = Free
INVARIANT NoOrphans
PROPERTY EveryCommandEnds
