\* A process with the keychain on and one with it off, two edits of a document
\* with two credentials, and two failures, crashes or power losses.
SPECIFICATION Spec
CONSTANTS
  Procs = {p1, p2}
  Edits = {e1, e2}
  Creds = {c1, c2}
  Current = {c1}
  Accounts = {a1, a2, a3, a4, a5}
  PolicyOff = {p2}
  MaxFaults = 2
  Unset = Unset
  NotFound = NotFound
  NoFile = NoFile
  NoEdit = NoEdit
  NoSave = NoSave
  Free = Free
INVARIANTS TypeOK Integrity SuccessIsDurable FailureIsInvisible
PROPERTY RefinesRegister
SYMMETRY EditSymmetry
