----------------------------- MODULE ConfigStore ------------------------------
(***************************************************************************)
(* One gcx configuration document shared by concurrent gcx processes: the  *)
(* YAML file, the OS keychain that holds the secrets the file refers to,   *)
(* and the write lock (internal/config/loader.go, keychain.go).            *)
(*                                                                         *)
(* A process loads the file without a lock, resolves the keychain          *)
(* references of the current context, moves plaintext it finds into the    *)
(* keychain, applies a command's edit and writes the document back: lock,  *)
(* revision check, staged keychain entries, temporary file, rename,        *)
(* directory sync, deletion of the replaced entries, or the way back.      *)
(* Processes crash, the machine loses power, keychain calls, renames and   *)
(* syncs fail.                                                             *)
(*                                                                         *)
(* Bounds: MaxFaults bounds failures, crashes and power losses together;   *)
(* every edit of Edits is made at most once.                               *)
(***************************************************************************)
EXTENDS Integers, FiniteSets

CONSTANTS Procs,      \* gcx processes
          Edits,      \* edits; an edit that sets a credential sets it to itself
          Creds,      \* credential fields of the document
          Current,    \* the fields of the current context, resolved by load
          Accounts,   \* keychain account names (random generations)
          PolicyOff,  \* processes that run with the keychain switched off
          MaxFaults,
          Unset, NotFound, NoFile, NoEdit, NoSave, Free

ASSUME ConstantsOK ==
  /\ Current \subseteq Creds
  /\ PolicyOff \subseteq Procs
  /\ MaxFaults \in Nat
  /\ Edits \cap Accounts = {}
  /\ Unset \notin Edits \cup Accounts
  /\ NotFound \notin Edits \cup {Unset}
  /\ NoEdit \notin Edits
  /\ Free \notin Procs

\* The document: `edits` and `want` are what its author means, `slot` is what
\* is written for each credential, a plaintext secret or a keychain reference.
\* `want` is a history field: no action decides by it what the file contains.
Contents == [edits : SUBSET Edits,
             want  : [Creds -> Edits \cup {Unset}],
             slot  : [Creds -> Edits \cup Accounts \cup {Unset}]]

\* What a reader obtains from a document.
Meanings == [edits : SUBSET Edits, want : [Creds -> Edits \cup {Unset}]]

ASSUME NoFileOK == NoFile \notin Contents \cup Meanings

Saves == [file : Contents \cup {NoFile}, keys : [Accounts -> Edits \cup {NotFound}]]

ASSUME NoSaveOK == NoSave \notin Saves

Statuses == {"none", "unresolved", "backed", "preserved", "missing"}

\* References a process may delete: those of a field it knows to be its own.
Live == {"unresolved", "backed", "preserved"}

Verdicts == {"none", "ok", "failed", "undurable", "retained"}

VARIABLES file,       \* the document as every process sees it
          disk,       \* the documents a power loss may leave
          keychain,   \* the secret of every account
          lock,       \* the process that holds the write lock
          cmd,        \* the command each process is running
          outcome,    \* what the command making an edit reported
          faults      \* failures so far

vars == <<file, disk, keychain, lock, cmd, outcome, faults>>

Steps == {"idle", "resolve", "loaded", "lock", "validate", "stage", "preflight",
          "install", "sync", "commit", "restoreKeys", "restoreFile",
          "restoreSync", "rollback", "unlock", "refresh"}

Commands ==
  [pc      : Steps,
   edit    : Edits \cup {NoEdit},       \* NoEdit: the load's own migration
   base    : Contents \cup {NoFile},    \* the bytes that were loaded
   status  : [Creds -> Statuses],       \* what became of each reference
   touched : SUBSET Creds,              \* the fields the command set or unset
   next    : Contents \cup {NoFile},    \* the document to be written
   need    : SUBSET Creds,              \* plaintext still to be staged
   staged  : SUBSET Accounts,           \* entries created by this write
   dels    : SUBSET Accounts,           \* entries to delete once it is durable
   gone    : SUBSET Accounts,           \* entries deleted so far
   saved   : Saves \cup {NoSave},       \* captured before anything is deleted
   migrated: BOOLEAN,                   \* the load's migration has had its turn
   verdict : Verdicts]

NoCommand ==
  [pc |-> "idle", edit |-> NoEdit, base |-> NoFile,
   status |-> [c \in Creds |-> "none"], touched |-> {}, next |-> NoFile,
   need |-> {}, staged |-> {}, dels |-> {}, gone |-> {}, saved |-> NoSave,
   migrated |-> FALSE, verdict |-> "none"]

EditsOf(m) == IF m = NoFile THEN {} ELSE m.edits
WantOf(m)  == IF m = NoFile THEN [c \in Creds |-> Unset] ELSE m.want
SlotOf(m)  == IF m = NoFile THEN [c \in Creds |-> Unset] ELSE m.slot
Refs(m)    == { a \in Accounts : \E c \in Creds : SlotOf(m)[c] = a }

\* The secret a reader obtains for what is written in a slot.
Secret(x) == IF x \in Accounts THEN keychain[x] ELSE x

\* A new 128-bit random generation is no name anything still uses. Which one
\* it is makes no difference.
Fresh(a) ==
  /\ keychain[a] = NotFound
  /\ \A m \in disk : a \notin Refs(m)
  /\ \A q \in Procs : a \notin Refs(cmd[q].base) \cup Refs(cmd[q].next)

NewAccount == CHOOSE a \in Accounts : Fresh(a)

Fault == faults < MaxFaults /\ faults' = faults + 1

\* Process p is at step `at` of its command, which becomes k.
At(p, at)  == cmd[p].pc = at
Goes(p, k) == cmd' = [cmd EXCEPT ![p] = k]

-------------------------------------------------------------------------------
(* Loading *)

LoadedFrom(m, k) ==
  [k EXCEPT !.pc = "resolve", !.base = m,
            !.status = [c \in Creds |-> IF SlotOf(m)[c] \in Accounts
                                        THEN "unresolved" ELSE "none"]]

Load(p) ==
  /\ At(p, "idle")
  /\ Goes(p, LoadedFrom(file, NoCommand))
  /\ UNCHANGED <<file, disk, keychain, lock, outcome, faults>>

\* The load resolves the current context; a command may resolve another later.
MayResolve(p, c) ==
  /\ cmd[p].status[c] = "unresolved"
  /\ (At(p, "resolve") /\ c \in Current) \/ At(p, "loaded")

Resolve(p, c) ==
  /\ MayResolve(p, c)
  /\ LET found == IF p \in PolicyOff THEN "preserved"
                  ELSE IF Secret(cmd[p].base.slot[c]) = NotFound THEN "missing"
                  ELSE "backed"
     IN  Goes(p, [cmd[p] EXCEPT !.status[c] = found])
  /\ UNCHANGED <<file, disk, keychain, lock, outcome, faults>>

\* A keychain that cannot be read leaves the reference alone.
ResolveFails(p, c) ==
  /\ MayResolve(p, c)
  /\ Fault
  /\ Goes(p, [cmd[p] EXCEPT !.status[c] = "preserved"])
  /\ UNCHANGED <<file, disk, keychain, lock, outcome>>

\* hasPlaintextSecrets looks at the config in memory, where a resolved
\* reference is a plaintext value too.
PlaintextInMemory(k) ==
  \E c \in Creds : k.status[c] = "backed" \/ SlotOf(k.base)[c] \in Edits

FinishLoad(p) ==
  /\ At(p, "resolve")
  /\ \A c \in Current : cmd[p].status[c] # "unresolved"
  /\ Goes(p, IF PlaintextInMemory(cmd[p]) /\ ~cmd[p].migrated
             THEN [cmd[p] EXCEPT !.pc = "lock", !.next = cmd[p].base]
             ELSE [cmd[p] EXCEPT !.pc = "loaded"])
  /\ UNCHANGED <<file, disk, keychain, lock, outcome, faults>>

\* A command that only reads is done.
Quit(p) ==
  /\ At(p, "loaded")
  /\ Goes(p, NoCommand)
  /\ UNCHANGED <<file, disk, keychain, lock, outcome, faults>>

\* A command edits the loaded config: it sets or unsets at most one credential
\* among whatever else it changes, and asks for the document to be written.
Mutate(p, e) ==
  /\ At(p, "loaded")
  /\ outcome[e] = "unused"
  /\ \E touched \in {{}} \cup {{c} : c \in Creds}, v \in {e, Unset} :
       LET m == cmd[p].base
       IN  Goes(p, [cmd[p] EXCEPT
             !.pc = "lock", !.edit = e, !.touched = touched,
             !.next = [edits |-> EditsOf(m) \cup {e},
                       want  |-> [c \in Creds |-> IF c \in touched THEN v ELSE WantOf(m)[c]],
                       slot  |-> SlotOf(m)]])
  /\ outcome' = [outcome EXCEPT ![e] = "pending"]
  /\ UNCHANGED <<file, disk, keychain, lock, faults>>

-------------------------------------------------------------------------------
(* Writing, up to the rename *)

Acquire(p) ==
  /\ At(p, "lock")
  /\ lock = Free
  /\ lock' = p
  /\ Goes(p, [cmd[p] EXCEPT !.pc = "validate"])
  /\ UNCHANGED <<file, disk, keychain, outcome, faults>>

\* What follows a write: a failed or needless migration leaves the loaded
\* config as it is, a successful one reads the file back, an edit is reported.
AfterWrite(k, verdict) ==
  IF k.edit # NoEdit THEN NoCommand
  ELSE [NoCommand EXCEPT
          !.pc = IF verdict \in {"ok", "undurable"} THEN "refresh" ELSE "loaded",
          !.base = k.base, !.status = k.status, !.migrated = TRUE]

Reported(k, verdict) ==
  outcome' = IF k.edit # NoEdit THEN [outcome EXCEPT ![k.edit] = verdict] ELSE outcome

\* Mutant: the wait for the lock has no limit.
WaitForEver(p) == FALSE

\* Thirty seconds without the lock.
LockTimeout(p) ==
  /\ At(p, "lock")
  /\ lock # Free
  /\ Goes(p, AfterWrite(cmd[p], "failed"))
  /\ Reported(cmd[p], "failed")
  /\ UNCHANGED <<file, disk, keychain, lock, faults>>

\* Mutant: a cleared field is staged like one that was set.
UnstagedOrCleared(k) ==
  { c \in Creds : c \in k.touched \/ SlotOf(k.base)[c] \in Edits }

\* The plaintext of a document that a write moves into the keychain.
Unstaged(k) ==
  { c \in Creds : IF c \in k.touched THEN k.next.want[c] # Unset
                  ELSE SlotOf(k.base)[c] \in Edits }

\* The account behind field c, when the write may delete it.
OldAccount(k, c) ==
  IF k.status[c] \in Live THEN {SlotOf(k.base)[c]} ELSE {}

Cleared(k) == { c \in k.touched : k.next.want[c] = Unset }

\* Mutant: the revision is not compared.
ValidateNothing(p) ==
  /\ At(p, "validate")
  /\ LET k == cmd[p]
     IN  Goes(p, [k EXCEPT
                    !.pc = "stage", !.need = Unstaged(k),
                    !.dels = UNION { OldAccount(k, c) : c \in Cleared(k) },
                    !.next.slot = [c \in Creds |-> IF c \in Cleared(k) THEN Unset
                                                   ELSE k.next.slot[c]]])
  /\ UNCHANGED <<file, disk, keychain, lock, outcome, faults>>

\* Under the lock, the file must still be the bytes that were loaded (or still
\* be absent). Then reconcile decides what every field becomes.
Validate(p) ==
  /\ At(p, "validate")
  /\ LET k == cmd[p]
     IN  Goes(p, IF file = k.base
                 THEN [k EXCEPT
                         !.pc = "stage", !.need = Unstaged(k),
                         !.dels = UNION { OldAccount(k, c) : c \in Cleared(k) },
                         !.next.slot = [c \in Creds |-> IF c \in Cleared(k) THEN Unset
                                                        ELSE k.next.slot[c]]]
                 ELSE [k EXCEPT !.pc = "unlock", !.verdict = "failed"])
  /\ UNCHANGED <<file, disk, keychain, lock, outcome, faults>>

\* The secret is stored under a fresh account and read back.
Stage(p, c) ==
  /\ At(p, "stage") /\ c \in cmd[p].need
  /\ p \notin PolicyOff
  /\ \E a \in Accounts : Fresh(a)
  /\ keychain' = [keychain EXCEPT ![NewAccount] = cmd[p].next.want[c]]
  /\ LET k == cmd[p]
     IN  Goes(p, [k EXCEPT !.need = k.need \ {c},
                           !.staged = k.staged \cup {NewAccount},
                           !.dels = k.dels \cup OldAccount(k, c),
                           !.next.slot[c] = NewAccount])
  /\ UNCHANGED <<file, disk, lock, outcome, faults>>

\* Mutant: the field keeps what the loaded document had.
StageNothing(p, c) ==
  /\ At(p, "stage") /\ c \in cmd[p].need
  /\ p \in PolicyOff
  /\ Goes(p, [cmd[p] EXCEPT !.need = cmd[p].need \ {c}])
  /\ UNCHANGED <<file, disk, keychain, lock, outcome, faults>>

\* With the keychain switched off the secret stays in the file, and an account
\* it replaces is abandoned.
StagePlaintext(p, c) ==
  /\ At(p, "stage") /\ c \in cmd[p].need
  /\ p \in PolicyOff
  /\ LET k == cmd[p]
     IN  Goes(p, [k EXCEPT !.need = k.need \ {c}, !.next.slot[c] = k.next.want[c]])
  /\ UNCHANGED <<file, disk, keychain, lock, outcome, faults>>

Fails(k) == [k EXCEPT !.pc = "rollback", !.verdict = "failed"]

\* A keychain call fails while a secret is staged. The entry may have been
\* created all the same; when it was read back wrong and could not be
\* discarded, the rollback tries again.
StageFails(p, c) ==
  /\ At(p, "stage") /\ c \in cmd[p].need
  /\ p \notin PolicyOff
  /\ Fault
  /\ \/ Goes(p, Fails(cmd[p])) /\ UNCHANGED keychain
     \/ /\ \E a \in Accounts : Fresh(a)
        /\ keychain' = [keychain EXCEPT ![NewAccount] = cmd[p].next.want[c]]
        /\ \E tracked \in {{}, {NewAccount}} :
               Goes(p, [Fails(cmd[p]) EXCEPT !.staged = cmd[p].staged \cup tracked])
  /\ UNCHANGED <<file, disk, lock, outcome>>

\* A migration that staged nothing has nothing to write.
StageDone(p) ==
  /\ At(p, "stage") /\ cmd[p].need = {}
  /\ Goes(p, IF cmd[p].edit = NoEdit /\ cmd[p].staged = {}
             THEN [cmd[p] EXCEPT !.pc = "unlock", !.verdict = "failed"]
             ELSE [cmd[p] EXCEPT !.pc = "preflight"])
  /\ UNCHANGED <<file, disk, keychain, lock, outcome, faults>>

\* Everything that deletion may have to put back is captured first. A switched
\* off keychain cannot delete.
Preflight(p) ==
  /\ At(p, "preflight")
  /\ Goes(p, IF cmd[p].dels = {} THEN [cmd[p] EXCEPT !.pc = "install"]
             ELSE IF p \in PolicyOff THEN Fails(cmd[p])
             ELSE [cmd[p] EXCEPT !.pc = "install",
                                 !.saved = [file |-> file, keys |-> keychain]])
  /\ UNCHANGED <<file, disk, keychain, lock, outcome, faults>>

\* The keychain or the temporary file fails before the rename.
WriteFails(p) ==
  /\ At(p, "preflight") \/ At(p, "install")
  /\ Fault
  /\ Goes(p, Fails(cmd[p]))
  /\ UNCHANGED <<file, disk, keychain, lock, outcome>>

\* The synced temporary file replaces the document (or becomes it, by a link
\* that refuses to replace, when the document was absent).
Install(p) ==
  /\ At(p, "install")
  /\ cmd[p].base = NoFile => file = NoFile
  /\ file' = cmd[p].next
  /\ disk' = disk \cup {file'}
  /\ Goes(p, [cmd[p] EXCEPT !.pc = "sync"])
  /\ UNCHANGED <<keychain, lock, outcome, faults>>

-------------------------------------------------------------------------------
(* Writing, after the rename *)

SyncDirectory(p) ==
  /\ At(p, "sync")
  /\ disk' = {file}
  /\ Goes(p, [cmd[p] EXCEPT !.pc = "commit"])
  /\ UNCHANGED <<file, keychain, lock, outcome, faults>>

\* Mutant: a failed sync is treated like a failure before the rename.
SyncFailureRollsBack(p) ==
  /\ At(p, "sync")
  /\ Fault
  /\ Goes(p, Fails(cmd[p]))
  /\ UNCHANGED <<file, disk, keychain, lock, outcome>>

\* Without the barrier neither generation may be removed.
SyncFails(p) ==
  /\ At(p, "sync")
  /\ Fault
  /\ Goes(p, [cmd[p] EXCEPT !.pc = "unlock", !.verdict = "undurable"])
  /\ UNCHANGED <<file, disk, keychain, lock, outcome>>

DeleteOld(p, a) ==
  /\ At(p, "commit") /\ a \in cmd[p].dels
  /\ keychain' = [keychain EXCEPT ![a] = NotFound]
  /\ Goes(p, [cmd[p] EXCEPT !.dels = cmd[p].dels \ {a}, !.gone = cmd[p].gone \cup {a}])
  /\ UNCHANGED <<file, disk, lock, outcome, faults>>

\* A failed deletion may have deleted. Every deletion is taken back.
DeleteFails(p, a) ==
  /\ At(p, "commit") /\ a \in cmd[p].dels
  /\ Fault
  /\ keychain' \in {keychain, [keychain EXCEPT ![a] = NotFound]}
  /\ Goes(p, [cmd[p] EXCEPT !.pc = "restoreKeys", !.gone = cmd[p].gone \cup {a}])
  /\ UNCHANGED <<file, disk, lock, outcome>>

\* Mutant: the write ends before every old entry is deleted.
CommitEarly(p) ==
  /\ At(p, "commit")
  /\ Goes(p, [cmd[p] EXCEPT !.pc = "unlock", !.verdict = "ok"])
  /\ UNCHANGED <<file, disk, keychain, lock, outcome, faults>>

CommitDone(p) ==
  /\ At(p, "commit") /\ cmd[p].dels = {}
  /\ Goes(p, [cmd[p] EXCEPT !.pc = "unlock", !.verdict = "ok"])
  /\ UNCHANGED <<file, disk, keychain, lock, outcome, faults>>

RestoreKey(p, a) ==
  /\ At(p, "restoreKeys") /\ a \in cmd[p].gone
  /\ keychain' = IF cmd[p].saved.keys[a] = NotFound THEN keychain
                 ELSE [keychain EXCEPT ![a] = cmd[p].saved.keys[a]]
  /\ Goes(p, [cmd[p] EXCEPT !.gone = cmd[p].gone \ {a}])
  /\ UNCHANGED <<file, disk, lock, outcome, faults>>

RestoreKeyFails(p, a) ==
  /\ At(p, "restoreKeys") /\ a \in cmd[p].gone
  /\ cmd[p].saved.keys[a] # NotFound
  /\ Fault
  /\ Goes(p, [cmd[p] EXCEPT !.gone = cmd[p].gone \ {a}, !.verdict = "retained"])
  /\ UNCHANGED <<file, disk, keychain, lock, outcome>>

\* Mutant: the old document comes back whether or not its accounts have.
RestoreAnyway(p) ==
  /\ At(p, "restoreKeys") /\ cmd[p].gone = {}
  /\ Goes(p, [cmd[p] EXCEPT !.pc = "restoreFile"])
  /\ UNCHANGED <<file, disk, keychain, lock, outcome, faults>>

\* The old document may come back only when all its accounts have.
RestoreKeysDone(p) ==
  /\ At(p, "restoreKeys") /\ cmd[p].gone = {}
  /\ Goes(p, [cmd[p] EXCEPT !.pc = IF cmd[p].verdict = "retained"
                                   THEN "unlock" ELSE "restoreFile"])
  /\ UNCHANGED <<file, disk, keychain, lock, outcome, faults>>

RestoreFile(p) ==
  /\ At(p, "restoreFile")
  /\ file' = cmd[p].saved.file
  /\ disk' = disk \cup {file'}
  /\ Goes(p, [cmd[p] EXCEPT !.pc = "restoreSync"])
  /\ UNCHANGED <<keychain, lock, outcome, faults>>

RestoreSync(p) ==
  /\ At(p, "restoreSync")
  /\ disk' = {file}
  /\ Goes(p, Fails(cmd[p]))
  /\ UNCHANGED <<file, keychain, lock, outcome, faults>>

\* The document could not be put back, or not durably: both generations stay.
RestoreFails(p) ==
  /\ At(p, "restoreFile") \/ At(p, "restoreSync")
  /\ Fault
  /\ Goes(p, [cmd[p] EXCEPT !.pc = "unlock", !.verdict = "retained"])
  /\ UNCHANGED <<file, disk, keychain, lock, outcome>>

\* Staged entries are deleted as far as the keychain allows.
Rollback(p, a) ==
  /\ At(p, "rollback") /\ a \in cmd[p].staged
  /\ keychain' = [keychain EXCEPT ![a] = NotFound]
  /\ Goes(p, [cmd[p] EXCEPT !.staged = cmd[p].staged \ {a}])
  /\ UNCHANGED <<file, disk, lock, outcome, faults>>

RollbackFails(p, a) ==
  /\ At(p, "rollback") /\ a \in cmd[p].staged
  /\ Fault
  /\ Goes(p, [cmd[p] EXCEPT !.staged = cmd[p].staged \ {a}])
  /\ UNCHANGED <<file, disk, keychain, lock, outcome>>

RollbackDone(p) ==
  /\ At(p, "rollback") /\ cmd[p].staged = {}
  /\ Goes(p, [cmd[p] EXCEPT !.pc = "unlock"])
  /\ UNCHANGED <<file, disk, keychain, lock, outcome, faults>>

Unlock(p) ==
  /\ At(p, "unlock")
  /\ lock' = Free
  /\ Goes(p, AfterWrite(cmd[p], cmd[p].verdict))
  /\ Reported(cmd[p], cmd[p].verdict)
  /\ UNCHANGED <<file, disk, keychain, faults>>

\* A migrated document is read back, without the lock.
Refresh(p) ==
  /\ At(p, "refresh")
  /\ Goes(p, IF file = NoFile THEN NoCommand ELSE LoadedFrom(file, cmd[p]))
  /\ UNCHANGED <<file, disk, keychain, lock, outcome, faults>>

-------------------------------------------------------------------------------
(* The environment *)

\* The kernel releases the lock of a process that dies.
Crash(p) ==
  /\ ~At(p, "idle")
  /\ Fault
  /\ lock' = IF lock = p THEN Free ELSE lock
  /\ Goes(p, NoCommand)
  /\ UNCHANGED <<file, disk, keychain, outcome>>

PowerLoss ==
  /\ Fault
  /\ file' \in disk
  /\ disk' = {file'}
  /\ lock' = Free
  /\ cmd' = [p \in Procs |-> NoCommand]
  /\ UNCHANGED <<keychain, outcome>>

-------------------------------------------------------------------------------
\* The program of one process, without the user's choices and the failures.
Continue(p) ==
  \/ \E c \in Creds : Resolve(p, c) \/ Stage(p, c) \/ StagePlaintext(p, c)
  \/ FinishLoad(p) \/ Quit(p) \/ Acquire(p) \/ LockTimeout(p) \/ Validate(p)
  \/ StageDone(p) \/ Preflight(p) \/ Install(p) \/ SyncDirectory(p)
  \/ \E a \in Accounts : DeleteOld(p, a) \/ RestoreKey(p, a) \/ Rollback(p, a)
  \/ CommitDone(p) \/ RestoreKeysDone(p) \/ RestoreFile(p) \/ RestoreSync(p)
  \/ RollbackDone(p) \/ Unlock(p) \/ Refresh(p)

Disturb(p) ==
  \/ \E c \in Creds : ResolveFails(p, c) \/ StageFails(p, c)
  \/ \E a \in Accounts : DeleteFails(p, a) \/ RestoreKeyFails(p, a) \/ RollbackFails(p, a)
  \/ WriteFails(p) \/ SyncFails(p) \/ RestoreFails(p) \/ Crash(p)

Next ==
  \/ \E p \in Procs : Load(p) \/ (\E e \in Edits : Mutate(p, e)) \/ Continue(p) \/ Disturb(p)
  \/ PowerLoss

\* The documents a first command may find: none, or one made by one edit whose
\* secrets are in plaintext or under accounts of their own.
Init ==
  /\ file \in {NoFile} \cup
       { m \in [edits : {{e} : e \in Edits},
                want  : [Creds -> Edits \cup {Unset}],
                slot  : [Creds -> Edits \cup Accounts \cup {Unset}]] :
           \A c \in Creds :
             /\ m.want[c] \in m.edits \cup {Unset}
             /\ m.slot[c] = m.want[c] \/ (m.slot[c] \in Accounts /\ m.want[c] # Unset)
             /\ \A d \in Creds : m.slot[c] = m.slot[d] /\ c # d => m.slot[c] \notin Accounts }
  /\ disk = {file}
  /\ keychain = [a \in Accounts |->
       IF a \in Refs(file) THEN WantOf(file)[CHOOSE c \in Creds : SlotOf(file)[c] = a]
       ELSE NotFound]
  /\ lock = Free
  /\ cmd = [p \in Procs |-> NoCommand]
  /\ outcome = [e \in Edits |-> IF e \in EditsOf(file) THEN "ok" ELSE "unused"]
  /\ faults = 0

Spec == Init /\ [][Next]_vars

\* A process that is running its program keeps running it.
FairSpec == Spec /\ \A p \in Procs : WF_vars(Continue(p))

-------------------------------------------------------------------------------
(* Properties *)

TypeOK ==
  /\ file \in Contents \cup {NoFile}
  /\ disk \subseteq Contents \cup {NoFile}
  /\ keychain \in [Accounts -> Edits \cup {NotFound}]
  /\ lock \in Procs \cup {Free}
  /\ cmd \in [Procs -> Commands]
  /\ outcome \in [Edits -> {"unused", "pending"} \cup (Verdicts \ {"none"})]
  /\ faults \in Nat

\* Every document a reader may find, now or after a power loss, yields for
\* every field the secret its author meant: no reference dangles and none
\* leads to another secret, at any step of any write
\* (internal/config/loader.go writeConfig: rename, barrier, then deletion).
Readable(m) == \A c \in Creds : Secret(SlotOf(m)[c]) = WantOf(m)[c]
Integrity == file \in disk /\ \A m \in disk : Readable(m)

\* An edit reported as successful is in every document that can still be found:
\* no concurrent command loses it and no power loss undoes it.
SuccessIsDurable ==
  \A e \in Edits : outcome[e] = "ok" => \A m \in disk : e \in EditsOf(m)

\* An edit reported as failed is in none of them, whatever step failed.
FailureIsInvisible ==
  \A e \in Edits : outcome[e] = "failed" => \A m \in disk : e \notin EditsOf(m)

\* As long as nothing fails and the keychain is on, no write leaves a secret
\* behind: with every process idle, each keychain entry is one the document
\* refers to.
NoOrphans ==
  faults = 0 /\ PolicyOff = {} /\ (\A p \in Procs : At(p, "idle")) =>
    \A a \in Accounts : keychain[a] # NotFound => a \in Refs(file)

\* Every command comes to its end: no step waits for ever, for the lock or
\* for anything else, and a load does not repeat its migration.
EveryCommandEnds == \A p \in Procs : ~At(p, "idle") ~> At(p, "idle")

\* The abstract register, read through the keychain. While a write may still
\* be taken back, its starting point is the document it loaded.
Meaning(m) ==
  IF m = NoFile THEN NoFile
  ELSE [edits |-> m.edits, want |-> [c \in Creds |-> Secret(m.slot[c])]]

Reversible == { p \in Procs :
  cmd[p].pc \in {"sync", "commit", "restoreKeys", "restoreFile", "restoreSync"} }

Register == INSTANCE ConfigRegister WITH
  NoMeaning <- NoFile,
  value     <- Meaning(file),
  survivors <- { Meaning(m) : m \in disk },
  prior     <- IF Reversible = {} THEN Meaning(file)
               ELSE LET m == cmd[CHOOSE p \in Reversible : TRUE].base
                    IN  IF m = NoFile THEN NoFile
                        ELSE [edits |-> m.edits, want |-> m.want]

RefinesRegister == Register!Spec

===============================================================================
