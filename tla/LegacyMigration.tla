--------------------------- MODULE LegacyMigration ----------------------------
(***************************************************************************)
(* Migration of a legacy document to the current schema (internal/config:  *)
(* migrate.go, and load and writeConfig of loader.go as far as they have   *)
(* to do with it).                                                         *)
(*                                                                         *)
(* A load that meets a legacy document takes the write lock, reads again,  *)
(* collects the legacy secrets, writes a backup once, and replaces the     *)
(* document. Whatever stands in the way, it goes on with a migration in    *)
(* memory and leaves the next load to try again.                           *)
(*                                                                         *)
(* Commands are of three kinds, by how they load:                          *)
(*   explicit  one file that was named: no snapshot;                       *)
(*   single    one discovered layer: the preflight took a snapshot;        *)
(*   layered   several layers, some legacy: migrates in memory only.       *)
(*                                                                         *)
(* A document is its revision, its form and `from`, the legacy revision    *)
(* that its content descends from. A power loss leaves one of the          *)
(* documents and one of the backups that `disk` and `kept` say are         *)
(* possible. A gcx of an older version saves without the lock.             *)
(***************************************************************************)
EXTENDS Integers, FiniteSets

CONSTANTS Procs, Settings, None

Kinds == {"explicit", "single", "layered"}

ASSUME MigrationConstantsOK ==
  /\ None \notin Procs
  /\ \A g \in Settings :
       /\ g.kind \in [Procs -> Kinds]
       /\ {g.saves, g.edits, g.faults, g.deaths, g.losses} \subseteq Nat   \* bounds

VARIABLES setting,
          doc, disk,     \* the document; those a power loss may leave
          backup, kept,  \* the backup; those a power loss may leave
          lock,          \* the process that has the write lock
          proc,
          count,         \* of what is bounded
          torn           \* a backup was left behind before it was synced

vars == <<setting, doc, disk, backup, kept, lock, proc, count, torn>>

Documents == [rev : Nat, form : {"legacy", "current"}, from : Nat]
Backups   == [state : {"absent", "partial", "complete"}, of : Nat]

Absent      == [state |-> "absent", of |-> 0]
Partial     == [state |-> "partial", of |-> 0]
Complete(g) == [state |-> "complete", of |-> g]

Legacy(d) == d.form = "legacy"
Idle      == [pc |-> "idle", base |-> None, deferred |-> FALSE, edits |-> FALSE]

At(p, s)   == proc[p].pc = s
Goes(p, s) == proc' = [proc EXCEPT ![p].pc = s]
Ends(p)    == proc' = [proc EXCEPT ![p] = Idle]
Kind(p)    == setting.kind[p]
Bounded(what) == count[what] < setting[what] /\ count' = [count EXCEPT ![what] = @ + 1]
Unlocks(p) == lock' = IF lock = p THEN None ELSE lock
Disks      == <<doc, disk, backup, kept, torn>>

-------------------------------------------------------------------------------
(* load, migrateLegacyConfig *)

\* The document is read without a lock.
Start(p) ==
  /\ At(p, "idle")
  /\ proc' = [proc EXCEPT ![p] =
                [Idle EXCEPT !.base = doc,
                             !.deferred = Legacy(doc) /\ Kind(p) = "layered",
                             !.pc = IF Legacy(doc) /\ Kind(p) # "layered" THEN "lock"
                                    ELSE "loaded"]]
  /\ UNCHANGED <<setting, lock, count>> /\ UNCHANGED Disks

\* acquireLegacyMigrationWriteLock
Lock(p) ==
  /\ At(p, "lock") /\ lock = None
  /\ lock' = p
  /\ Goes(p, "reread")
  /\ UNCHANGED <<setting, count>> /\ UNCHANGED Disks

\* Mutant: the lock is released on the way out of a write only.
DefersLocked(p) ==
  /\ proc' = [proc EXCEPT ![p].pc = "loaded", ![p].deferred = TRUE]
  /\ UNCHANGED lock

\* The migration stays in memory.
Defers(p) ==
  /\ proc' = [proc EXCEPT ![p].pc = "loaded", ![p].deferred = TRUE]
  /\ Unlocks(p)

LockTimesOut(p) ==
  /\ At(p, "lock") /\ lock # None
  /\ Defers(p)
  /\ UNCHANGED <<setting, count>> /\ UNCHANGED Disks

\* Another process may have migrated the document in the meantime.
Reread(p) ==
  /\ At(p, "reread")
  /\ CASE Kind(p) = "single" /\ doc # proc[p].base -> Ends(p) /\ Unlocks(p)
       [] (Kind(p) = "single" => doc = proc[p].base) /\ Legacy(doc) ->
            proc' = [proc EXCEPT ![p].pc = "collect", ![p].base = doc] /\ UNCHANGED lock
       [] OTHER -> Goes(p, "reload") /\ Unlocks(p)
  /\ UNCHANGED <<setting, count>> /\ UNCHANGED Disks

\* collectLegacySecrets
Collect(p) ==
  /\ At(p, "collect")
  /\ Goes(p, "backup")
  /\ UNCHANGED <<setting, lock, count>> /\ UNCHANGED Disks

\* A credential cannot be read, or credential storage is switched off; or a
\* reference is not valid or not one of this document's to follow, and the load
\* fails.
CollectFails(p) ==
  /\ At(p, "collect") /\ Bounded("faults")
  /\ Defers(p) \/ (Ends(p) /\ Unlocks(p))
  /\ UNCHANGED setting /\ UNCHANGED Disks

-------------------------------------------------------------------------------
(* writeLegacyBackup *)

\* Mutant: any complete backup will do.
AnyBackup(p) == backup.state = "complete"

\* Mutant: a backup that exists already is a failure.
NoBackup(p) == FALSE

\* validateExistingLegacyBackup
BackupServes(p) == backup = Complete(proc[p].base.from)

UseBackup(p) ==
  /\ At(p, "backup") /\ backup # Absent
  /\ IF BackupServes(p) THEN Goes(p, "check") /\ UNCHANGED lock ELSE Defers(p)
  /\ UNCHANGED <<setting, count>> /\ UNCHANGED Disks

CreateBackup(p) ==
  /\ At(p, "backup") /\ backup = Absent
  /\ backup' = Partial /\ kept' = kept \cup {Partial}
  /\ Goes(p, "filling")
  /\ UNCHANGED <<setting, doc, disk, lock, count, torn>>

\* Written, but synced neither itself nor in its directory.
FillBackup(p) ==
  /\ At(p, "filling")
  /\ backup' = Complete(proc[p].base.from) /\ kept' = kept \cup {backup'}
  /\ Goes(p, "filled")
  /\ UNCHANGED <<setting, doc, disk, lock, count, torn>>

SyncBackup(p) ==
  /\ At(p, "filled")
  /\ kept' = kept \ {Partial}
  /\ Goes(p, "synced")
  /\ UNCHANGED <<setting, doc, disk, backup, lock, count, torn>>

SyncBackupEntry(p) ==
  /\ At(p, "synced")
  /\ kept' = {backup}
  /\ Goes(p, "check")
  /\ UNCHANGED <<setting, doc, disk, backup, lock, count, torn>>

\* Mutant: a backup that does not serve is removed with the others.
Removable(p) == At(p, "backup") \/ At(p, "filling") \/ At(p, "filled") \/ At(p, "synced")

Incomplete(p) == At(p, "filling") \/ At(p, "filled") \/ At(p, "synced")

\* The removal is not synced.
RemovesBackup == backup' = Absent /\ kept' = kept \cup {Absent}

\* The removal fails too, which nobody is told.
LeavesBackup == UNCHANGED <<backup, kept>> /\ torn' = TRUE

BackupFails(p) ==
  /\ Bounded("faults")
  /\ \/ Incomplete(p) /\ RemovesBackup /\ UNCHANGED torn
     \/ Incomplete(p) /\ LeavesBackup
     \/ At(p, "backup") /\ ~Incomplete(p) /\ UNCHANGED <<backup, kept, torn>>
  /\ Defers(p)
  /\ UNCHANGED <<setting, doc, disk>>

-------------------------------------------------------------------------------
(* writeConfig, of the migration and of the command *)

\* validateConfigWriteSnapshot
Check(p) ==
  /\ At(p, "check")
  /\ CASE doc = proc[p].base                    -> Goes(p, "rename") /\ UNCHANGED lock
       [] doc # proc[p].base /\ proc[p].edits    -> Ends(p) /\ Unlocks(p)
       [] OTHER                                 -> Defers(p)
  /\ UNCHANGED <<setting, count>> /\ UNCHANGED Disks

\* What has been saved without the lock since the check is overwritten.
Replace(p) ==
  /\ At(p, "rename")
  /\ doc' = [rev |-> doc.rev + 1, form |-> "current", from |-> proc[p].base.from]
  /\ disk' = disk \cup {doc'}
  /\ proc' = [proc EXCEPT ![p].pc = "sync", ![p].base = doc']
  /\ UNCHANGED <<setting, backup, kept, lock, count, torn>>

\* Staging or renaming fails.
ReplaceFails(p) ==
  /\ At(p, "rename") /\ Bounded("faults")
  /\ IF proc[p].edits THEN Ends(p) /\ Unlocks(p) ELSE Defers(p)
  /\ UNCHANGED setting /\ UNCHANGED Disks

\* The directory is synced; if that fails the document counts as migrated all
\* the same.
SyncEnds(p, ok) ==
  /\ At(p, "sync")
  /\ IF ok THEN UNCHANGED count ELSE Bounded("faults")
  /\ disk' = IF ok /\ doc = proc[p].base THEN {doc} ELSE disk
  /\ IF proc[p].edits THEN Ends(p) ELSE Goes(p, "reload")
  /\ Unlocks(p)
  /\ UNCHANGED <<setting, doc, backup, kept, torn>>

\* The document is read once more, without the lock, and decoded strictly.
Reload(p) ==
  /\ At(p, "reload")
  /\ IF Legacy(doc) THEN Ends(p)
     ELSE proc' = [proc EXCEPT ![p].pc = "loaded", ![p].base = doc]
  /\ UNCHANGED <<setting, lock, count>> /\ UNCHANGED Disks

\* What is migrated in memory only cannot be written.
MayWrite(p) == ~proc[p].deferred

\* The command only reads, or its write is refused or cannot get the lock.
Finish(p) ==
  /\ At(p, "loaded")
  /\ Ends(p)
  /\ UNCHANGED <<setting, lock, count>> /\ UNCHANGED Disks

\* The command changes the document.
Edit(p) ==
  /\ At(p, "loaded") /\ MayWrite(p) /\ lock = None
  /\ Bounded("edits")
  /\ lock' = p
  /\ proc' = [proc EXCEPT ![p].pc = "check", ![p].edits = TRUE]
  /\ UNCHANGED setting /\ UNCHANGED Disks

-------------------------------------------------------------------------------
(* What is not in the hands of these processes *)

\* An older gcx saves what it knows as a legacy document.
OldSave ==
  /\ Bounded("saves")
  /\ doc' = [rev |-> doc.rev + 1, form |-> "legacy", from |-> doc.rev + 1]
  /\ disk' = disk \cup {doc'}
  /\ UNCHANGED <<setting, backup, kept, lock, proc, torn>>

Die(p) ==
  /\ ~At(p, "idle") /\ Bounded("deaths")
  /\ torn' = (torn \/ Incomplete(p))
  /\ Ends(p) /\ Unlocks(p)
  /\ UNCHANGED <<setting, doc, disk, backup, kept>>

PowerLoss ==
  /\ Bounded("losses")
  /\ doc' \in disk /\ disk' = {doc'}
  /\ backup' \in kept /\ kept' = {backup'}
  /\ proc' = [p \in Procs |-> Idle] /\ lock' = None
  /\ UNCHANGED <<setting, torn>>

-------------------------------------------------------------------------------

Init ==
  /\ setting \in Settings
  /\ doc = [rev |-> 1, form |-> "legacy", from |-> 1] /\ disk = {doc}
  /\ backup = Absent /\ kept = {Absent}
  /\ lock = None
  /\ proc = [p \in Procs |-> Idle]
  /\ count = [saves |-> 0, edits |-> 0, faults |-> 0, deaths |-> 0, losses |-> 0]
  /\ torn = FALSE

Step(p) ==
  \/ Start(p) \/ Lock(p) \/ LockTimesOut(p) \/ Reread(p)
  \/ Collect(p) \/ CollectFails(p)
  \/ UseBackup(p) \/ CreateBackup(p) \/ FillBackup(p) \/ SyncBackup(p)
  \/ SyncBackupEntry(p) \/ BackupFails(p)
  \/ Check(p) \/ Replace(p) \/ ReplaceFails(p) \/ SyncEnds(p, TRUE) \/ SyncEnds(p, FALSE)
  \/ Reload(p) \/ Finish(p) \/ Edit(p)

Next ==
  \/ \E p \in Procs : Step(p) \/ Die(p)
  \/ OldSave \/ PowerLoss

Spec == Init /\ [][Next]_vars

\* gcx is run again and again, and each process goes on.
FairSpec == Spec /\ \A p \in Procs : WF_vars(Step(p))

-------------------------------------------------------------------------------
(* Properties *)

\* What is done under the write lock.
Locked(p) == proc[p].pc \in {"reread", "collect", "backup", "filling", "filled", "synced",
                             "check", "rename", "sync"}

\* The types of the variables; the lock is held for as long as it protects
\* something, and no longer.
TypeOK ==
  /\ \A p \in Procs : Locked(p) <=> lock = p
  /\ doc \in Documents /\ disk \subseteq Documents /\ doc \in disk
  /\ backup \in Backups /\ kept \subseteq Backups /\ backup \in kept
  /\ lock \in Procs \cup {None}
  /\ proc \in [Procs -> [pc : {"idle", "lock", "reread", "collect", "backup", "filling", "filled",
                               "synced", "check", "rename", "sync", "reload", "loaded"},
                         base : Documents \cup {None}, deferred : BOOLEAN, edits : BOOLEAN]]
  /\ count \in [{"saves", "edits", "faults", "deaths", "losses"} -> Nat]
  /\ torn \in BOOLEAN

RestoredBy(d, b) == Legacy(d) \/ b = Complete(d.from)

\* "the legacy file is replaced atomically only after a write-once backup
\* exists": for every document that can be found, also after a power loss, the
\* legacy document it descends from is in the backup that is found with it.
\* One case is excepted: a process died between writing its backup and
\* syncing it, or could not sync it and not remove it either; the next one
\* finds the backup complete and does not sync it again, and then power is
\* lost.
RollbackSafe ==
  /\ ~(torn /\ count.losses > 0) => RestoredBy(doc, backup)
  /\ ~torn => \A d \in disk, b \in kept : RestoredBy(d, b)

\* "an existing backup is never overwritten": from the moment a backup is
\* safely on the disk, nothing that gcx or an older gcx does changes it.
BackupIsWriteOnce ==
  [][backup.state = "complete" /\ kept = {backup} => backup' = backup /\ kept' = kept]_vars

\* "gcx will try again on each invocation until it succeeds": what fails, and
\* what a process that dies leaves undone, does not stop the next invocation.
\* Excepted is what may leave a backup that does not serve, after which every
\* migration stays in memory: a process died over its backup, or could neither
\* complete nor remove it; a power loss; a save by an older gcx.
EventuallyMigrated ==
  setting.losses + setting.saves = 0 /\ (\E p \in Procs : Kind(p) # "layered") =>
    ([]~torn => <>[](doc.form = "current"))

===============================================================================
