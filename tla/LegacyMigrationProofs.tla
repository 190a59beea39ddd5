------------------------ MODULE LegacyMigrationProofs -------------------------
(***************************************************************************)
(* That the legacy document can be restored, and that its backup stays,    *)
(* for every number of processes, of failures, of deaths and of saves.     *)
(***************************************************************************)
EXTENDS LegacyMigration, TLAPS

Commands ==
  [pc : {"idle", "lock", "reread", "collect", "backup", "filling", "filled", "synced",
         "check", "rename", "sync", "reload", "loaded"},
   base : Documents \cup {None}, deferred : BOOLEAN, edits : BOOLEAN]

\* No backup that was left behind has met a power loss.
Whole == ~(torn /\ count.losses > 0)

\* What a process has loaded.
BaseOK(p) ==
  /\ ~At(p, "idle") => proc[p].base \in Documents
  /\ At(p, "loaded") /\ ~proc[p].deferred => ~Legacy(proc[p].base)
  /\ proc[p].edits => /\ ~Legacy(proc[p].base)
                      /\ At(p, "check") \/ At(p, "rename") \/ At(p, "sync")

\* While a backup is being made there is nothing that needs one.
MakingOK(p) ==
  Incomplete(p) => /\ Absent \in kept
                   /\ Whole => Legacy(doc)
                   /\ ~torn => \A d \in disk : Legacy(d)
                   /\ ~At(p, "filling") => backup = Complete(proc[p].base.from)

\* What is about to be replaced has its backup.
ReadyOK(p) ==
  At(p, "rename") \/ (At(p, "check") /\ ~proc[p].edits) =>
    /\ Whole => backup = Complete(proc[p].base.from)
    /\ ~torn => kept = {Complete(proc[p].base.from)}

\* A complete backup is synced, unless it is just being made.
Settled ==
  ~torn /\ backup.state = "complete" /\ (\A p \in Procs : ~Incomplete(p)) => kept = {backup}

\* The inductive invariant.
IInv ==
  /\ TypeOK
  /\ RollbackSafe
  /\ Settled
  /\ \A p \in Procs : BaseOK(p) /\ MakingOK(p) /\ ReadyOK(p)

-------------------------------------------------------------------------------

LEMMA InitInv == Init => IInv
  <1> SUFFICES ASSUME Init
               PROVE  IInv
    OBVIOUS
  <1>1. doc \in Documents /\ Legacy(doc) /\ disk = {doc}
    BY DEF Init, Documents, Legacy
  <1>2. Absent \in Backups /\ backup = Absent /\ kept = {Absent}
    BY DEF Init, Backups, Absent
  <1>3. \A p \in Procs : At(p, "idle") /\ ~Incomplete(p) /\ ~proc[p].edits
    BY DEF Init, At, Incomplete, Idle
  <1>4. TypeOK
    <2>1. \A p \in Procs : ~Locked(p) /\ lock # p
      BY <1>3, MigrationConstantsOK DEF Init, Locked, At
    <2>2. count \in [{"saves", "edits", "faults", "deaths", "losses"} -> Nat]
      BY DEF Init
    <2>3. torn \in BOOLEAN /\ lock \in Procs \cup {None}
      BY DEF Init
    <2>4. Idle \in [pc : {"idle"}, base : {None}, deferred : {FALSE}, edits : {FALSE}]
      BY DEF Idle
    <2> QED
      BY <1>1, <1>2, <2>1, <2>2, <2>3, <2>4 DEF Init, TypeOK
  <1>5. RollbackSafe
    BY <1>1 DEF RollbackSafe, RestoredBy
  <1>6. Settled
    BY <1>2 DEF Settled
  <1>7. ASSUME NEW p \in Procs
        PROVE  BaseOK(p) /\ MakingOK(p) /\ ReadyOK(p)
    BY <1>3, <1>7 DEF BaseOK, MakingOK, ReadyOK, At
  <1> QED
    BY <1>4, <1>5, <1>6, <1>7 DEF IInv

(* What a step of one process leaves of the others *)

LEMMA LockOfOne == ASSUME TypeOK, NEW p \in Procs,
                          \A q \in Procs \ {p} : proc'[q] = proc[q],
                          Locked(p)' <=> lock' = p,
                          lock' = lock \/ (lock = None /\ lock' = p) \/ (lock = p /\ lock' = None)
                   PROVE  /\ \A q \in Procs : Locked(q)' <=> lock' = q
                          /\ lock' \in Procs \cup {None}
  <1> SUFFICES ASSUME NEW q \in Procs, q # p
               PROVE  Locked(q)' <=> lock' = q
    BY DEF TypeOK
  <1>1. Locked(q)' <=> Locked(q)
    BY DEF Locked
  <1> QED
    BY <1>1, MigrationConstantsOK DEF TypeOK

\* A step that changes neither the document nor the backup.
Quiet(p) ==
  /\ UNCHANGED Disks
  /\ count' \in [{"saves", "edits", "faults", "deaths", "losses"} -> Nat]
  /\ count'.losses = count.losses
  /\ proc' = [proc EXCEPT ![p] = proc'[p]] /\ proc'[p] \in Commands
  /\ Locked(p)' <=> lock' = p
  /\ lock' = lock \/ (lock = None /\ lock' = p) \/ (lock = p /\ lock' = None)
  /\ ~Incomplete(p) /\ ~Incomplete(p)'

LEMMA QuietInv == ASSUME IInv, NEW p \in Procs, Quiet(p), BaseOK(p)', ReadyOK(p)'
                  PROVE  IInv'
  <1>1. \A q \in Procs \ {p} : proc'[q] = proc[q]
    BY DEF Quiet, IInv, TypeOK
  <1>2. TypeOK'
    <2>1. proc' \in [Procs -> Commands]
      BY DEF Quiet, IInv, TypeOK, Commands
    <2> QED
      BY <1>1, <2>1, LockOfOne DEF Quiet, IInv, TypeOK, Disks, Commands
  <1>3. RollbackSafe'
    BY DEF Quiet, IInv, RollbackSafe, RestoredBy, Legacy, Complete, Disks
  <1>4. Settled'
    <2>1. \A q \in Procs : Incomplete(q)' <=> Incomplete(q)
      BY <1>1 DEF Quiet, Incomplete, At
    <2> QED
      BY <2>1 DEF Quiet, IInv, Settled, Disks
  <1>5. ASSUME NEW q \in Procs \ {p}
        PROVE  BaseOK(q)' /\ MakingOK(q)' /\ ReadyOK(q)'
    BY <1>1, <1>5 DEF Quiet, IInv, BaseOK, MakingOK, ReadyOK, Whole, Incomplete, At, Legacy,
                      Complete, Absent, Disks
  <1> QED
    BY <1>2, <1>3, <1>4, <1>5 DEF Quiet, IInv, MakingOK

LEMMA IdleOK == Idle \in Commands /\ Idle.pc = "idle" /\ ~Idle.edits
  BY DEF Idle, Commands

LEMMA StartInv == ASSUME IInv, NEW p \in Procs, Start(p) PROVE IInv'
  <1>1. /\ proc' = [proc EXCEPT ![p] = proc'[p]]
        /\ proc'[p] \in Commands
    BY DEF Start, At, Idle, Legacy, Kind, IInv, TypeOK, Commands, BaseOK
  <1>2. /\ Locked(p)' <=> lock' = p
        /\ lock' = lock \/ (lock = None /\ lock' = p) \/ (lock = p /\ lock' = None)
        /\ ~Incomplete(p) /\ ~Incomplete(p)'
    BY MigrationConstantsOK
    DEF Start, At, Idle, Legacy, Kind, IInv, TypeOK, Locked, Incomplete, Commands
  <1>3. Quiet(p)
    BY <1>1, <1>2 DEF Start, IInv, TypeOK, Quiet
  <1>4. BaseOK(p)'
    BY DEF Start, At, Idle, Legacy, Kind, IInv, TypeOK, Commands, BaseOK
  <1>5. ReadyOK(p)'
    BY DEF Start, At, Idle, Legacy, Kind, IInv, TypeOK, Commands, ReadyOK
  <1> QED
    BY <1>3, <1>4, <1>5, QuietInv

LEMMA LockInv == ASSUME IInv, NEW p \in Procs, Lock(p) PROVE IInv'
  <1>1. /\ proc' = [proc EXCEPT ![p] = proc'[p]]
        /\ proc'[p] \in Commands
    BY DEF Lock, At, Goes, IInv, TypeOK, Commands, BaseOK
  <1>2. /\ Locked(p)' <=> lock' = p
        /\ lock' = lock \/ (lock = None /\ lock' = p) \/ (lock = p /\ lock' = None)
        /\ ~Incomplete(p) /\ ~Incomplete(p)'
    BY MigrationConstantsOK DEF Lock, At, Goes, IInv, TypeOK, Locked, Incomplete, Commands
  <1>3. Quiet(p)
    BY <1>1, <1>2 DEF Lock, IInv, TypeOK, Quiet
  <1>4. BaseOK(p)'
    BY DEF Lock, At, Goes, IInv, TypeOK, Commands, BaseOK, Legacy
  <1>5. ReadyOK(p)'
    BY DEF Lock, At, Goes, IInv, TypeOK, Commands, ReadyOK
  <1> QED
    BY <1>3, <1>4, <1>5, QuietInv

LEMMA LockTimesOutInv == ASSUME IInv, NEW p \in Procs, LockTimesOut(p) PROVE IInv'
  <1>1. /\ proc' = [proc EXCEPT ![p] = proc'[p]]
        /\ proc'[p] \in Commands
    BY DEF LockTimesOut, At, Defers, Unlocks, IInv, TypeOK, Commands, BaseOK
  <1>2. /\ Locked(p)' <=> lock' = p
        /\ lock' = lock \/ (lock = None /\ lock' = p) \/ (lock = p /\ lock' = None)
        /\ ~Incomplete(p) /\ ~Incomplete(p)'
    BY MigrationConstantsOK
    DEF LockTimesOut, At, Defers, Unlocks, IInv, TypeOK, Locked, Incomplete, Commands
  <1>3. Quiet(p)
    BY <1>1, <1>2 DEF LockTimesOut, IInv, TypeOK, Quiet
  <1>4. BaseOK(p)'
    BY DEF LockTimesOut, At, Defers, Unlocks, IInv, TypeOK, Commands, BaseOK, Legacy
  <1>5. ReadyOK(p)'
    BY DEF LockTimesOut, At, Defers, Unlocks, IInv, TypeOK, Commands, ReadyOK
  <1> QED
    BY <1>3, <1>4, <1>5, QuietInv

LEMMA RereadInv == ASSUME IInv, NEW p \in Procs, Reread(p) PROVE IInv'
  <1>0. proc \in [Procs -> Commands] /\ doc \in Documents
    BY DEF IInv, TypeOK, Commands
  <1>1. /\ proc' = [proc EXCEPT ![p] = proc'[p]]
        /\ proc'[p] \in Commands
    <2>1. CASE Ends(p)
      BY <1>0, <2>1, IdleOK DEF Ends
    <2>2. CASE ~Ends(p)
      BY <1>0, <2>2 DEF Reread, At, Ends, Goes, Unlocks, Commands
    <2> QED
      BY <2>1, <2>2
  <1>2. /\ Locked(p)' <=> lock' = p
        /\ lock' = lock \/ (lock = None /\ lock' = p) \/ (lock = p /\ lock' = None)
        /\ ~Incomplete(p) /\ ~Incomplete(p)'
    BY MigrationConstantsOK
    DEF Reread, At, Ends, Goes, Unlocks, Idle, IInv, TypeOK, Locked, Incomplete, Commands
  <1>3. Quiet(p)
    BY <1>1, <1>2 DEF Reread, IInv, TypeOK, Quiet
  <1>4. BaseOK(p)'
    BY DEF Reread, At, Ends, Goes, Unlocks, Idle, IInv, TypeOK, Commands, BaseOK, Legacy
  <1>5. ReadyOK(p)'
    BY DEF Reread, At, Ends, Goes, Unlocks, Idle, IInv, TypeOK, Commands, ReadyOK
  <1> QED
    BY <1>3, <1>4, <1>5, QuietInv

LEMMA CollectInv == ASSUME IInv, NEW p \in Procs, Collect(p) PROVE IInv'
  <1>1. /\ proc' = [proc EXCEPT ![p] = proc'[p]]
        /\ proc'[p] \in Commands
    BY DEF Collect, At, Goes, IInv, TypeOK, Commands, BaseOK
  <1>2. /\ Locked(p)' <=> lock' = p
        /\ lock' = lock \/ (lock = None /\ lock' = p) \/ (lock = p /\ lock' = None)
        /\ ~Incomplete(p) /\ ~Incomplete(p)'
    BY MigrationConstantsOK DEF Collect, At, Goes, IInv, TypeOK, Locked, Incomplete, Commands
  <1>3. Quiet(p)
    BY <1>1, <1>2 DEF Collect, IInv, TypeOK, Quiet
  <1>4. BaseOK(p)'
    BY DEF Collect, At, Goes, IInv, TypeOK, Commands, BaseOK, Legacy
  <1>5. ReadyOK(p)'
    BY DEF Collect, At, Goes, IInv, TypeOK, Commands, ReadyOK
  <1> QED
    BY <1>3, <1>4, <1>5, QuietInv

LEMMA CollectFailsInv == ASSUME IInv, NEW p \in Procs, CollectFails(p) PROVE IInv'
  <1>0. proc \in [Procs -> Commands] /\ doc \in Documents
    BY DEF IInv, TypeOK, Commands
  <1>1. /\ proc' = [proc EXCEPT ![p] = proc'[p]]
        /\ proc'[p] \in Commands
    <2>1. CASE Ends(p)
      BY <1>0, <2>1, IdleOK DEF Ends
    <2>2. CASE ~Ends(p)
      BY <1>0, <2>2 DEF CollectFails, At, Bounded, Ends, Defers, Unlocks, Commands
    <2> QED
      BY <2>1, <2>2
  <1>2. /\ Locked(p)' <=> lock' = p
        /\ lock' = lock \/ (lock = None /\ lock' = p) \/ (lock = p /\ lock' = None)
        /\ ~Incomplete(p) /\ ~Incomplete(p)'
    BY MigrationConstantsOK
    DEF CollectFails, At, Bounded, Ends, Defers, Unlocks, Idle, IInv, TypeOK, Locked, Incomplete,
        Commands
  <1>3. Quiet(p)
    BY <1>1, <1>2 DEF CollectFails, Bounded, Disks, IInv, TypeOK, Quiet
  <1>4. BaseOK(p)'
    BY DEF CollectFails, At, Bounded, Ends, Defers, Unlocks, Idle, IInv, TypeOK, Commands, BaseOK,
           Legacy
  <1>5. ReadyOK(p)'
    BY DEF CollectFails, At, Bounded, Ends, Defers, Unlocks, Idle, IInv, TypeOK, Commands, ReadyOK
  <1> QED
    BY <1>3, <1>4, <1>5, QuietInv

LEMMA UseBackupInv == ASSUME IInv, NEW p \in Procs, UseBackup(p) PROVE IInv'
  <1>1. /\ proc' = [proc EXCEPT ![p] = proc'[p]]
        /\ proc'[p] \in Commands
    BY DEF UseBackup, At, Goes, Defers, Unlocks, IInv, TypeOK, Commands, BaseOK
  <1>2. /\ Locked(p)' <=> lock' = p
        /\ lock' = lock \/ (lock = None /\ lock' = p) \/ (lock = p /\ lock' = None)
        /\ ~Incomplete(p) /\ ~Incomplete(p)'
    BY MigrationConstantsOK
    DEF UseBackup, At, Goes, Defers, Unlocks, IInv, TypeOK, Locked, Incomplete, Commands
  <1>3. Quiet(p)
    BY <1>1, <1>2 DEF UseBackup, IInv, TypeOK, Quiet
  <1>4. BaseOK(p)'
    BY DEF UseBackup, At, Goes, Defers, Unlocks, IInv, TypeOK, Commands, BaseOK, Legacy
  <1>5. ReadyOK(p)'
    <2>1. CASE BackupServes(p)
      <3>1. \A q \in Procs : ~Incomplete(q)
        BY MigrationConstantsOK DEF UseBackup, At, Incomplete, IInv, TypeOK, Locked
      <3>2. backup.state = "complete"
        BY <2>1 DEF BackupServes, Complete
      <3>3. ~torn => kept = {backup}
        BY <3>1, <3>2 DEF IInv, Settled
      <3> QED
        BY <2>1, <3>3 DEF BackupServes, Complete, UseBackup, Goes, At, Disks, IInv, TypeOK,
                          Commands, ReadyOK
    <2>2. CASE ~BackupServes(p)
      BY <2>2 DEF UseBackup, Defers, At, IInv, TypeOK, Commands, ReadyOK
    <2> QED
      BY <2>1, <2>2
  <1> QED
    BY <1>3, <1>4, <1>5, QuietInv

LEMMA CheckInv == ASSUME IInv, NEW p \in Procs, Check(p) PROVE IInv'
  <1>0. proc \in [Procs -> Commands] /\ doc \in Documents
    BY DEF IInv, TypeOK, Commands
  <1>1. /\ proc' = [proc EXCEPT ![p] = proc'[p]]
        /\ proc'[p] \in Commands
    <2>1. CASE Ends(p)
      BY <1>0, <2>1, IdleOK DEF Ends
    <2>2. CASE ~Ends(p)
      BY <1>0, <2>2 DEF Check, At, Goes, Ends, Defers, Unlocks, Commands
    <2> QED
      BY <2>1, <2>2
  <1>2. /\ Locked(p)' <=> lock' = p
        /\ lock' = lock \/ (lock = None /\ lock' = p) \/ (lock = p /\ lock' = None)
        /\ ~Incomplete(p) /\ ~Incomplete(p)'
    BY MigrationConstantsOK
    DEF Check, At, Goes, Ends, Defers, Unlocks, Idle, IInv, TypeOK, Locked, Incomplete, Commands
  <1>3. Quiet(p)
    BY <1>1, <1>2 DEF Check, IInv, TypeOK, Quiet
  <1>4. BaseOK(p)'
    BY DEF Check, At, Goes, Ends, Defers, Unlocks, Idle, IInv, TypeOK, Commands, BaseOK, Legacy
  <1>5. ReadyOK(p)'
    <2>1. CASE doc = proc[p].base
      <3>1. proc'[p].base = proc[p].base /\ proc'[p].edits = proc[p].edits /\ At(p, "check")
        BY <2>1, <1>0 DEF Check, Goes, Commands, At
      <3>2. CASE proc[p].edits
        <4>1. ~Legacy(doc) /\ doc \in disk /\ backup \in kept
          BY <2>1, <3>2 DEF IInv, TypeOK, BaseOK
        <4>2. Whole => backup = Complete(doc.from)
          BY <4>1 DEF Whole, IInv, RollbackSafe, RestoredBy
        <4>3. ~torn => kept = {Complete(doc.from)}
          BY <4>1 DEF IInv, RollbackSafe, RestoredBy
        <4> QED
          BY <2>1, <3>1, <4>2, <4>3 DEF Check, Disks, ReadyOK, Whole, Complete
      <3>3. CASE ~proc[p].edits
        BY <3>1, <3>3 DEF Check, Disks, IInv, ReadyOK, Whole, Complete
      <3> QED
        BY <3>2, <3>3
    <2>2. CASE doc # proc[p].base
      <3>1. proc'[p].pc \in {"idle", "loaded"}
        BY <1>0, <2>2, IdleOK DEF Check, Ends, Defers, Commands
      <3> QED
        BY <3>1 DEF ReadyOK, At
    <2> QED
      BY <2>1, <2>2
  <1> QED
    BY <1>3, <1>4, <1>5, QuietInv

LEMMA ReplaceFailsInv == ASSUME IInv, NEW p \in Procs, ReplaceFails(p) PROVE IInv'
  <1>0. proc \in [Procs -> Commands] /\ doc \in Documents
    BY DEF IInv, TypeOK, Commands
  <1>1. /\ proc' = [proc EXCEPT ![p] = proc'[p]]
        /\ proc'[p] \in Commands
    <2>1. CASE Ends(p)
      BY <1>0, <2>1, IdleOK DEF Ends
    <2>2. CASE ~Ends(p)
      BY <1>0, <2>2 DEF ReplaceFails, At, Bounded, Ends, Defers, Unlocks, Commands
    <2> QED
      BY <2>1, <2>2
  <1>2. /\ Locked(p)' <=> lock' = p
        /\ lock' = lock \/ (lock = None /\ lock' = p) \/ (lock = p /\ lock' = None)
        /\ ~Incomplete(p) /\ ~Incomplete(p)'
    BY MigrationConstantsOK
    DEF ReplaceFails, At, Bounded, Ends, Defers, Unlocks, Idle, IInv, TypeOK, Locked, Incomplete,
        Commands
  <1>3. Quiet(p)
    BY <1>1, <1>2 DEF ReplaceFails, Bounded, Disks, IInv, TypeOK, Quiet
  <1>4. BaseOK(p)'
    BY DEF ReplaceFails, At, Bounded, Ends, Defers, Unlocks, Idle, IInv, TypeOK, Commands, BaseOK,
           Legacy
  <1>5. ReadyOK(p)'
    BY DEF ReplaceFails, At, Bounded, Ends, Defers, Unlocks, Idle, IInv, TypeOK, Commands, ReadyOK
  <1> QED
    BY <1>3, <1>4, <1>5, QuietInv

LEMMA ReloadInv == ASSUME IInv, NEW p \in Procs, Reload(p) PROVE IInv'
  <1>0. proc \in [Procs -> Commands] /\ doc \in Documents
    BY DEF IInv, TypeOK, Commands
  <1>1. /\ proc' = [proc EXCEPT ![p] = proc'[p]]
        /\ proc'[p] \in Commands
    <2>1. CASE Ends(p)
      BY <1>0, <2>1, IdleOK DEF Ends
    <2>2. CASE ~Ends(p)
      BY <1>0, <2>2 DEF Reload, At, Ends, Goes, Commands
    <2> QED
      BY <2>1, <2>2
  <1>2. /\ Locked(p)' <=> lock' = p
        /\ lock' = lock \/ (lock = None /\ lock' = p) \/ (lock = p /\ lock' = None)
        /\ ~Incomplete(p) /\ ~Incomplete(p)'
    BY MigrationConstantsOK
    DEF Reload, At, Ends, Goes, Idle, IInv, TypeOK, Locked, Incomplete, Commands
  <1>3. Quiet(p)
    BY <1>1, <1>2 DEF Reload, IInv, TypeOK, Quiet
  <1>4. BaseOK(p)'
    BY DEF Reload, At, Ends, Goes, Idle, IInv, TypeOK, Commands, BaseOK, Legacy
  <1>5. ReadyOK(p)'
    BY DEF Reload, At, Ends, Goes, Idle, IInv, TypeOK, Commands, ReadyOK
  <1> QED
    BY <1>3, <1>4, <1>5, QuietInv

LEMMA FinishInv == ASSUME IInv, NEW p \in Procs, Finish(p) PROVE IInv'
  <1>1. /\ proc' = [proc EXCEPT ![p] = proc'[p]]
        /\ proc'[p] \in Commands
    BY DEF Finish, At, Ends, Idle, IInv, TypeOK, Commands, BaseOK
  <1>2. /\ Locked(p)' <=> lock' = p
        /\ lock' = lock \/ (lock = None /\ lock' = p) \/ (lock = p /\ lock' = None)
        /\ ~Incomplete(p) /\ ~Incomplete(p)'
    BY MigrationConstantsOK DEF Finish, At, Ends, Idle, IInv, TypeOK, Locked, Incomplete, Commands
  <1>3. Quiet(p)
    BY <1>1, <1>2 DEF Finish, IInv, TypeOK, Quiet
  <1>4. BaseOK(p)'
    BY DEF Finish, At, Ends, Idle, IInv, TypeOK, Commands, BaseOK, Legacy
  <1>5. ReadyOK(p)'
    BY DEF Finish, At, Ends, Idle, IInv, TypeOK, Commands, ReadyOK
  <1> QED
    BY <1>3, <1>4, <1>5, QuietInv

LEMMA EditInv == ASSUME IInv, NEW p \in Procs, Edit(p) PROVE IInv'
  <1>1. /\ proc' = [proc EXCEPT ![p] = proc'[p]]
        /\ proc'[p] \in Commands
    BY DEF Edit, At, Bounded, MayWrite, IInv, TypeOK, Commands, BaseOK
  <1>2. /\ Locked(p)' <=> lock' = p
        /\ lock' = lock \/ (lock = None /\ lock' = p) \/ (lock = p /\ lock' = None)
        /\ ~Incomplete(p) /\ ~Incomplete(p)'
    BY MigrationConstantsOK
    DEF Edit, At, Bounded, MayWrite, IInv, TypeOK, Locked, Incomplete, Commands
  <1>3. Quiet(p)
    BY <1>1, <1>2 DEF Edit, Bounded, Disks, IInv, TypeOK, Quiet
  <1>4. BaseOK(p)'
    BY DEF Edit, At, Bounded, MayWrite, IInv, TypeOK, Commands, BaseOK, Legacy
  <1>5. ReadyOK(p)'
    BY DEF Edit, At, Bounded, MayWrite, IInv, TypeOK, Commands, ReadyOK
  <1> QED
    BY <1>3, <1>4, <1>5, QuietInv

-------------------------------------------------------------------------------
(* The steps that make the backup: they are taken under the lock, so that no   *)
(* other process makes or uses one.                                            *)

\* The step of a process that has the lock.
Holding(p, pc) ==
  /\ proc' = [proc EXCEPT ![p].pc = pc] /\ lock' = lock /\ count' = count /\ torn' = torn
  /\ doc' = doc /\ disk' = disk
  /\ proc[p].pc \in {"backup", "filling", "filled", "synced"}

LEMMA HoldingTypes ==
  ASSUME IInv, NEW p \in Procs,
         NEW pc \in {"filling", "filled", "synced", "check"}, Holding(p, pc),
         backup' \in kept', kept' \subseteq Backups
  PROVE  /\ TypeOK'
         /\ \A q \in Procs \ {p} : proc'[q] = proc[q] /\ ~Locked(q)
         /\ proc'[p] = [proc[p] EXCEPT !.pc = pc]
         /\ BaseOK(p)' /\ ~proc[p].edits /\ proc[p].base \in Documents
  <1>1. proc \in [Procs -> Commands]
    BY DEF IInv, TypeOK, Commands
  <1>2. /\ \A q \in Procs \ {p} : proc'[q] = proc[q]
        /\ proc'[p] = [proc[p] EXCEPT !.pc = pc]
    BY <1>1 DEF Holding
  <1>3. Locked(p) /\ lock = p
    BY DEF Holding, Locked, IInv, TypeOK
  <1>4. \A q \in Procs \ {p} : ~Locked(q)
    BY <1>3 DEF IInv, TypeOK
  <1>5. Locked(p)'
    BY <1>1, <1>2 DEF Locked, Commands
  <1>6. ~proc[p].edits /\ proc[p].base \in Documents
    BY DEF Holding, IInv, BaseOK, At
  <1>7. BaseOK(p)'
    BY <1>1, <1>2, <1>6 DEF BaseOK, At, Commands
  <1>8. TypeOK'
    <2>1. proc' \in [Procs -> Commands]
      BY <1>1 DEF Holding, Commands
    <2>2. /\ \A q \in Procs : Locked(q)' <=> lock' = q
          /\ lock' \in Procs \cup {None}
      BY <1>2, <1>3, <1>5, LockOfOne DEF Holding, IInv
    <2> QED
      BY <2>1, <2>2 DEF Holding, IInv, TypeOK, Commands
  <1> QED
    BY <1>2, <1>4, <1>6, <1>7, <1>8

\* The others make nothing and replace nothing.
LEMMA OthersWait ==
  ASSUME IInv, NEW p \in Procs, NEW q \in Procs, ~Locked(q), proc'[q] = proc[q]
  PROVE  BaseOK(q)' /\ MakingOK(q)' /\ ReadyOK(q)' /\ ~Incomplete(q)'
  BY DEF IInv, BaseOK, MakingOK, ReadyOK, Incomplete, Locked, At, Legacy

LEMMA CreateBackupInv == ASSUME IInv, NEW p \in Procs, CreateBackup(p) PROVE IInv'
  <1>0. doc \in disk /\ Absent \in kept /\ kept' = kept \cup {Partial} /\ backup' = Partial
        /\ Holding(p, "filling") /\ kept \subseteq Backups /\ Partial \in Backups
    BY DEF CreateBackup, IInv, TypeOK, Goes, Holding, At, Backups, Partial
  <1>1. /\ TypeOK'
        /\ \A q \in Procs \ {p} : proc'[q] = proc[q] /\ ~Locked(q)
        /\ proc'[p] = [proc[p] EXCEPT !.pc = "filling"]
        /\ BaseOK(p)'
    BY <1>0, HoldingTypes
  <1>2. /\ Whole => Legacy(doc)
        /\ ~torn => \A d \in disk : Legacy(d)
    BY <1>0 DEF CreateBackup, IInv, RollbackSafe, RestoredBy, Whole, Absent, Complete
  <1>3. RollbackSafe'
    BY <1>0, <1>2 DEF Holding, RollbackSafe, RestoredBy, Whole, Legacy
  <1>4. Settled'
    BY <1>0 DEF Settled, Partial
  <1>5. At(p, "filling")'
    BY <1>1 DEF At, IInv, TypeOK, Commands
  <1>6. MakingOK(p)' /\ ReadyOK(p)'
    BY <1>0, <1>2, <1>5 DEF Holding, MakingOK, ReadyOK, Whole, Legacy, Absent, At
  <1> QED
    BY <1>1, <1>3, <1>4, <1>6, OthersWait DEF IInv

LEMMA FillBackupInv == ASSUME IInv, NEW p \in Procs, FillBackup(p) PROVE IInv'
  <1>0. /\ Absent \in kept /\ kept' = kept \cup {backup'} /\ kept \subseteq Backups
        /\ backup' = Complete(proc[p].base.from) /\ Holding(p, "filled")
        /\ Whole => Legacy(doc)
        /\ ~torn => \A d \in disk : Legacy(d)
    BY DEF FillBackup, IInv, TypeOK, Goes, Holding, At, MakingOK, Incomplete
  <1>1. backup' \in Backups
    BY <1>0 DEF Complete, Backups, Documents, Holding, IInv, BaseOK, At
  <1>2. /\ TypeOK'
        /\ \A q \in Procs \ {p} : proc'[q] = proc[q] /\ ~Locked(q)
        /\ proc'[p] = [proc[p] EXCEPT !.pc = "filled"]
        /\ BaseOK(p)'
    BY <1>0, <1>1, HoldingTypes
  <1>3. RollbackSafe'
    BY <1>0 DEF Holding, RollbackSafe, RestoredBy, Whole, Legacy
  <1>4. At(p, "filled")' /\ proc'[p].base = proc[p].base
    BY <1>2 DEF At, IInv, TypeOK, Commands
  <1>5. Settled'
    BY <1>4 DEF Settled, Incomplete
  <1>6. MakingOK(p)' /\ ReadyOK(p)'
    BY <1>0, <1>4 DEF Holding, MakingOK, ReadyOK, Whole, Legacy, Absent, Complete, At
  <1> QED
    BY <1>2, <1>3, <1>5, <1>6, OthersWait DEF IInv

LEMMA SyncBackupInv == ASSUME IInv, NEW p \in Procs, SyncBackup(p) PROVE IInv'
  <1>0. /\ Absent \in kept /\ kept' = kept \ {Partial} /\ kept \subseteq Backups
        /\ backup' = backup /\ backup \in kept
        /\ backup = Complete(proc[p].base.from) /\ Holding(p, "synced")
        /\ Whole => Legacy(doc)
        /\ ~torn => \A d \in disk : Legacy(d)
    BY DEF SyncBackup, IInv, TypeOK, Goes, Holding, At, MakingOK, Incomplete
  <1>1. backup \in kept' /\ Absent \in kept'
    BY <1>0 DEF Complete, Partial, Absent
  <1>2. /\ TypeOK'
        /\ \A q \in Procs \ {p} : proc'[q] = proc[q] /\ ~Locked(q)
        /\ proc'[p] = [proc[p] EXCEPT !.pc = "synced"]
        /\ BaseOK(p)'
    BY <1>0, <1>1, HoldingTypes
  <1>3. RollbackSafe'
    BY <1>0 DEF Holding, RollbackSafe, RestoredBy, Whole, Legacy
  <1>4. At(p, "synced")' /\ proc'[p].base = proc[p].base
    BY <1>2 DEF At, IInv, TypeOK, Commands
  <1>5. Settled'
    BY <1>4 DEF Settled, Incomplete
  <1>6. MakingOK(p)' /\ ReadyOK(p)'
    BY <1>0, <1>1, <1>4 DEF Holding, MakingOK, ReadyOK, Whole, Legacy, Absent, Complete, At
  <1> QED
    BY <1>2, <1>3, <1>5, <1>6, OthersWait DEF IInv

LEMMA SyncBackupEntryInv == ASSUME IInv, NEW p \in Procs, SyncBackupEntry(p) PROVE IInv'
  <1>0. /\ kept' = {backup} /\ backup \in Backups /\ backup' = backup
        /\ backup = Complete(proc[p].base.from) /\ Holding(p, "check")
        /\ Whole => Legacy(doc)
        /\ ~torn => \A d \in disk : Legacy(d)
    BY DEF SyncBackupEntry, IInv, TypeOK, Goes, Holding, At, MakingOK, Incomplete
  <1>2. /\ TypeOK'
        /\ \A q \in Procs \ {p} : proc'[q] = proc[q] /\ ~Locked(q)
        /\ proc'[p] = [proc[p] EXCEPT !.pc = "check"]
        /\ BaseOK(p)'
    BY <1>0, HoldingTypes
  <1>3. RollbackSafe'
    BY <1>0 DEF Holding, RollbackSafe, RestoredBy, Whole, Legacy
  <1>4. At(p, "check")' /\ proc'[p].base = proc[p].base
    BY <1>2 DEF At, IInv, TypeOK, Commands
  <1>5. Settled'
    BY <1>0 DEF Settled
  <1>6. MakingOK(p)' /\ ReadyOK(p)'
    BY <1>0, <1>4 DEF MakingOK, ReadyOK, Incomplete, Complete, At
  <1> QED
    BY <1>2, <1>3, <1>5, <1>6, OthersWait DEF IInv

LEMMA BackupFailsInv == ASSUME IInv, NEW p \in Procs, BackupFails(p) PROVE IInv'
  <1>0. /\ proc \in [Procs -> Commands]
        /\ count' \in [{"saves", "edits", "faults", "deaths", "losses"} -> Nat]
        /\ count'.losses = count.losses
    BY DEF BackupFails, Bounded, IInv, TypeOK, Commands
  <1>1. /\ proc' = [proc EXCEPT ![p] = proc'[p]]
        /\ proc'[p] = [proc[p] EXCEPT !.pc = "loaded", !.deferred = TRUE]
        /\ \A q \in Procs \ {p} : proc'[q] = proc[q]
        /\ proc[p].pc \in {"backup", "filling", "filled", "synced"}
    BY <1>0 DEF BackupFails, Defers, Incomplete, At
  <1>2. Locked(p) /\ lock = p /\ lock' = None
    BY <1>1 DEF BackupFails, Defers, Unlocks, Locked, IInv, TypeOK
  <1>3. /\ proc'[p] \in Commands /\ At(p, "loaded")' /\ proc'[p].base = proc[p].base
        /\ proc'[p].deferred /\ proc'[p].edits = proc[p].edits
    BY <1>0, <1>1 DEF Commands, At
  <1>4. BaseOK(p)' /\ ReadyOK(p)' /\ MakingOK(p)' /\ ~Incomplete(p)'
    <2>1. ~proc[p].edits /\ proc[p].base \in Documents
      BY <1>1 DEF IInv, BaseOK, At
    <2> QED
      BY <1>3, <2>1 DEF BaseOK, ReadyOK, MakingOK, Incomplete, At
  <1>5. Locked(p)' <=> lock' = p
    BY <1>2, <1>3, MigrationConstantsOK DEF Locked, At
  <1>6. CASE Incomplete(p) /\ ((RemovesBackup /\ UNCHANGED torn) \/ LeavesBackup)
    <2>1. /\ kept' = kept /\ backup' \in {Absent, backup} /\ Absent \in kept
          /\ kept \subseteq Backups /\ backup \in kept
          /\ doc' = doc /\ disk' = disk
          /\ torn' \in BOOLEAN /\ (~torn' => ~torn /\ backup' = Absent)
          /\ Whole' => Whole
          /\ Whole => Legacy(doc)
          /\ ~torn => \A d \in disk : Legacy(d)
      <3>1. /\ Absent \in kept
            /\ Whole => Legacy(doc)
            /\ ~torn => \A d \in disk : Legacy(d)
        BY <1>6 DEF IInv, MakingOK
      <3>2. kept \subseteq Backups /\ backup \in kept /\ torn \in BOOLEAN
        BY DEF IInv, TypeOK
      <3>3. doc' = doc /\ disk' = disk
        BY DEF BackupFails
      <3>4. CASE RemovesBackup /\ UNCHANGED torn
        BY <1>0, <3>1, <3>2, <3>3, <3>4 DEF RemovesBackup, Whole
      <3>5. CASE LeavesBackup
        BY <1>0, <3>1, <3>2, <3>3, <3>5 DEF LeavesBackup, Whole
      <3> QED
        BY <1>6, <3>4, <3>5
    <2>2. /\ \A q \in Procs : Locked(q)' <=> lock' = q
          /\ lock' \in Procs \cup {None}
      BY <1>1, <1>2, <1>5, LockOfOne DEF IInv
    <2>3. TypeOK'
      <3>1. proc' \in [Procs -> Commands]
        BY <1>0, <1>1, <1>3
      <3> QED
        BY <1>0, <2>1, <2>2, <3>1 DEF IInv, TypeOK, Commands
    <2>4. RollbackSafe'
      BY <2>1 DEF RollbackSafe, RestoredBy, Whole, Legacy
    <2>5. Settled'
      BY <2>1 DEF Settled, Absent
    <2>6. \A q \in Procs \ {p} : ~Locked(q)
      BY <1>2 DEF IInv, TypeOK
    <2> QED
      BY <1>1, <1>4, <2>3, <2>4, <2>5, <2>6, OthersWait DEF IInv
  <1>7. CASE ~Incomplete(p) /\ UNCHANGED <<backup, kept, torn>>
    <2>1. Quiet(p)
      BY <1>0, <1>1, <1>2, <1>3, <1>4, <1>5, <1>7 DEF Quiet, Disks, BackupFails
    <2> QED
      BY <1>4, <2>1, QuietInv
  <1> QED
    BY <1>6, <1>7 DEF BackupFails

-------------------------------------------------------------------------------
(* The steps that replace the document, and those of nobody *)

LEMMA ReplaceInv == ASSUME IInv, NEW p \in Procs, Replace(p) PROVE IInv'
  <1>0. /\ proc \in [Procs -> Commands] /\ doc \in Documents /\ disk \subseteq Documents
        /\ proc[p].base \in Documents /\ backup \in kept
        /\ At(p, "rename") /\ Locked(p) /\ lock = p
    BY DEF Replace, IInv, TypeOK, Commands, BaseOK, At, Locked
  <1>1. /\ doc' = [rev |-> doc.rev + 1, form |-> "current", from |-> proc[p].base.from]
        /\ doc' \in Documents /\ ~Legacy(doc') /\ doc'.from = proc[p].base.from
    BY <1>0 DEF Replace, Documents, Legacy
  <1>2. /\ \A q \in Procs \ {p} : proc'[q] = proc[q] /\ ~Locked(q)
        /\ proc'[p] = [proc[p] EXCEPT !.pc = "sync", !.base = doc']
    BY <1>0 DEF Replace, IInv, TypeOK
  <1>3. proc'[p] \in Commands /\ At(p, "sync")' /\ proc'[p].base = doc'
    BY <1>0, <1>1, <1>2 DEF Commands, At
  <1>4. TypeOK'
    <2>1. proc' \in [Procs -> Commands]
      BY <1>0, <1>1, <1>3 DEF Replace
    <2>2. /\ \A q \in Procs : Locked(q)' <=> lock' = q
          /\ lock' \in Procs \cup {None}
      BY <1>0, <1>2, <1>3, LockOfOne DEF Replace, IInv, Locked, At
    <2> QED
      BY <1>0, <1>1, <2>1, <2>2 DEF Replace, IInv, TypeOK, Commands
  <1>5. /\ Whole => backup = Complete(proc[p].base.from)
        /\ ~torn => kept = {Complete(proc[p].base.from)}
    BY <1>0 DEF IInv, ReadyOK
  <1>6. RollbackSafe'
    BY <1>1, <1>5 DEF Replace, IInv, RollbackSafe, RestoredBy, Whole
  <1>7. Settled'
    <2>1. \A q \in Procs : ~Incomplete(q)
      BY <1>0, <1>2 DEF Incomplete, Locked, At
    <2> QED
      BY <2>1 DEF Replace, IInv, Settled
  <1>8. BaseOK(p)' /\ MakingOK(p)' /\ ReadyOK(p)'
    BY <1>1, <1>3 DEF BaseOK, MakingOK, ReadyOK, Incomplete, At
  <1>9. ASSUME NEW q \in Procs \ {p}
        PROVE  BaseOK(q)' /\ MakingOK(q)' /\ ReadyOK(q)'
    BY <1>2, <1>9, OthersWait
  <1> QED
    BY <1>4, <1>6, <1>7, <1>8, <1>9 DEF IInv

LEMMA SyncEndsInv == ASSUME IInv, NEW p \in Procs, NEW ok \in BOOLEAN, SyncEnds(p, ok) PROVE IInv'
  <1>0. /\ proc \in [Procs -> Commands]
        /\ At(p, "sync") /\ Locked(p) /\ lock = p /\ lock' = None
        /\ count' \in [{"saves", "edits", "faults", "deaths", "losses"} -> Nat]
        /\ count'.losses = count.losses
        /\ doc' = doc /\ backup' = backup /\ kept' = kept /\ torn' = torn
        /\ disk' \subseteq disk /\ doc \in disk'
    BY DEF SyncEnds, Bounded, Unlocks, IInv, TypeOK, Commands, At, Locked
  <1>1. /\ \A q \in Procs \ {p} : proc'[q] = proc[q] /\ ~Locked(q)
        /\ proc' = [proc EXCEPT ![p] = proc'[p]]
        /\ proc'[p] = Idle \/ proc'[p] = [proc[p] EXCEPT !.pc = "reload"]
        /\ ~proc[p].edits \/ proc'[p] = Idle
    BY <1>0 DEF SyncEnds, Ends, Goes, IInv, TypeOK
  <1>2. /\ proc'[p] \in Commands /\ (At(p, "idle")' \/ At(p, "reload")') /\ ~proc'[p].edits
        /\ At(p, "reload")' => proc'[p].base \in Documents
    <2>1. proc[p].base \in Documents
      BY <1>0 DEF IInv, BaseOK, At
    <2> QED
      BY <1>0, <1>1, <2>1, IdleOK DEF Commands, At
  <1>3. TypeOK'
    <2>1. proc' \in [Procs -> Commands]
      BY <1>0, <1>1, <1>2
    <2>2. /\ \A q \in Procs : Locked(q)' <=> lock' = q
          /\ lock' \in Procs \cup {None}
      BY <1>0, <1>1, <1>2, LockOfOne, MigrationConstantsOK DEF IInv, Locked, At
    <2> QED
      BY <1>0, <2>1, <2>2 DEF IInv, TypeOK, Commands
  <1>4. RollbackSafe'
    BY <1>0 DEF IInv, RollbackSafe, RestoredBy, Legacy, Complete
  <1>5. Settled'
    <2>1. \A q \in Procs : ~Incomplete(q)
      BY <1>0, <1>1 DEF Incomplete, Locked, At
    <2> QED
      BY <1>0, <2>1 DEF IInv, Settled
  <1>6. BaseOK(p)' /\ MakingOK(p)' /\ ReadyOK(p)'
    BY <1>2 DEF BaseOK, MakingOK, ReadyOK, Incomplete, At
  <1>7. ASSUME NEW q \in Procs \ {p}
        PROVE  BaseOK(q)' /\ MakingOK(q)' /\ ReadyOK(q)'
    BY <1>1, <1>7, OthersWait
  <1> QED
    BY <1>3, <1>4, <1>5, <1>6, <1>7 DEF IInv

LEMMA OldSaveInv == IInv /\ OldSave => IInv'
  <1> SUFFICES ASSUME IInv, OldSave
               PROVE  IInv'
    OBVIOUS
  <1>1. /\ doc' \in Documents /\ Legacy(doc') /\ disk' = disk \cup {doc'}
        /\ UNCHANGED <<backup, kept, lock, proc, torn>>
        /\ count' \in [{"saves", "edits", "faults", "deaths", "losses"} -> Nat]
        /\ count'.losses = count.losses
    BY DEF OldSave, Bounded, IInv, TypeOK, Documents, Legacy
  <1>2. TypeOK'
    BY <1>1 DEF IInv, TypeOK, Locked
  <1>3. RollbackSafe'
    BY <1>1 DEF IInv, RollbackSafe, RestoredBy, Legacy, Complete
  <1>4. Settled'
    BY <1>1 DEF IInv, Settled, Incomplete, At
  <1>5. ASSUME NEW q \in Procs
        PROVE  BaseOK(q)' /\ MakingOK(q)' /\ ReadyOK(q)'
    BY <1>1, <1>5
    DEF IInv, BaseOK, MakingOK, ReadyOK, Whole, Incomplete, At, Legacy, Complete, Absent
  <1> QED
    BY <1>2, <1>3, <1>4, <1>5 DEF IInv

LEMMA DieInv == ASSUME IInv, NEW p \in Procs, Die(p) PROVE IInv'
  <1>0. /\ proc \in [Procs -> Commands]
        /\ count' \in [{"saves", "edits", "faults", "deaths", "losses"} -> Nat]
        /\ count'.losses = count.losses
        /\ UNCHANGED <<doc, disk, backup, kept>>
        /\ torn' = (torn \/ Incomplete(p)) /\ torn \in BOOLEAN
        /\ \A q \in Procs \ {p} : proc'[q] = proc[q]
        /\ proc' = [proc EXCEPT ![p] = Idle] /\ proc'[p] = Idle
    BY DEF Die, Bounded, Ends, IInv, TypeOK, Commands
  <1>1. At(p, "idle")' /\ ~Locked(p)' /\ ~Incomplete(p)' /\ ~proc'[p].edits
    BY <1>0, IdleOK DEF At, Locked, Incomplete
  <1>2. TypeOK'
    <2>1. proc' \in [Procs -> Commands]
      BY <1>0, IdleOK
    <2>2. /\ \A q \in Procs : Locked(q)' <=> lock' = q
          /\ lock' \in Procs \cup {None}
      BY <1>0, <1>1, LockOfOne, MigrationConstantsOK DEF Die, Unlocks, IInv, TypeOK
    <2>3. torn' \in BOOLEAN
      BY <1>0 DEF Incomplete, At
    <2> QED
      BY <1>0, <2>1, <2>2, <2>3 DEF IInv, TypeOK, Commands
  <1>3. (~torn' => ~torn) /\ (Whole' => Whole)
    BY <1>0 DEF Whole
  <1>4. RollbackSafe'
    BY <1>0, <1>3 DEF IInv, RollbackSafe, RestoredBy, Legacy, Complete, Whole
  <1>5. Settled'
    <2> SUFFICES ASSUME ~torn', backup.state = "complete", \A q \in Procs : ~Incomplete(q)'
                 PROVE  kept = {backup}
      BY <1>0 DEF Settled
    <2>1. \A q \in Procs : ~Incomplete(q)
      BY <1>0 DEF Incomplete, At
    <2> QED
      BY <1>3, <2>1 DEF IInv, Settled
  <1>6. BaseOK(p)' /\ MakingOK(p)' /\ ReadyOK(p)'
    BY <1>1 DEF BaseOK, MakingOK, ReadyOK, At
  <1>7. ASSUME NEW q \in Procs \ {p}
        PROVE  BaseOK(q)' /\ MakingOK(q)' /\ ReadyOK(q)'
    BY <1>0, <1>3, <1>7
    DEF IInv, BaseOK, MakingOK, ReadyOK, Incomplete, At, Legacy, Complete, Absent
  <1> QED
    BY <1>2, <1>4, <1>5, <1>6, <1>7 DEF IInv

LEMMA PowerLossInv == IInv /\ PowerLoss => IInv'
  <1> SUFFICES ASSUME IInv, PowerLoss
               PROVE  IInv'
    OBVIOUS
  <1>1. /\ doc' \in disk /\ disk' = {doc'} /\ backup' \in kept /\ kept' = {backup'}
        /\ proc' = [p \in Procs |-> Idle] /\ lock' = None /\ torn' = torn
        /\ count' \in [{"saves", "edits", "faults", "deaths", "losses"} -> Nat]
        /\ count'.losses = count.losses + 1 /\ count.losses \in Nat
    BY DEF PowerLoss, Bounded, IInv, TypeOK
  <1>2. \A p \in Procs : At(p, "idle")' /\ ~Locked(p)' /\ ~Incomplete(p)' /\ ~proc'[p].edits
    BY <1>1, IdleOK DEF At, Locked, Incomplete
  <1>3. TypeOK'
    <2>1. proc' \in [Procs -> Commands]
      BY <1>1, IdleOK
    <2> QED
      BY <1>1, <1>2, <2>1, MigrationConstantsOK DEF IInv, TypeOK, Commands
  <1>4. RollbackSafe'
    <2>1. count'.losses > 0
      BY <1>1
    <2> QED
      BY <1>1, <2>1 DEF IInv, RollbackSafe, RestoredBy, Legacy, Complete
  <1>5. Settled'
    BY <1>1 DEF Settled
  <1>6. ASSUME NEW q \in Procs
        PROVE  BaseOK(q)' /\ MakingOK(q)' /\ ReadyOK(q)'
    BY <1>2, <1>6 DEF BaseOK, MakingOK, ReadyOK, At
  <1> QED
    BY <1>3, <1>4, <1>5, <1>6 DEF IInv

-------------------------------------------------------------------------------
(* The theorems *)

LEMMA StepInv == IInv /\ [Next]_vars => IInv'
  <1> SUFFICES ASSUME IInv, [Next]_vars
               PROVE  IInv'
    OBVIOUS
  <1>1. CASE UNCHANGED vars
    BY <1>1 DEF vars, IInv, TypeOK, RollbackSafe, Settled, BaseOK, MakingOK, ReadyOK, Whole,
                RestoredBy, Legacy, Locked, Incomplete, At, Complete, Absent
  <1>2. ASSUME NEW p \in Procs, Step(p)
        PROVE  IInv'
    BY <1>2, StartInv, LockInv, LockTimesOutInv, RereadInv, CollectInv, CollectFailsInv,
       UseBackupInv, CreateBackupInv, FillBackupInv, SyncBackupInv, SyncBackupEntryInv,
       BackupFailsInv, CheckInv, ReplaceInv, ReplaceFailsInv, SyncEndsInv, ReloadInv, FinishInv,
       EditInv
    DEF Step
  <1>3. ASSUME NEW p \in Procs, Die(p)
        PROVE  IInv'
    BY <1>3, DieInv
  <1> QED
    BY <1>1, <1>2, <1>3, OldSaveInv, PowerLossInv DEF Next

LEMMA Inductive == Spec => []IInv
  BY InitInv, StepInv, PTL DEF Spec

\* The types; and the write lock is held by the process that works on the
\* document or its backup (migrateLegacyConfig, writeConfig), and by no other.
THEOREM TypeCorrect == Spec => []TypeOK
  <1>1. IInv => TypeOK
    BY DEF IInv
  <1> QED
    BY <1>1, Inductive, PTL

\* writeLegacyBackup before the replacement: the backup that is found restores
\* the document that is found, after failures, deaths and power losses too.
THEOREM RollbackHolds == Spec => []RollbackSafe
  <1>1. IInv => RollbackSafe
    BY DEF IInv
  <1> QED
    BY <1>1, Inductive, PTL

\* validateExistingLegacyBackup and O_EXCL: once on the disk, a backup stays.
THEOREM BackupStays == Spec => BackupIsWriteOnce
  <1>1. ASSUME IInv, [Next]_vars, backup.state = "complete", kept = {backup}
        PROVE  backup' = backup /\ kept' = kept
    <2>1. Absent \notin kept /\ backup # Absent
      BY <1>1 DEF Absent
    <2>2. ASSUME NEW p \in Procs
          PROVE  ~Incomplete(p)
      BY <1>1, <2>1, <2>2 DEF IInv, MakingOK
    <2>3. CASE UNCHANGED vars
      BY <2>3 DEF vars
    <2>4. ASSUME NEW p \in Procs, Step(p)
          PROVE  backup' = backup /\ kept' = kept
      <3>1. ~At(p, "filling") /\ ~At(p, "filled") /\ ~At(p, "synced")
        BY <2>2 DEF Incomplete
      <3> QED
        BY <2>1, <2>2, <2>4, <3>1
        DEF Step, Start, Lock, LockTimesOut, Reread, Collect, CollectFails, UseBackup,
            CreateBackup, FillBackup, SyncBackup, SyncBackupEntry, BackupFails, Check, Replace,
            ReplaceFails, SyncEnds, Reload, Finish, Edit, Disks
    <2>5. ASSUME NEW p \in Procs, Die(p)
          PROVE  backup' = backup /\ kept' = kept
      BY <2>5 DEF Die
    <2>6. CASE OldSave
      BY <2>6 DEF OldSave
    <2>7. CASE PowerLoss
      BY <1>1, <2>7 DEF PowerLoss
    <2> QED
      BY <1>1, <2>3, <2>4, <2>5, <2>6, <2>7 DEF Next
  <1> QED
    BY <1>1, Inductive, PTL DEF Spec, BackupIsWriteOnce

===============================================================================
