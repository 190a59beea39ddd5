-------------------------- MODULE ConfigStoreProofs ---------------------------
(***************************************************************************)
(* Proofs about ConfigStore, for every value of its constants: the types,  *)
(* the integrity of every document that can be found, that a keychain      *)
(* entry does not outlive the reference to it, and that no command goes    *)
(* back to where it has been.                                              *)
(*                                                                         *)
(* Integrity is not inductive. A step keeps it because of where the writer *)
(* is: what it deletes is nothing the new document refers to, what it rolls *)
(* back is nothing a visible document refers to, and it puts an old        *)
(* document back only when the keychain is what it was. IInv says so, for  *)
(* every point of the write; that only one process is at such a point is   *)
(* the lock's doing.                                                       *)
(***************************************************************************)
EXTENDS ConfigStore, TLAPS

\* The steps at which a process holds the lock.
Critical == {"validate", "stage", "preflight", "install", "sync", "commit",
             "restoreKeys", "restoreFile", "restoreSync", "rollback", "unlock"}

LockHeld == \A p \in Procs : lock = p <=> cmd[p].pc \in Critical

\* No two fields of a document share an account.
Distinct(m) ==
  \A c, d \in Creds : SlotOf(m)[c] \in Accounts /\ SlotOf(m)[c] = SlotOf(m)[d] => c = d

Documents == \A m \in disk : Readable(m) /\ Distinct(m)

\* A write that has not begun has nothing to take back.
Untouched(k) ==
  k.staged = {} /\ k.dels = {} /\ k.gone = {} /\ k.saved = NoSave /\ k.verdict = "none"

\* The document a command wants differs from the loaded one in meaning only
\* where the command touched it, and not at all in what is written.
Intended(k) ==
  /\ k.next # NoFile
  /\ k.next.slot = SlotOf(k.base)
  /\ \A c \in Creds \ k.touched : k.next.want[c] = WantOf(k.base)[c]

\* The new document refers to accounts of the old one and to staged ones, and
\* to nothing that is to be deleted or has been.
Linked(k) ==
  /\ k.next # NoFile
  /\ Distinct(k.base) /\ Distinct(k.next)
  /\ \A c \in Creds : k.next.slot[c] \in Accounts =>
        k.next.slot[c] = SlotOf(k.base)[c] \/ k.next.slot[c] \in k.staged
  /\ k.staged \cap Refs(k.base) = {}
  /\ k.dels \cup k.gone \subseteq Refs(k.base)
  /\ (k.dels \cup k.gone) \cap Refs(k.next) = {}

\* What was saved makes the old document readable.
Captured(k) ==
  /\ k.saved # NoSave
  /\ k.saved.file = k.base
  /\ \A c \in Creds : LET x == SlotOf(k.base)[c]
                      IN  (IF x \in Accounts THEN k.saved.keys[x] ELSE x) = WantOf(k.base)[c]

\* Account a is what it was when it was saved.
Holds(k, a) == keychain[a] = k.saved.keys[a]

\* Before the rename the new document is readable except where its secrets
\* still have to be staged.
Staging(k) ==
  /\ file = k.base
  /\ \A c \in Creds \ k.need : Secret(k.next.slot[c]) = k.next.want[c]
  /\ \A c \in k.need : k.next.want[c] \in Edits
  /\ k.gone = {} /\ k.verdict = "none"

\* No document that can be found refers to a staged account.
Invisible(k) == \A m \in disk : k.staged \cap Refs(m) = {}

\* What is true of command k, by the step it has reached.
Phase(k) ==
  /\ \A c \in Creds : k.status[c] # "none" => SlotOf(k.base)[c] \in Accounts
  /\ k.pc \in {"idle", "resolve", "loaded", "refresh", "lock", "validate"} => Untouched(k)
  /\ k.pc \in {"lock", "validate"} => Intended(k)
  /\ k.pc \in {"stage", "preflight", "install", "sync", "commit", "restoreKeys",
               "restoreFile", "restoreSync"} => Linked(k)
  /\ k.pc \in {"stage", "preflight", "install"} => Staging(k)
  /\ k.pc \in {"stage", "preflight", "install", "rollback"} => Invisible(k)
  /\ k.pc \in {"preflight", "install"} => k.need = {}
  /\ k.pc \in {"install", "sync"} /\ k.dels # {} =>
        Captured(k) /\ \A a \in Accounts : Holds(k, a)
  /\ k.pc = "sync" => file = k.next /\ k.gone = {} /\ k.verdict = "none"
  /\ k.pc \in {"commit", "restoreKeys"} =>
        /\ disk = {file} /\ file = k.next
        /\ k.dels \cup k.gone # {} \/ k.pc = "restoreKeys" =>
             /\ Captured(k)
             /\ \A a \in Accounts : keychain[a] \in {k.saved.keys[a], NotFound}
             /\ k.verdict = "none" => \A a \in Accounts \ k.gone : Holds(k, a)
  /\ k.pc = "commit" => k.verdict = "none"
  /\ k.pc = "restoreKeys" => k.verdict \in {"none", "retained"}
  /\ k.pc = "restoreFile" => Captured(k) /\ \A a \in Accounts : Holds(k, a)
  /\ k.pc = "restoreSync" => Captured(k) /\ file = k.base
  /\ k.pc = "rollback" => k.verdict = "failed"
  /\ k.pc = "unlock" => k.verdict # "none"

IInv == TypeOK /\ file \in disk /\ Documents /\ LockHeld /\ \A p \in Procs : Phase(cmd[p])

-------------------------------------------------------------------------------
(* Steps in general *)

\* What is true of a command that does not move stays true as long as file, disk
\* and keychain hold still.
LEMMA StandsStill ==
  ASSUME NEW p \in Procs, Phase(cmd[p]), cmd'[p] = cmd[p], UNCHANGED <<file, disk, keychain>>
  PROVE  Phase(cmd[p])'
  <1>1. /\ Untouched(cmd[p]) => Untouched(cmd[p])'
        /\ Intended(cmd[p]) => Intended(cmd[p])'
    BY DEF Untouched, Intended, SlotOf, WantOf
  <1>2. Linked(cmd[p]) => Linked(cmd[p])'
    BY DEF Linked, Distinct, Refs, SlotOf
  <1>3. /\ Staging(cmd[p]) => Staging(cmd[p])'
        /\ Invisible(cmd[p]) => Invisible(cmd[p])'
    BY DEF Staging, Invisible, Secret, Refs, SlotOf
  <1>4. /\ Captured(cmd[p]) => Captured(cmd[p])'
        /\ \A a \in Accounts : Holds(cmd[p], a) => Holds(cmd[p], a)'
    BY DEF Captured, Holds, SlotOf, WantOf
  <1>5. SlotOf(cmd[p].base) = SlotOf(cmd[p].base)'
    BY DEF SlotOf
  <1> QED
    BY <1>1, <1>2, <1>3, <1>4, <1>5 DEF Phase

\* The invariant of the commands survives a step of one process that keeps the
\* lock protocol: a process without the lock touches nothing the others rely on.
LEMMA ByOne ==
  ASSUME IInv, NEW p \in Procs,
         cmd' \in [Procs -> Commands],
         \A q \in Procs \ {p} : cmd'[q] = cmd[q],
         lock = p \/ UNCHANGED <<file, disk, keychain>>,
         lock' = lock \/ (lock = p /\ lock' = Free) \/ (lock = Free /\ lock' = p),
         lock' = p <=> cmd'[p].pc \in Critical,
         Phase(cmd[p])'
  PROVE  LockHeld' /\ \A q \in Procs : Phase(cmd[q])'
  <1>1. LockHeld'
    BY ConstantsOK DEF IInv, LockHeld, TypeOK
  <1>2. ASSUME NEW q \in Procs, q # p
        PROVE  Phase(cmd[q])'
    <2>1. cmd'[q] = cmd[q]
      BY <1>2
    <2>2. CASE lock = p
      <3>1. cmd[q].pc \notin Critical
        BY <1>2, <2>2 DEF IInv, LockHeld
      <3>2. Phase(cmd[q])
        BY DEF IInv
      <3> QED
        BY <2>1, <3>1, <3>2 DEF Phase, Critical, Untouched, Intended, Linked, Distinct, Refs, SlotOf, WantOf
    <2>3. CASE UNCHANGED <<file, disk, keychain>>
      BY <2>1, <2>3, StandsStill DEF IInv
    <2> QED
      BY <2>2, <2>3
  <1> QED
    BY <1>1, <1>2

\* A step of one process that leaves the documents and the keychain alone.
LEMMA Quiet ==
  ASSUME IInv, NEW p \in Procs, UNCHANGED <<file, disk, keychain>>,
         cmd' = [cmd EXCEPT ![p] = cmd'[p]], cmd'[p] \in Commands,
         lock' = lock \/ (lock = p /\ lock' = Free) \/ (lock = Free /\ lock' = p),
         lock' = p <=> cmd'[p].pc \in Critical,
         outcome' \in [Edits -> {"unused", "pending"} \cup (Verdicts \ {"none"})],
         faults' \in Nat, Phase(cmd[p])'
  PROVE  IInv'
  <1>1. cmd' \in [Procs -> Commands] /\ \A q \in Procs \ {p} : cmd'[q] = cmd[q]
    BY DEF IInv, TypeOK
  <1>2. LockHeld' /\ \A q \in Procs : Phase(cmd[q])'
    BY <1>1, ByOne
  <1>3. TypeOK'
    BY <1>1 DEF IInv, TypeOK
  <1>4. (file \in disk /\ Documents)'
    BY DEF IInv, Documents, Readable, Secret, Distinct
  <1> QED
    BY <1>2, <1>3, <1>4 DEF IInv

\* A step of the process that holds the lock.
LEMMA Loud ==
  ASSUME IInv, NEW p \in Procs, lock = p, UNCHANGED <<lock, outcome>>,
         cmd' = [cmd EXCEPT ![p] = cmd'[p]], cmd'[p] \in Commands,
         cmd'[p].pc \in Critical,
         file' \in disk', disk' \subseteq Contents \cup {NoFile}, Documents',
         keychain' \in [Accounts -> Edits \cup {NotFound}],
         faults' \in Nat, Phase(cmd[p])'
  PROVE  IInv'
  <1>1. cmd' \in [Procs -> Commands] /\ \A q \in Procs \ {p} : cmd'[q] = cmd[q]
    BY DEF IInv, TypeOK
  <1>2. LockHeld' /\ \A q \in Procs : Phase(cmd[q])'
    BY <1>1, ByOne
  <1>3. TypeOK'
    BY <1>1 DEF IInv, TypeOK
  <1> QED
    BY <1>2, <1>3 DEF IInv

\* The count of failures stays a number.
LEMMA FaultOK ==
  ASSUME TypeOK
  PROVE  Fault => faults' \in Nat
  BY DEF Fault, TypeOK

\* A new account name is one that no document and no command refers to.
LEMMA FreshOK ==
  ASSUME \E a \in Accounts : Fresh(a)
  PROVE  /\ NewAccount \in Accounts
         /\ \A m \in disk : NewAccount \notin Refs(m)
         /\ \A q \in Procs : NewAccount \notin Refs(cmd[q].base) \cup Refs(cmd[q].next)
  BY DEF NewAccount, Fresh

\* A keychain entry no document refers to may change (txn.commit deletes such
\* entries, stageBoundSet creates them, txn.rollback discards them).
LEMMA Unreferenced ==
  ASSUME IInv, NEW a \in Accounts, \A m \in disk : a \notin Refs(m),
         NEW v \in Edits \cup {NotFound},
         keychain' = [keychain EXCEPT ![a] = v], UNCHANGED <<file, disk>>
  PROVE  /\ keychain' \in [Accounts -> Edits \cup {NotFound}]
         /\ disk' \subseteq Contents \cup {NoFile}
         /\ file' \in disk'
         /\ Documents'
  <1>1. /\ keychain' \in [Accounts -> Edits \cup {NotFound}]
        /\ disk' \subseteq Contents \cup {NoFile} /\ file' \in disk'
    BY DEF IInv, TypeOK
  <1>2. ASSUME NEW m \in disk, NEW c \in Creds
        PROVE  Secret(SlotOf(m)[c])' = WantOf(m)[c]
    <2>1. Secret(SlotOf(m)[c]) = WantOf(m)[c] /\ SlotOf(m)[c] # a
      BY DEF IInv, Documents, Readable, Refs
    <2> QED
      BY <2>1 DEF Secret, IInv, TypeOK
  <1> QED
    BY <1>1, <1>2 DEF Documents, Readable, Distinct, IInv, Secret

\* A staged secret changes no document's meaning (stageBoundSet).
LEMMA NewEntry ==
  ASSUME IInv, \E a \in Accounts : Fresh(a), NEW s \in Edits,
         keychain' = [keychain EXCEPT ![NewAccount] = s], UNCHANGED <<file, disk>>
  PROVE  /\ keychain' \in [Accounts -> Edits \cup {NotFound}]
         /\ disk' \subseteq Contents \cup {NoFile}
         /\ file' \in disk'
         /\ Documents'
  BY FreshOK, Unreferenced

\* A process that runs nothing satisfies the invariant.
LEMMA IdleOK ==
  /\ NoCommand \in Commands
  /\ NoCommand.pc = "idle"
  /\ Phase(NoCommand)
  BY DEF NoCommand, Commands, Steps, Statuses, Verdicts, Phase, Untouched

\* What a write leaves to its process satisfies the invariant.
LEMMA AfterWriteOK ==
  ASSUME NEW k \in Commands, NEW v,
         \A c \in Creds : k.status[c] # "none" => SlotOf(k.base)[c] \in Accounts
  PROVE  /\ AfterWrite(k, v) \in Commands
         /\ AfterWrite(k, v).pc \in {"idle", "loaded", "refresh"}
         /\ Phase(AfterWrite(k, v))
  <1>1. NoCommand \in Commands
    BY DEF NoCommand, Commands, Steps, Statuses, Verdicts
  <1>2. AfterWrite(k, v) \in Commands
    <2>1. PICK at \in {"refresh", "loaded"} :
            AfterWrite(k, v) \in {NoCommand, [NoCommand EXCEPT
              !.pc = at, !.base = k.base, !.status = k.status, !.migrated = TRUE]}
      BY DEF AfterWrite
    <2>2. [NoCommand EXCEPT !.pc = at, !.base = k.base, !.status = k.status,
                            !.migrated = TRUE] \in Commands
      BY <1>1 DEF Commands, Steps
    <2> QED
      BY <1>1, <2>1, <2>2
  <1>3. /\ AfterWrite(k, v).pc \in {"idle", "loaded", "refresh"}
        /\ Untouched(AfterWrite(k, v))
    BY DEF AfterWrite, NoCommand, Untouched
  <1>4. \A c \in Creds : AfterWrite(k, v).status[c] # "none" =>
                           SlotOf(AfterWrite(k, v).base)[c] \in Accounts
    BY DEF AfterWrite, NoCommand
  <1> QED
    BY <1>3, <1>2, <1>4 DEF Phase

\* A write that fails before the rename goes to its rollback.
LEMMA RollbackStarts ==
  ASSUME IInv, NEW p \in Procs, lock = p, UNCHANGED <<file, disk, keychain, lock, outcome>>,
         Goes(p, Fails(cmd[p])), faults' \in Nat, Invisible(cmd[p])
  PROVE  IInv'
  <1> DEFINE k == cmd[p]
  <1>1. k \in Commands /\ Phase(k) /\ TypeOK
    BY DEF IInv, TypeOK
  <1>2. cmd' = [cmd EXCEPT ![p] = Fails(k)]
    BY DEF Goes
  <1>3. cmd'[p] = Fails(k)
    BY <1>1, <1>2 DEF TypeOK
  <1>4. /\ cmd'[p] \in Commands /\ cmd'[p].pc = "rollback" /\ cmd'[p].verdict = "failed"
        /\ cmd'[p].status = k.status /\ cmd'[p].base = k.base /\ cmd'[p].staged = k.staged
    <2>1. cmd'[p] \in Commands
      BY <1>1, <1>3 DEF Commands, Steps, Verdicts, Fails
    <2> QED
      BY <1>1, <1>3, <2>1 DEF Commands, Fails
  <1>5. Phase(cmd[p])'
    BY <1>1, <1>4 DEF Phase, Invisible
  <1> QED
    BY <1>1, <1>2, <1>3, <1>4, <1>5, Quiet DEF Critical, TypeOK

\* A write that ends with the new document in place.
LEMMA EndsWith ==
  ASSUME IInv, NEW p \in Procs, NEW v \in {"ok", "undurable", "retained"}, lock = p,
         Goes(p, [cmd[p] EXCEPT !.pc = "unlock", !.verdict = v]), faults' \in Nat,
         UNCHANGED <<file, disk, keychain, lock, outcome>>
  PROVE  IInv'
  <1> DEFINE k == cmd[p]
  <1>1. k \in Commands /\ Phase(k) /\ TypeOK
    BY DEF IInv, TypeOK
  <1>2. cmd' = [cmd EXCEPT ![p] = [k EXCEPT !.pc = "unlock", !.verdict = v]]
    BY DEF Goes
  <1>3. cmd'[p] = [k EXCEPT !.pc = "unlock", !.verdict = v]
    BY <1>1, <1>2 DEF TypeOK
  <1>4. /\ cmd'[p] \in Commands /\ cmd'[p].pc = "unlock" /\ cmd'[p].verdict = v
        /\ cmd'[p].status = k.status /\ cmd'[p].base = k.base
    BY <1>1, <1>3 DEF Commands, Steps, Verdicts
  <1>5. Phase(cmd[p])'
    BY <1>1, <1>4 DEF Phase
  <1> QED
    BY <1>1, <1>2, <1>3, <1>4, <1>5, Quiet DEF Critical, TypeOK

-------------------------------------------------------------------------------
(* The actions *)

\* The initial states satisfy the invariant.
LEMMA InitInv == Init => IInv
  <1> SUFFICES ASSUME Init
               PROVE  IInv
    OBVIOUS
  <1>1. file \in Contents \cup {NoFile}
    BY DEF Init, Contents
  <1>2. Distinct(file)
    BY ConstantsOK DEF Init, Distinct, SlotOf
  <1>3. ASSUME NEW a \in Refs(file)
        PROVE  /\ keychain[a] \in Edits
               /\ \A c \in Creds : SlotOf(file)[c] = a => keychain[a] = WantOf(file)[c]
    <2> DEFINE c0 == CHOOSE c \in Creds : SlotOf(file)[c] = a
    <2>1. a \in Accounts /\ c0 \in Creds /\ SlotOf(file)[c0] = a
      BY DEF Refs
    <2>2. keychain[a] = WantOf(file)[c0]
      BY <2>1 DEF Init
    <2>3. WantOf(file)[c0] \in Edits
      BY <2>1, ConstantsOK DEF Init, SlotOf, WantOf
    <2>4. \A c \in Creds : SlotOf(file)[c] = a => c = c0
      BY <1>2, <2>1 DEF Distinct
    <2> QED
      BY <2>2, <2>3, <2>4
  <1>4. keychain \in [Accounts -> Edits \cup {NotFound}]
    BY <1>3 DEF Init
  <1>5. Readable(file)
    <2> SUFFICES ASSUME NEW c \in Creds
                 PROVE  Secret(SlotOf(file)[c]) = WantOf(file)[c]
      BY DEF Readable
    <2>1. CASE SlotOf(file)[c] \in Accounts
      BY <1>3, <2>1 DEF Secret, Refs
    <2>2. CASE SlotOf(file)[c] \notin Accounts
      BY <2>2 DEF Secret, Init, SlotOf, WantOf
    <2> QED
      BY <2>1, <2>2
  <1>6. TypeOK
    BY <1>1, <1>4, IdleOK DEF Init, TypeOK, Verdicts
  <1>7. \A p \in Procs : cmd[p] = NoCommand
    BY DEF Init
  <1>8. LockHeld /\ \A p \in Procs : Phase(cmd[p])
    BY <1>7, IdleOK, ConstantsOK DEF Init, LockHeld, Critical
  <1> QED
    BY <1>2, <1>5, <1>6, <1>8 DEF Init, IInv, Documents

\* load reads the document.
LEMMA LoadInv ==
  ASSUME IInv, NEW p \in Procs, Load(p)
  PROVE  IInv'
  <1>1. NoCommand \in Commands
    BY DEF NoCommand, Commands, Steps, Statuses, Verdicts
  <1>2. cmd' = [cmd EXCEPT ![p] = cmd'[p]] /\ cmd'[p] = LoadedFrom(file, NoCommand)
    BY DEF IInv, TypeOK, Load, Goes
  <1> DEFINE status == [c \in Creds |-> IF SlotOf(file)[c] \in Accounts THEN "unresolved" ELSE "none"]
  <1>3. cmd'[p] \in Commands
    <2>1. status \in [Creds -> Statuses]
      BY DEF Statuses
    <2>2. file \in Contents \cup {NoFile}
      BY DEF IInv, TypeOK
    <2>3. cmd'[p] = [NoCommand EXCEPT !.pc = "resolve", !.base = file, !.status = status]
      BY <1>2 DEF LoadedFrom
    <2> HIDE DEF status
    <2> QED
      BY <1>1, <2>1, <2>2, <2>3 DEF Commands, Steps
  <1>4. Phase(cmd[p])'
    BY <1>2 DEF Phase, LoadedFrom, NoCommand, Untouched, Load
  <1>5. lock # p
    BY DEF IInv, LockHeld, Load, At, Critical
  <1> QED
    <2>1. cmd'[p].pc = "resolve"
      BY <1>2 DEF LoadedFrom, NoCommand
    <2>2. UNCHANGED <<file, disk, keychain, lock, outcome, faults>> /\ TypeOK
      BY DEF Load, IInv
    <2> QED
      BY <1>2, <1>3, <1>4, <1>5, <2>1, <2>2, Quiet DEF TypeOK, Critical

\* load resolves a reference, or cannot.
LEMMA ResolveInv ==
  ASSUME IInv, NEW p \in Procs, NEW c \in Creds, Resolve(p, c) \/ ResolveFails(p, c)
  PROVE  IInv'
  <1>1. PICK s \in {"preserved", "missing", "backed"} :
          cmd' = [cmd EXCEPT ![p] = [cmd[p] EXCEPT !.status[c] = s]]
    BY DEF Resolve, ResolveFails, Goes
  <1>2. cmd[p] \in Commands /\ Phase(cmd[p])
    BY DEF IInv, TypeOK
  <1>3. cmd'[p] = [cmd[p] EXCEPT !.status[c] = s]
    BY <1>1 DEF IInv, TypeOK
  <1>4. cmd[p].pc \in {"resolve", "loaded"} /\ cmd[p].status[c] # "none"
    BY DEF Resolve, ResolveFails, MayResolve, At
  <1>5. cmd'[p] \in Commands
    BY <1>2, <1>3 DEF Commands, Statuses
  <1>6. Phase(cmd[p])'
    BY <1>2, <1>3, <1>4 DEF Phase, Untouched, Commands
  <1>7. lock # p /\ cmd'[p].pc \notin Critical
    BY <1>2, <1>3, <1>4 DEF IInv, LockHeld, Critical, Commands
  <1> QED
    <2>1. UNCHANGED <<file, disk, keychain, lock, outcome>> /\ faults' \in Nat
      BY DEF Resolve, ResolveFails, Fault, IInv, TypeOK
    <2>2. TypeOK
      BY DEF IInv
    <2> QED
      BY <1>1, <1>3, <1>5, <1>6, <1>7, <2>1, <2>2, Quiet DEF TypeOK

\* load ends, or goes on to its automatic migration.
LEMMA FinishLoadInv ==
  ASSUME IInv, NEW p \in Procs, FinishLoad(p)
  PROVE  IInv'
  <1> DEFINE k == cmd[p]
  <1>1. k \in Commands /\ Phase(k) /\ k.pc = "resolve" /\ lock # p /\ TypeOK
    BY DEF IInv, TypeOK, FinishLoad, At, LockHeld, Critical
  <1>2. UNCHANGED <<file, disk, keychain, lock, outcome, faults>>
    BY DEF FinishLoad
  <1>3. CASE PlaintextInMemory(k) /\ ~k.migrated
    <2>1. cmd' = [cmd EXCEPT ![p] = [k EXCEPT !.pc = "lock", !.next = k.base]]
      BY <1>3 DEF FinishLoad, Goes
    <2>2. cmd'[p] = [k EXCEPT !.pc = "lock", !.next = k.base]
      BY <1>1, <2>1 DEF TypeOK
    <2>3. /\ cmd'[p] \in Commands /\ cmd'[p].pc = "lock" /\ cmd'[p].next = k.base
          /\ cmd'[p].base = k.base /\ cmd'[p].status = k.status
          /\ Untouched(cmd'[p]) /\ cmd'[p].touched = k.touched
      BY <1>1, <2>2 DEF Commands, Steps, Phase, Untouched
    <2>4. k.base # NoFile
      BY <1>1, <1>3, ConstantsOK DEF PlaintextInMemory, Phase, SlotOf
    <2>5. Intended(cmd'[p])
      BY <2>3, <2>4 DEF Intended, SlotOf, WantOf
    <2>6. Phase(cmd[p])'
      BY <1>1, <2>3, <2>5 DEF Phase, Untouched, Intended
    <2> QED
      BY <1>1, <1>2, <2>1, <2>2, <2>3, <2>6, Quiet DEF TypeOK, Critical
  <1>4. CASE ~(PlaintextInMemory(k) /\ ~k.migrated)
    <2>1. cmd' = [cmd EXCEPT ![p] = [k EXCEPT !.pc = "loaded"]]
      BY <1>4 DEF FinishLoad, Goes
    <2>2. cmd'[p] = [k EXCEPT !.pc = "loaded"]
      BY <1>1, <2>1 DEF TypeOK
    <2>3. /\ cmd'[p] \in Commands /\ cmd'[p].pc = "loaded"
          /\ cmd'[p].base = k.base /\ cmd'[p].status = k.status /\ Untouched(cmd'[p])
      BY <1>1, <2>2 DEF Commands, Steps, Phase, Untouched
    <2>4. Phase(cmd[p])'
      BY <1>1, <2>3 DEF Phase, Untouched
    <2> QED
      BY <1>1, <1>2, <2>1, <2>2, <2>3, <2>4, Quiet DEF TypeOK, Critical
  <1> QED
    BY <1>3, <1>4

\* A command that only reads ends.
LEMMA QuitInv ==
  ASSUME IInv, NEW p \in Procs, Quit(p)
  PROVE  IInv'
  <1>1. /\ cmd[p].pc = "loaded" /\ lock # p /\ TypeOK
        /\ UNCHANGED <<file, disk, keychain, lock, outcome, faults>>
    BY DEF IInv, Quit, At, LockHeld, Critical
  <1>2. cmd' = [cmd EXCEPT ![p] = NoCommand] /\ cmd'[p] = NoCommand
    BY <1>1 DEF Quit, Goes, TypeOK
  <1>3. NoCommand \in Commands /\ NoCommand.pc = "idle" /\ Phase(cmd[p])'
    BY <1>2 DEF NoCommand, Commands, Steps, Statuses, Verdicts, Phase, Untouched
  <1> QED
    BY <1>1, <1>2, <1>3, Quiet DEF TypeOK, Critical

\* A command edits its copy of the document.
LEMMA MutateInv ==
  ASSUME IInv, NEW p \in Procs, NEW e \in Edits, Mutate(p, e)
  PROVE  IInv'
  <1> DEFINE k == cmd[p]
  <1>1. k \in Commands /\ Phase(k) /\ k.pc = "loaded" /\ lock # p /\ TypeOK
    BY DEF IInv, TypeOK, Mutate, At, LockHeld, Critical
  <1>2. PICK touched \in {{}} \cup {{c} : c \in Creds}, v \in {e, Unset} :
          cmd' = [cmd EXCEPT ![p] = [k EXCEPT
                    !.pc = "lock", !.edit = e, !.touched = touched,
                    !.next = [edits |-> EditsOf(k.base) \cup {e},
                              want  |-> [c \in Creds |-> IF c \in touched THEN v
                                                         ELSE WantOf(k.base)[c]],
                              slot  |-> SlotOf(k.base)]]]
    BY DEF Mutate, Goes
  <1> DEFINE want == [c \in Creds |-> IF c \in touched THEN v ELSE WantOf(k.base)[c]]
             next == [edits |-> EditsOf(k.base) \cup {e}, want |-> want, slot |-> SlotOf(k.base)]
  <1>3. EditsOf(k.base) \in SUBSET Edits /\ WantOf(k.base) \in [Creds -> Edits \cup {Unset}]
        /\ SlotOf(k.base) \in [Creds -> Edits \cup Accounts \cup {Unset}]
    BY <1>1 DEF Commands, Contents, EditsOf, WantOf, SlotOf
  <1>4. next \in Contents
    BY <1>3 DEF Contents
  <1>5. cmd'[p] = [k EXCEPT !.pc = "lock", !.edit = e, !.touched = touched, !.next = next]
    BY <1>1, <1>2 DEF TypeOK
  <1>6. next # NoFile /\ next.slot = SlotOf(k.base) /\ next.want = want
    BY <1>4, NoFileOK
  <1>7. touched \subseteq Creds /\ \A c \in Creds \ touched : want[c] = WantOf(k.base)[c]
    OBVIOUS
  <1> HIDE DEF want, next
  <1>8. /\ cmd'[p] \in Commands /\ cmd'[p].pc = "lock" /\ cmd'[p].next = next
        /\ cmd'[p].base = k.base /\ cmd'[p].status = k.status
        /\ Untouched(cmd'[p]) /\ cmd'[p].touched = touched
    <2>1. cmd'[p] \in Commands
      BY <1>1, <1>4, <1>5, <1>7 DEF Commands, Steps
    <2>2. /\ cmd'[p].pc = "lock" /\ cmd'[p].next = next /\ cmd'[p].touched = touched
          /\ cmd'[p].base = k.base /\ cmd'[p].status = k.status
          /\ cmd'[p].staged = k.staged /\ cmd'[p].dels = k.dels /\ cmd'[p].gone = k.gone
          /\ cmd'[p].saved = k.saved /\ cmd'[p].verdict = k.verdict
      BY <1>1, <1>5 DEF Commands
    <2> QED
      BY <1>1, <2>1, <2>2 DEF Phase, Untouched
  <1>9. Phase(cmd[p])'
    BY <1>1, <1>6, <1>7, <1>8 DEF Phase, Untouched, Intended
  <1>10. UNCHANGED <<file, disk, keychain, lock, faults>>
         /\ outcome' \in [Edits -> {"unused", "pending"} \cup (Verdicts \ {"none"})]
    BY <1>1 DEF Mutate, TypeOK
  <1> QED
    BY <1>1, <1>2, <1>5, <1>8, <1>9, <1>10, Quiet DEF TypeOK, Critical

\* writeConfig obtains the lock.
LEMMA AcquireInv ==
  ASSUME IInv, NEW p \in Procs, Acquire(p)
  PROVE  IInv'
  <1> DEFINE k == cmd[p]
  <1>1. k \in Commands /\ Phase(k) /\ k.pc = "lock" /\ TypeOK
    BY DEF IInv, TypeOK, Acquire, At
  <1>2. UNCHANGED <<file, disk, keychain, outcome, faults>> /\ lock = Free /\ lock' = p
    BY DEF Acquire
  <1>3. cmd' = [cmd EXCEPT ![p] = [k EXCEPT !.pc = "validate"]]
        /\ cmd'[p] = [k EXCEPT !.pc = "validate"]
    BY <1>1 DEF Acquire, Goes, TypeOK
  <1>4. /\ cmd'[p] \in Commands /\ cmd'[p].pc = "validate" /\ cmd'[p].next = k.next
        /\ cmd'[p].base = k.base /\ cmd'[p].status = k.status
        /\ Untouched(cmd'[p]) /\ cmd'[p].touched = k.touched
    BY <1>1, <1>3 DEF Commands, Steps, Phase, Untouched
  <1>5. Phase(cmd[p])'
    BY <1>1, <1>4 DEF Phase, Untouched, Intended
  <1> QED
    BY <1>1, <1>2, <1>3, <1>4, <1>5, Quiet DEF TypeOK, Critical

\* writeConfig gives up waiting for the lock.
LEMMA LockTimeoutInv ==
  ASSUME IInv, NEW p \in Procs, LockTimeout(p)
  PROVE  IInv'
  <1> DEFINE k == cmd[p]
             r == AfterWrite(k, "failed")
  <1>1. k \in Commands /\ Phase(k) /\ k.pc = "lock" /\ lock # p /\ TypeOK
    BY DEF IInv, TypeOK, LockTimeout, At, LockHeld, Critical
  <1>2. UNCHANGED <<file, disk, keychain, lock, faults>>
    BY DEF LockTimeout
  <1>3. cmd' = [cmd EXCEPT ![p] = r] /\ cmd'[p] = r
    BY <1>1 DEF LockTimeout, Goes, TypeOK
  <1>4. r \in Commands /\ r.pc \in {"idle", "loaded", "refresh"} /\ Phase(r)
    BY <1>1, AfterWriteOK DEF Phase
  <1> HIDE DEF r
  <1>5. Phase(cmd[p])'
    BY <1>3, <1>4 DEF Phase, Untouched
  <1>6. outcome' \in [Edits -> {"unused", "pending"} \cup (Verdicts \ {"none"})]
    BY <1>1 DEF LockTimeout, Reported, TypeOK, Verdicts, Commands
  <1> QED
    BY <1>1, <1>2, <1>3, <1>4, <1>5, <1>6, Quiet DEF TypeOK, Critical

\* validateConfigWriteSnapshot passes or refuses; reconcileKeychain plans.
LEMMA ValidateInv ==
  ASSUME IInv, NEW p \in Procs, Validate(p)
  PROVE  IInv'
  <1> DEFINE k == cmd[p]
  <1>1. k \in Commands /\ Phase(k) /\ k.pc = "validate" /\ lock = p
    BY DEF IInv, TypeOK, Validate, At, LockHeld, Critical
  <1>2. CASE file # k.base
    <2>1. cmd' = [cmd EXCEPT ![p] = [k EXCEPT !.pc = "unlock", !.verdict = "failed"]]
      BY <1>2 DEF Validate, Goes
    <2>2. cmd'[p] = [k EXCEPT !.pc = "unlock", !.verdict = "failed"]
      BY <2>1 DEF IInv, TypeOK
    <2>3. cmd'[p] \in Commands
      BY <1>1, <2>2 DEF Commands, Steps, Verdicts
    <2>4. Phase(cmd[p])'
      BY <1>1, <2>2 DEF Phase, Commands
    <2> QED
      BY <1>1, <2>1, <2>2, <2>3, <2>4, Quiet DEF IInv, TypeOK, Validate, Critical, Commands
  <1>3. CASE file = k.base
    <2> DEFINE slots == [c \in Creds |-> IF c \in Cleared(k) THEN Unset ELSE k.next.slot[c]]
               dels  == UNION { OldAccount(k, c) : c \in Cleared(k) }
    <2>1. cmd' = [cmd EXCEPT ![p] = [k EXCEPT !.pc = "stage", !.need = Unstaged(k),
                                              !.dels = dels, !.next.slot = slots]]
      BY <1>3 DEF Validate, Goes
    <2>2. cmd'[p] = [k EXCEPT !.pc = "stage", !.need = Unstaged(k),
                              !.dels = dels, !.next.slot = slots]
      BY <2>1 DEF IInv, TypeOK
    <2>3. Untouched(k) /\ Intended(k) /\ Readable(k.base) /\ Distinct(k.base)
      BY <1>1, <1>3 DEF Phase, IInv, Documents
    <2>4. dels \subseteq Refs(k.base)
      BY <1>1 DEF OldAccount, Live, Phase, Refs, Cleared, Commands
    <2>5. /\ k.next \in Contents /\ k.next # NoFile /\ k.next.slot = SlotOf(k.base)
          /\ slots \in [Creds -> Edits \cup Accounts \cup {Unset}]
      BY <1>1, <2>3 DEF Commands, Contents, Intended
    <2>6. [k.next EXCEPT !.slot = slots] \in Contents /\ Unstaged(k) \subseteq Creds
      BY <2>5 DEF Contents, Unstaged
    <2>7. /\ cmd'[p].next = [k.next EXCEPT !.slot = slots]
          /\ cmd'[p].base = k.base /\ cmd'[p].staged = {} /\ cmd'[p].gone = {}
          /\ cmd'[p].dels = dels /\ cmd'[p].verdict = "none" /\ cmd'[p].need = Unstaged(k)
          /\ cmd'[p].pc = "stage" /\ cmd'[p].status = k.status
          /\ cmd'[p] \in Commands
      <3>1. dels \subseteq Accounts
        BY <2>4 DEF Refs
      <3> HIDE DEF slots, dels
      <3>2. cmd'[p] \in Commands
        BY <1>1, <2>2, <2>6, <3>1, ZenonT(60) DEF Commands, Steps
      <3> QED
        BY <1>1, <2>2, <2>3, <3>2 DEF Commands, Untouched
    <2>8. cmd'[p].next # NoFile /\ cmd'[p].next.slot = slots /\ cmd'[p].next.want = k.next.want
      <3> HIDE DEF slots
      <3> QED
        BY <2>5, <2>6, <2>7, NoFileOK DEF Contents
    <2>9. \A c \in Creds : slots[c] \in Accounts => slots[c] = SlotOf(k.base)[c] /\ c \notin Cleared(k)
      BY <2>5, ConstantsOK
    <2>10. Linked(cmd[p])'
      <3>1. Distinct(cmd'[p].next)
        BY <2>3, <2>8, <2>9 DEF Distinct, SlotOf
      <3>2. ASSUME NEW a \in dels, NEW d \in Creds, slots[d] = a
            PROVE  FALSE
        <4>1. PICK c \in Cleared(k) : a \in OldAccount(k, c)
          OBVIOUS
        <4>2. c \in Creds /\ a = SlotOf(k.base)[c] /\ a \in Accounts
          BY <1>1, <2>4, <4>1 DEF Cleared, OldAccount, Commands, Refs
        <4> QED
          BY <2>3, <2>9, <3>2, <4>1, <4>2 DEF Distinct
      <3> HIDE DEF slots, dels
      <3>3. dels \cap Refs(cmd'[p].next) = {}
        BY <2>8, <3>2 DEF Refs, SlotOf
      <3> QED
        BY <2>3, <2>4, <2>7, <2>8, <2>9, <3>1, <3>3 DEF Linked, Distinct, Refs, SlotOf
    <2>11. Staging(cmd[p])'
      <3>1. \A c \in Creds : Secret(SlotOf(k.base)[c]) = WantOf(k.base)[c]
        BY <2>3 DEF Readable
      <3>2. \A c \in Creds \ Unstaged(k) : Secret(slots[c]) = k.next.want[c]
        <4> SUFFICES ASSUME NEW c \in Creds \ Unstaged(k)
                     PROVE  Secret(slots[c]) = k.next.want[c]
          OBVIOUS
        <4>1. CASE c \in k.touched
          BY <4>1, ConstantsOK DEF Unstaged, Cleared, Secret
        <4>2. CASE c \notin k.touched
          BY <2>3, <2>5, <3>1, <4>2 DEF Cleared, Intended
        <4> QED
          BY <4>1, <4>2
      <3>3. \A c \in Unstaged(k) : k.next.want[c] \in Edits
        <4> SUFFICES ASSUME NEW c \in Unstaged(k)
                     PROVE  k.next.want[c] \in Edits
          OBVIOUS
        <4>1. CASE c \in k.touched
          BY <2>5, <4>1 DEF Unstaged, Contents
        <4>2. CASE c \notin k.touched
          BY <2>3, <3>1, <4>2, ConstantsOK DEF Unstaged, Intended, Secret
        <4> QED
          BY <4>1, <4>2
      <3> HIDE DEF slots
      <3>4. UNCHANGED <<file, keychain>>
        BY DEF Validate
      <3> QED
        BY <1>3, <2>7, <2>8, <3>2, <3>3, <3>4 DEF Staging, Secret
    <2>12. Phase(cmd[p])'
      <3> HIDE DEF slots, dels
      <3> QED
        BY <1>1, <2>7, <2>10, <2>11 DEF Phase, Invisible
    <2>13. TypeOK /\ UNCHANGED <<file, disk, keychain, lock, outcome, faults>>
      BY DEF IInv, Validate
    <2> HIDE DEF slots, dels
    <2> QED
      BY <1>1, <2>1, <2>2, <2>7, <2>12, <2>13, Quiet DEF TypeOK, Critical
  <1> QED
    BY <1>2, <1>3

\* stageBoundSet stores a secret under a new account.
LEMMA StageInv ==
  ASSUME IInv, NEW p \in Procs, NEW c \in Creds, Stage(p, c)
  PROVE  IInv'
  <1> DEFINE k == cmd[p]
             n == NewAccount
  <1>1. /\ k \in Commands /\ Phase(k) /\ k.pc = "stage" /\ lock = p /\ TypeOK
        /\ c \in k.need /\ \E a \in Accounts : Fresh(a)
    BY DEF IInv, TypeOK, Stage, At, LockHeld, Critical
  <1>2. Linked(k) /\ Staging(k) /\ Invisible(k)
    BY <1>1 DEF Phase
  <1>3. /\ n \in Accounts /\ \A m \in disk : n \notin Refs(m)
        /\ n \notin Refs(k.base) /\ n \notin Refs(k.next)
    BY <1>1, FreshOK
  <1> HIDE DEF n
  <1>4. /\ keychain' = [keychain EXCEPT ![n] = k.next.want[c]]
        /\ UNCHANGED <<file, disk, lock, outcome, faults>>
        /\ cmd' = [cmd EXCEPT ![p] =
             [k EXCEPT !.need = k.need \ {c}, !.staged = k.staged \cup {n},
                       !.dels = k.dels \cup OldAccount(k, c), !.next.slot[c] = n]]
    BY DEF Stage, Goes, n
  <1>5. /\ k.next.want[c] \in Edits /\ k.next \in Contents /\ k.next # NoFile
    BY <1>1, <1>2 DEF Staging, Linked, Commands
  <1>6. OldAccount(k, c) \subseteq Refs(k.base) /\ OldAccount(k, c) \subseteq {SlotOf(k.base)[c]}
    BY <1>1 DEF OldAccount, Live, Phase, Refs
  <1> DEFINE slots == [k.next.slot EXCEPT ![c] = n]
             next  == [k.next EXCEPT !.slot = slots]
  <1>7. next \in Contents /\ slots \in [Creds -> Edits \cup Accounts \cup {Unset}]
    BY <1>3, <1>5 DEF Contents
  <1>8. next # NoFile /\ next.slot = slots /\ next.want = k.next.want
    BY <1>5, <1>7, NoFileOK DEF Contents
  <1>9. /\ slots[c] = n
        /\ \A d \in Creds \ {c} : slots[d] = k.next.slot[d]
    BY <1>5 DEF Contents
  <1>10. cmd'[p] = [k EXCEPT !.need = k.need \ {c}, !.staged = k.staged \cup {n},
                             !.dels = k.dels \cup OldAccount(k, c), !.next = next]
    BY <1>1, <1>4 DEF TypeOK
  <1> HIDE DEF slots, next
  <1>11. OldAccount(k, c) \subseteq Accounts
    BY <1>6 DEF Refs
  <1>12. cmd'[p] \in Commands
    <2> DEFINE need == k.need \ {c}
               staged == k.staged \cup {n}
               dels == k.dels \cup OldAccount(k, c)
    <2>1. need \subseteq Creds /\ staged \subseteq Accounts /\ dels \subseteq Accounts
      BY <1>1, <1>3, <1>11 DEF Commands
    <2>2. cmd'[p] = [k EXCEPT !.need = need, !.staged = staged, !.dels = dels, !.next = next]
      BY <1>10
    <2> HIDE DEF need, staged, dels
    <2> QED
      BY <1>1, <1>7, <2>1, <2>2, ZenonT(60) DEF Commands
  <1>13. /\ cmd'[p].pc = "stage" /\ cmd'[p].next = next /\ cmd'[p].need = k.need \ {c}
         /\ cmd'[p].staged = k.staged \cup {n} /\ cmd'[p].dels = k.dels \cup OldAccount(k, c)
         /\ cmd'[p].base = k.base /\ cmd'[p].gone = k.gone /\ cmd'[p].status = k.status
         /\ cmd'[p].verdict = k.verdict
    BY <1>1, <1>10 DEF Commands
  <1>14. Linked(cmd'[p])
    <2>1. Distinct(next)
      BY <1>2, <1>3, <1>8, <1>9 DEF Linked, Distinct, SlotOf, Refs
    <2>2. \A d \in Creds : next.slot[d] \in Accounts =>
            next.slot[d] = SlotOf(k.base)[d] \/ next.slot[d] \in k.staged \cup {n}
      BY <1>2, <1>8, <1>9 DEF Linked
    <2>3. (k.staged \cup {n}) \cap Refs(k.base) = {}
      BY <1>2, <1>3 DEF Linked
    <2>4. k.dels \cup OldAccount(k, c) \cup k.gone \subseteq Refs(k.base)
      BY <1>2, <1>6 DEF Linked
    <2>5. ASSUME NEW a \in k.dels \cup OldAccount(k, c) \cup k.gone, NEW d \in Creds, slots[d] = a
          PROVE  FALSE
      <3>1. a \in Refs(k.base) /\ a # n
        BY <1>3, <2>4
      <3>2. d # c /\ k.next.slot[d] = a /\ a \in Accounts
        BY <1>9, <2>5, <3>1 DEF Refs
      <3>3. a \in OldAccount(k, c)
        BY <1>2, <1>5, <3>2 DEF Linked, Refs, SlotOf
      <3>4. SlotOf(k.base)[d] = a /\ SlotOf(k.base)[c] = a
        BY <1>2, <1>6, <3>1, <3>2, <3>3 DEF Linked
      <3> QED
        BY <1>2, <3>2, <3>4 DEF Linked, Distinct
    <2>6. (k.dels \cup OldAccount(k, c) \cup k.gone) \cap Refs(next) = {}
      BY <1>8, <2>5 DEF Refs, SlotOf
    <2> QED
      BY <1>2, <1>8, <1>13, <2>1, <2>2, <2>3, <2>4, <2>6 DEF Linked
  <1>15. Linked(cmd[p])'
    BY <1>14 DEF Linked, Distinct, Refs, SlotOf
  <1>16. Staging(cmd[p])'
    <2> DEFINE read(x) == IF x \in Accounts THEN keychain'[x] ELSE x
    <2>1. ASSUME NEW d \in Creds \ (k.need \ {c})
          PROVE  read(slots[d]) = k.next.want[d]
      <3>1. CASE d = c
        BY <1>1, <1>3, <1>4, <1>9, <3>1 DEF TypeOK
      <3>2. CASE d # c
        <4>1. slots[d] = k.next.slot[d] /\ Secret(slots[d]) = k.next.want[d]
          BY <1>2, <1>9, <2>1, <3>2 DEF Staging
        <4>2. slots[d] # n
          BY <1>3, <1>5, <4>1 DEF Refs, SlotOf
        <4> QED
          BY <1>1, <1>4, <4>1, <4>2 DEF Secret, TypeOK
      <3> QED
        BY <3>1, <3>2
    <2>2. \A d \in Creds \ cmd'[p].need : Secret(cmd[p].next.slot[d])' = cmd'[p].next.want[d]
      BY <1>8, <1>13, <2>1 DEF Secret
    <2>3. \A d \in cmd'[p].need : cmd'[p].next.want[d] \in Edits
      BY <1>2, <1>8, <1>13 DEF Staging
    <2> QED
      BY <1>2, <1>4, <1>13, <2>2, <2>3 DEF Staging
  <1>17. Invisible(cmd[p])'
    BY <1>2, <1>3, <1>4, <1>13 DEF Invisible, Refs, SlotOf
  <1>18. Phase(cmd[p])'
    BY <1>1, <1>13, <1>15, <1>16, <1>17 DEF Phase
  <1>19. /\ keychain' \in [Accounts -> Edits \cup {NotFound}]
         /\ disk' \subseteq Contents \cup {NoFile} /\ file' \in disk' /\ Documents'
    BY <1>1, <1>4, <1>5, NewEntry DEF n
  <1>20. cmd' = [cmd EXCEPT ![p] = cmd'[p]]
    BY <1>1, <1>4 DEF TypeOK
  <1> QED
    BY <1>1, <1>4, <1>12, <1>13, <1>18, <1>19, <1>20, Loud DEF Critical, TypeOK

\* stageBoundSet leaves a secret in the file.
LEMMA StagePlaintextInv ==
  ASSUME IInv, NEW p \in Procs, NEW c \in Creds, StagePlaintext(p, c)
  PROVE  IInv'
  <1> DEFINE k == cmd[p]
  <1>1. /\ k \in Commands /\ Phase(k) /\ k.pc = "stage" /\ lock = p /\ TypeOK /\ c \in k.need
        /\ UNCHANGED <<file, disk, keychain, lock, outcome, faults>>
    BY DEF IInv, TypeOK, StagePlaintext, At, LockHeld, Critical
  <1>2. Linked(k) /\ Staging(k) /\ Invisible(k)
    BY <1>1 DEF Phase
  <1>3. /\ k.next.want[c] \in Edits /\ k.next \in Contents /\ k.next # NoFile
    BY <1>1, <1>2 DEF Staging, Linked, Commands
  <1> DEFINE slots == [k.next.slot EXCEPT ![c] = k.next.want[c]]
             next  == [k.next EXCEPT !.slot = slots]
  <1>4. next \in Contents /\ slots \in [Creds -> Edits \cup Accounts \cup {Unset}]
    BY <1>3 DEF Contents
  <1>5. next # NoFile /\ next.slot = slots /\ next.want = k.next.want
    BY <1>3, <1>4, NoFileOK DEF Contents
  <1>6. slots[c] = k.next.want[c] /\ \A d \in Creds \ {c} : slots[d] = k.next.slot[d]
    BY <1>3 DEF Contents
  <1>7. cmd' = [cmd EXCEPT ![p] = [k EXCEPT !.need = k.need \ {c}, !.next = next]]
    BY DEF StagePlaintext, Goes
  <1>8. cmd'[p] = [k EXCEPT !.need = k.need \ {c}, !.next = next]
    BY <1>1, <1>7 DEF TypeOK
  <1> HIDE DEF slots, next
  <1>9. /\ cmd'[p] \in Commands
        /\ cmd'[p].pc = "stage" /\ cmd'[p].next = next /\ cmd'[p].need = k.need \ {c}
        /\ cmd'[p].staged = k.staged /\ cmd'[p].dels = k.dels
        /\ cmd'[p].base = k.base /\ cmd'[p].gone = k.gone /\ cmd'[p].status = k.status
        /\ cmd'[p].verdict = k.verdict
    <2>1. cmd'[p] \in Commands
      <3> DEFINE need == k.need \ {c}
      <3>1. need \subseteq Creds
        BY <1>1 DEF Commands
      <3> HIDE DEF need
      <3> QED
        BY <1>1, <1>4, <1>8, <3>1 DEF Commands, need
    <2> QED
      BY <1>1, <1>8, <2>1 DEF Commands
  <1>10. slots[c] \notin Accounts
    BY <1>3, <1>6, ConstantsOK
  <1>11. Linked(cmd[p])'
    <2>1. Distinct(next)
      BY <1>2, <1>5, <1>6, <1>10 DEF Linked, Distinct, SlotOf
    <2>2. \A d \in Creds : next.slot[d] \in Accounts => next.slot[d] = k.next.slot[d]
      BY <1>5, <1>6, <1>10
    <2>3. Refs(next) \subseteq Refs(k.next)
      BY <1>3, <1>5, <2>2 DEF Refs, SlotOf
    <2> QED
      BY <1>2, <1>5, <1>9, <2>1, <2>2, <2>3 DEF Linked, Distinct, Refs, SlotOf
  <1>12. Staging(cmd[p])'
    <2>1. ASSUME NEW d \in Creds \ (k.need \ {c})
          PROVE  Secret(slots[d]) = k.next.want[d]
      BY <1>2, <1>6, <1>10, <2>1 DEF Staging, Secret
    <2> QED
      BY <1>1, <1>2, <1>5, <1>9, <2>1 DEF Staging, Secret
  <1>13. Invisible(cmd[p])'
    BY <1>1, <1>2, <1>9 DEF Invisible
  <1>14. Phase(cmd[p])'
    BY <1>1, <1>9, <1>11, <1>12, <1>13 DEF Phase
  <1> QED
    BY <1>1, <1>7, <1>8, <1>9, <1>14, Quiet DEF Critical, TypeOK

\* stageBoundSet fails and the write is rolled back.
LEMMA StageFailsInv ==
  ASSUME IInv, NEW p \in Procs, NEW c \in Creds, StageFails(p, c)
  PROVE  IInv'
  <1> DEFINE k == cmd[p]
  <1>1. /\ k \in Commands /\ Phase(k) /\ k.pc = "stage" /\ lock = p /\ TypeOK /\ c \in k.need
        /\ UNCHANGED <<file, disk, lock, outcome>> /\ faults' \in Nat
    BY FaultOK DEF IInv, TypeOK, StageFails, At, LockHeld, Critical
  <1>2. PICK tracked \in SUBSET Accounts :
          /\ cmd' = [cmd EXCEPT ![p] = [Fails(k) EXCEPT !.staged = k.staged \cup tracked]]
          /\ \/ keychain' = keychain /\ tracked = {}
             \/ /\ \E a \in Accounts : Fresh(a)
                /\ keychain' = [keychain EXCEPT ![NewAccount] = k.next.want[c]]
                /\ tracked \subseteq {NewAccount}
    <2>1. CASE Goes(p, Fails(k)) /\ UNCHANGED keychain
      <3>1. Fails(k) = [Fails(k) EXCEPT !.staged = k.staged \cup {}]
        BY <1>1 DEF Fails, Commands
      <3> QED
        BY <2>1, <3>1 DEF Goes
    <2>2. CASE /\ \E a \in Accounts : Fresh(a)
               /\ keychain' = [keychain EXCEPT ![NewAccount] = cmd[p].next.want[c]]
               /\ \E tracked \in {{}, {NewAccount}} :
                    Goes(p, [Fails(cmd[p]) EXCEPT !.staged = cmd[p].staged \cup tracked])
      BY <2>2, FreshOK DEF Goes
    <2> QED
      BY <2>1, <2>2 DEF StageFails
  <1>3. cmd'[p] = [Fails(k) EXCEPT !.staged = k.staged \cup tracked]
    BY <1>1, <1>2 DEF TypeOK
  <1>4. /\ cmd'[p] \in Commands /\ cmd'[p].pc = "rollback" /\ cmd'[p].verdict = "failed"
        /\ cmd'[p].staged = k.staged \cup tracked
        /\ cmd'[p].status = k.status /\ cmd'[p].base = k.base
    <2> DEFINE staged == k.staged \cup tracked
    <2>1. staged \subseteq Accounts
      BY <1>1 DEF Commands
    <2> HIDE DEF staged
    <2> QED
      BY <1>1, <1>3, <2>1 DEF Commands, Steps, Verdicts, Fails, staged
  <1>5. Invisible(k) /\ k.next.want[c] \in Edits
    BY <1>1 DEF Phase, Staging
  <1>6. \A m \in disk : tracked \cap Refs(m) = {}
    BY <1>2, FreshOK
  <1>7. Phase(cmd[p])'
    BY <1>1, <1>4, <1>5, <1>6 DEF Phase, Invisible, Refs, SlotOf
  <1>8. /\ keychain' \in [Accounts -> Edits \cup {NotFound}]
        /\ disk' \subseteq Contents \cup {NoFile} /\ file' \in disk' /\ Documents'
    <2>1. CASE keychain' = keychain
      BY <1>1, <2>1 DEF IInv, TypeOK, Documents, Readable, Secret, Distinct
    <2>2. CASE keychain' # keychain
      BY <1>1, <1>2, <1>5, <2>2, NewEntry
    <2> QED
      BY <2>1, <2>2
  <1> QED
    BY <1>1, <1>2, <1>3, <1>4, <1>7, <1>8, Loud DEF Critical, TypeOK

\* reconcileKeychain is done.
LEMMA StageDoneInv ==
  ASSUME IInv, NEW p \in Procs, StageDone(p)
  PROVE  IInv'
  <1> DEFINE k == cmd[p]
  <1>1. /\ k \in Commands /\ Phase(k) /\ k.pc = "stage" /\ lock = p /\ TypeOK /\ k.need = {}
        /\ UNCHANGED <<file, disk, keychain, lock, outcome, faults>>
    BY DEF IInv, TypeOK, StageDone, At, LockHeld, Critical
  <1>2. CASE k.edit = NoEdit /\ k.staged = {}
    <2>1. cmd' = [cmd EXCEPT ![p] = [k EXCEPT !.pc = "unlock", !.verdict = "failed"]]
      BY <1>1, <1>2 DEF StageDone, Goes
    <2>2. cmd'[p] = [k EXCEPT !.pc = "unlock", !.verdict = "failed"]
      BY <1>1, <2>1 DEF TypeOK
    <2>3. /\ cmd'[p] \in Commands /\ cmd'[p].pc = "unlock" /\ cmd'[p].verdict = "failed"
          /\ cmd'[p].status = k.status /\ cmd'[p].base = k.base
      <3>1. cmd'[p] \in Commands
        BY <1>1, <2>2 DEF Commands, Steps, Verdicts
      <3> QED
        BY <1>1, <2>2, <3>1 DEF Commands
    <2>4. Phase(cmd[p])'
      BY <1>1, <2>3 DEF Phase
    <2> QED
      BY <1>1, <2>1, <2>2, <2>3, <2>4, Quiet DEF Critical, TypeOK
  <1>3. CASE ~(k.edit = NoEdit /\ k.staged = {})
    <2>1. cmd' = [cmd EXCEPT ![p] = [k EXCEPT !.pc = "preflight"]]
      BY <1>1, <1>3 DEF StageDone, Goes
    <2>2. cmd'[p] = [k EXCEPT !.pc = "preflight"]
      BY <1>1, <2>1 DEF TypeOK
    <2>3. /\ cmd'[p] \in Commands
          /\ cmd'[p].pc = "preflight" /\ cmd'[p].next = k.next /\ cmd'[p].need = k.need
          /\ cmd'[p].staged = k.staged /\ cmd'[p].dels = k.dels
          /\ cmd'[p].base = k.base /\ cmd'[p].gone = k.gone /\ cmd'[p].status = k.status
          /\ cmd'[p].verdict = k.verdict
      BY <1>1, <2>2 DEF Commands, Steps
    <2>4. Phase(cmd[p])'
      BY <1>1, <2>3 DEF Phase, Linked, Distinct, Refs, SlotOf, Staging, Secret, Invisible
    <2> QED
      BY <1>1, <2>1, <2>2, <2>3, <2>4, Quiet DEF Critical, TypeOK
  <1> QED
    BY <1>2, <1>3

\* preflightDeletes captures what a deletion may have to put back.
LEMMA PreflightInv ==
  ASSUME IInv, NEW p \in Procs, Preflight(p)
  PROVE  IInv'
  <1> DEFINE k == cmd[p]
  <1>1. /\ k \in Commands /\ Phase(k) /\ k.pc = "preflight" /\ lock = p /\ TypeOK
        /\ UNCHANGED <<file, disk, keychain, lock, outcome, faults>>
    BY DEF IInv, TypeOK, Preflight, At, LockHeld, Critical
  <1>2. Linked(k) /\ Staging(k) /\ Invisible(k) /\ k.need = {}
    BY <1>1 DEF Phase
  <1>3. CASE k.dels = {}
    <2>1. cmd' = [cmd EXCEPT ![p] = [k EXCEPT !.pc = "install"]]
      BY <1>1, <1>3 DEF Preflight, Goes
    <2>2. cmd'[p] = [k EXCEPT !.pc = "install"]
      BY <1>1, <2>1 DEF TypeOK
    <2>3. /\ cmd'[p] \in Commands
          /\ cmd'[p].pc = "install" /\ cmd'[p].next = k.next /\ cmd'[p].need = k.need
          /\ cmd'[p].staged = k.staged /\ cmd'[p].dels = k.dels
          /\ cmd'[p].base = k.base /\ cmd'[p].gone = k.gone /\ cmd'[p].status = k.status
          /\ cmd'[p].verdict = k.verdict
      BY <1>1, <2>2 DEF Commands, Steps
    <2>4. Phase(cmd[p])'
      BY <1>1, <1>2, <1>3, <2>3 DEF Phase, Linked, Distinct, Refs, SlotOf, Staging, Secret, Invisible
    <2> QED
      BY <1>1, <2>1, <2>2, <2>3, <2>4, Quiet DEF Critical, TypeOK
  <1>4. CASE k.dels # {} /\ p \in PolicyOff
    BY <1>1, <1>2, <1>4, RollbackStarts DEF Preflight, TypeOK
  <1>5. CASE k.dels # {} /\ p \notin PolicyOff
    <2> DEFINE s == [file |-> file, keys |-> keychain]
    <2>1. s \in Saves /\ s # NoSave /\ s.file = file /\ s.keys = keychain
      BY <1>1, NoSaveOK DEF Saves, TypeOK
    <2>2. cmd' = [cmd EXCEPT ![p] = [k EXCEPT !.pc = "install", !.saved = s]]
      BY <1>1, <1>5 DEF Preflight, Goes
    <2>3. cmd'[p] = [k EXCEPT !.pc = "install", !.saved = s]
      BY <1>1, <2>2 DEF TypeOK
    <2> HIDE DEF s
    <2>4. /\ cmd'[p] \in Commands
          /\ cmd'[p].pc = "install" /\ cmd'[p].next = k.next /\ cmd'[p].need = k.need
          /\ cmd'[p].staged = k.staged /\ cmd'[p].dels = k.dels
          /\ cmd'[p].base = k.base /\ cmd'[p].gone = k.gone /\ cmd'[p].status = k.status
          /\ cmd'[p].verdict = k.verdict /\ cmd'[p].saved = s
      <3>1. cmd'[p] \in Commands
        BY <1>1, <2>1, <2>3 DEF Commands, Steps
      <3> QED
        BY <1>1, <2>3, <3>1 DEF Commands
    <2>5. Captured(cmd'[p]) /\ \A a \in Accounts : keychain[a] = cmd'[p].saved.keys[a]
      BY <1>2, <2>1, <2>4 DEF Captured, Staging, IInv, Documents, Readable, Secret
    <2>6. Phase(cmd[p])'
      BY <1>1, <1>2, <2>4, <2>5 DEF Phase, Linked, Distinct, Refs, SlotOf, WantOf, Staging, Secret,
                                    Invisible, Holds, Captured
    <2> QED
      BY <1>1, <2>2, <2>3, <2>4, <2>6, Quiet DEF Critical, TypeOK
  <1> QED
    BY <1>3, <1>4, <1>5

\* The temporary file or the rename fails.
LEMMA WriteFailsInv ==
  ASSUME IInv, NEW p \in Procs, WriteFails(p)
  PROVE  IInv'
  <1>1. /\ cmd[p].pc \in {"preflight", "install"} /\ lock = p
        /\ UNCHANGED <<file, disk, keychain, lock, outcome>> /\ faults' \in Nat
        /\ Goes(p, Fails(cmd[p]))
    BY FaultOK DEF IInv, WriteFails, At, LockHeld, Critical
  <1>2. Invisible(cmd[p])
    BY <1>1 DEF IInv, Phase
  <1> QED
    BY <1>1, <1>2, RollbackStarts

\* The new document is renamed into place.
LEMMA InstallInv ==
  ASSUME IInv, NEW p \in Procs, Install(p)
  PROVE  IInv'
  <1> DEFINE k == cmd[p]
  <1>1. /\ k \in Commands /\ Phase(k) /\ k.pc = "install" /\ lock = p /\ TypeOK
        /\ Linked(k) /\ Staging(k) /\ k.need = {}
    BY DEF IInv, TypeOK, Install, At, LockHeld, Critical, Phase
  <1>2. /\ file' = k.next /\ disk' = disk \cup {k.next}
        /\ UNCHANGED <<keychain, lock, outcome, faults>>
    BY DEF Install
  <1>3. cmd' = [cmd EXCEPT ![p] = [k EXCEPT !.pc = "sync"]]
    BY DEF Install, Goes
  <1>4. cmd'[p] = [k EXCEPT !.pc = "sync"]
    BY <1>1, <1>3 DEF TypeOK
  <1>5. /\ cmd'[p] \in Commands
        /\ cmd'[p].pc = "sync" /\ cmd'[p].next = k.next
        /\ cmd'[p].staged = k.staged /\ cmd'[p].dels = k.dels
        /\ cmd'[p].base = k.base /\ cmd'[p].gone = k.gone /\ cmd'[p].status = k.status
        /\ cmd'[p].verdict = k.verdict /\ cmd'[p].saved = k.saved
    BY <1>1, <1>4 DEF Commands, Steps
  <1>6. Phase(cmd[p])'
    BY <1>1, <1>2, <1>5 DEF Phase, Staging, Linked, Distinct, Refs, SlotOf, WantOf, Captured, Holds
  <1>7. Readable(k.next) /\ Distinct(k.next) /\ k.next \in Contents
    BY <1>1 DEF Staging, Linked, Readable, SlotOf, WantOf, Commands
  <1>8. Documents'
    BY <1>2, <1>7 DEF IInv, Documents, Readable, Distinct, Secret
  <1> QED
    BY <1>1, <1>2, <1>3, <1>4, <1>5, <1>6, <1>7, <1>8, Loud DEF Critical, TypeOK

\* The barrier after the rename.
LEMMA SyncDirectoryInv ==
  ASSUME IInv, NEW p \in Procs, SyncDirectory(p)
  PROVE  IInv'
  <1> DEFINE k == cmd[p]
  <1>1. /\ k \in Commands /\ Phase(k) /\ k.pc = "sync" /\ lock = p /\ TypeOK
        /\ Linked(k)
    BY DEF IInv, TypeOK, SyncDirectory, At, LockHeld, Critical, Phase
  <1>2. disk' = {file} /\ UNCHANGED <<file, keychain, lock, outcome, faults>>
    BY DEF SyncDirectory
  <1>3. cmd' = [cmd EXCEPT ![p] = [k EXCEPT !.pc = "commit"]]
    BY DEF SyncDirectory, Goes
  <1>4. cmd'[p] = [k EXCEPT !.pc = "commit"]
    BY <1>1, <1>3 DEF TypeOK
  <1>5. /\ cmd'[p] \in Commands
        /\ cmd'[p].pc = "commit" /\ cmd'[p].next = k.next
        /\ cmd'[p].staged = k.staged /\ cmd'[p].dels = k.dels
        /\ cmd'[p].base = k.base /\ cmd'[p].gone = k.gone /\ cmd'[p].status = k.status
        /\ cmd'[p].verdict = k.verdict /\ cmd'[p].saved = k.saved
    BY <1>1, <1>4 DEF Commands, Steps
  <1>6. Phase(cmd[p])'
    BY <1>1, <1>2, <1>5 DEF Phase, Linked, Distinct, Refs, SlotOf, WantOf, Captured, Holds
  <1>7. Documents' /\ file \in Contents \cup {NoFile}
    BY <1>2 DEF IInv, Documents, Readable, Distinct, Secret, TypeOK
  <1> QED
    BY <1>1, <1>2, <1>3, <1>4, <1>5, <1>6, <1>7, Loud DEF Critical, TypeOK

\* The barrier fails.
LEMMA SyncFailsInv ==
  ASSUME IInv, NEW p \in Procs, SyncFails(p)
  PROVE  IInv'
  <1>1. lock = p /\ faults' \in Nat
    BY FaultOK DEF IInv, SyncFails, At, LockHeld, Critical
  <1> QED
    BY <1>1, EndsWith DEF SyncFails

\* txn.commit deletes an account the new document does not refer to.
LEMMA DeleteOldInv ==
  ASSUME IInv, NEW p \in Procs, NEW a \in Accounts, DeleteOld(p, a)
  PROVE  IInv'
  <1> DEFINE k == cmd[p]
  <1>1. /\ k \in Commands /\ Phase(k) /\ k.pc = "commit" /\ lock = p /\ TypeOK
        /\ Linked(k) /\ a \in k.dels
    BY DEF IInv, TypeOK, DeleteOld, At, LockHeld, Critical, Phase
  <1>2. /\ keychain' = [keychain EXCEPT ![a] = NotFound]
        /\ UNCHANGED <<file, disk, lock, outcome, faults>>
    BY DEF DeleteOld
  <1>3. cmd' = [cmd EXCEPT ![p] = [k EXCEPT !.dels = k.dels \ {a}, !.gone = k.gone \cup {a}]]
    BY DEF DeleteOld, Goes
  <1>4. cmd'[p] = [k EXCEPT !.dels = k.dels \ {a}, !.gone = k.gone \cup {a}]
    BY <1>1, <1>3 DEF TypeOK
  <1>5. /\ cmd'[p] \in Commands
        /\ cmd'[p].pc = "commit" /\ cmd'[p].next = k.next
        /\ cmd'[p].staged = k.staged /\ cmd'[p].dels = k.dels \ {a}
        /\ cmd'[p].base = k.base /\ cmd'[p].gone = k.gone \cup {a} /\ cmd'[p].status = k.status
        /\ cmd'[p].verdict = k.verdict /\ cmd'[p].saved = k.saved
    <2> DEFINE dels == k.dels \ {a}
               gone == k.gone \cup {a}
    <2>1. dels \subseteq Accounts /\ gone \subseteq Accounts
      BY <1>1 DEF Commands
    <2> HIDE DEF dels, gone
    <2> QED
      BY <1>1, <1>4, <2>1 DEF Commands, dels, gone
  <1>6. /\ disk = {file} /\ file = k.next /\ Captured(k)
        /\ \A b \in Accounts : keychain[b] \in {k.saved.keys[b], NotFound}
        /\ k.verdict = "none" /\ \A b \in Accounts \ k.gone : Holds(k, b)
    BY <1>1 DEF Phase
  <1>7. /\ \A b \in Accounts : keychain'[b] \in {k.saved.keys[b], NotFound}
        /\ \A b \in Accounts \ (k.gone \cup {a}) : keychain'[b] = k.saved.keys[b]
    BY <1>1, <1>2, <1>6 DEF Holds, TypeOK
  <1>8. Linked(cmd[p])'
    BY <1>1, <1>5 DEF Linked, Distinct, Refs, SlotOf
  <1>9. Captured(cmd[p])'
    BY <1>5, <1>6 DEF Captured, SlotOf, WantOf
  <1>10. Phase(cmd[p])'
    BY <1>1, <1>2, <1>5, <1>6, <1>7, <1>8, <1>9 DEF Phase, Holds
  <1>11. \A m \in disk : a \notin Refs(m)
    BY <1>1, <1>6 DEF Linked
  <1> QED
    BY <1>1, <1>2, <1>3, <1>4, <1>5, <1>10, <1>11, Unreferenced, Loud DEF Critical, TypeOK

\* A deletion fails, and txn.commit starts to restore.
LEMMA DeleteFailsInv ==
  ASSUME IInv, NEW p \in Procs, NEW a \in Accounts, DeleteFails(p, a)
  PROVE  IInv'
  <1> DEFINE k == cmd[p]
  <1>1. /\ k \in Commands /\ Phase(k) /\ k.pc = "commit" /\ lock = p /\ TypeOK
        /\ Linked(k) /\ a \in k.dels
    BY DEF IInv, TypeOK, DeleteFails, At, LockHeld, Critical, Phase
  <1>2. /\ keychain' \in {keychain, [keychain EXCEPT ![a] = NotFound]}
        /\ UNCHANGED <<file, disk, lock, outcome>> /\ faults' \in Nat
    BY <1>1, FaultOK DEF DeleteFails
  <1>3. cmd' = [cmd EXCEPT ![p] = [k EXCEPT !.pc = "restoreKeys", !.gone = k.gone \cup {a}]]
    BY DEF DeleteFails, Goes
  <1>4. cmd'[p] = [k EXCEPT !.pc = "restoreKeys", !.gone = k.gone \cup {a}]
    BY <1>1, <1>3 DEF TypeOK
  <1>5. /\ cmd'[p] \in Commands
        /\ cmd'[p].pc = "restoreKeys" /\ cmd'[p].next = k.next
        /\ cmd'[p].staged = k.staged /\ cmd'[p].dels = k.dels
        /\ cmd'[p].base = k.base /\ cmd'[p].gone = k.gone \cup {a} /\ cmd'[p].status = k.status
        /\ cmd'[p].verdict = k.verdict /\ cmd'[p].saved = k.saved
    <2> DEFINE gone == k.gone \cup {a}
    <2>1. gone \subseteq Accounts
      BY <1>1 DEF Commands
    <2> HIDE DEF gone
    <2> QED
      BY <1>1, <1>4, <2>1 DEF Commands, Steps, gone
  <1>6. /\ disk = {file} /\ file = k.next /\ Captured(k)
        /\ \A b \in Accounts : keychain[b] \in {k.saved.keys[b], NotFound}
        /\ k.verdict = "none" /\ \A b \in Accounts \ k.gone : Holds(k, b)
    BY <1>1 DEF Phase
  <1>7. /\ \A b \in Accounts : keychain'[b] \in {k.saved.keys[b], NotFound}
        /\ \A b \in Accounts \ (k.gone \cup {a}) : keychain'[b] = k.saved.keys[b]
    BY <1>1, <1>2, <1>6 DEF Holds, TypeOK
  <1>8. Linked(cmd[p])'
    BY <1>1, <1>5 DEF Linked, Distinct, Refs, SlotOf
  <1>9. Captured(cmd[p])'
    BY <1>5, <1>6 DEF Captured, SlotOf, WantOf
  <1>10. Phase(cmd[p])'
    BY <1>1, <1>2, <1>5, <1>6, <1>7, <1>8, <1>9 DEF Phase, Holds
  <1>11. \A m \in disk : a \notin Refs(m)
    BY <1>1, <1>6 DEF Linked
  <1>12. /\ keychain' \in [Accounts -> Edits \cup {NotFound}]
         /\ disk' \subseteq Contents \cup {NoFile} /\ file' \in disk' /\ Documents'
    <2>1. CASE keychain' = keychain
      BY <1>2, <2>1 DEF IInv, TypeOK, Documents, Readable, Secret, Distinct
    <2>2. CASE keychain' = [keychain EXCEPT ![a] = NotFound]
      BY <1>2, <1>11, <2>2, Unreferenced
    <2> QED
      BY <1>2, <2>1, <2>2
  <1> QED
    BY <1>1, <1>2, <1>3, <1>4, <1>5, <1>10, <1>12, Loud DEF Critical, TypeOK

\* An account comes back, or does not.
LEMMA RestoreKeyInv ==
  ASSUME IInv, NEW p \in Procs, NEW a \in Accounts, RestoreKey(p, a) \/ RestoreKeyFails(p, a)
  PROVE  IInv'
  <1> DEFINE k == cmd[p]
  <1>1. /\ k \in Commands /\ Phase(k) /\ k.pc = "restoreKeys" /\ lock = p /\ TypeOK
        /\ Linked(k) /\ a \in k.gone
    BY DEF IInv, TypeOK, RestoreKey, RestoreKeyFails, At, LockHeld, Critical, Phase
  <1>2. PICK v \in {k.verdict, "retained"} :
          /\ cmd' = [cmd EXCEPT ![p] = [k EXCEPT !.gone = k.gone \ {a}, !.verdict = v]]
          /\ keychain' \in {keychain, [keychain EXCEPT ![a] = k.saved.keys[a]]}
          /\ v # "retained" => keychain'[a] = k.saved.keys[a]
    <2>1. CASE RestoreKey(p, a)
      <3>1. [k EXCEPT !.gone = k.gone \ {a}] = [k EXCEPT !.gone = k.gone \ {a}, !.verdict = k.verdict]
        BY <1>1 DEF Commands
      <3>2. cmd' = [cmd EXCEPT ![p] = [k EXCEPT !.gone = k.gone \ {a}, !.verdict = k.verdict]]
        BY <2>1, <3>1 DEF RestoreKey, Goes
      <3>3. k.saved.keys[a] = NotFound => keychain[a] = NotFound
        BY <1>1 DEF Phase
      <3> QED
        BY <1>1, <2>1, <3>2, <3>3 DEF RestoreKey, TypeOK
    <2>2. CASE RestoreKeyFails(p, a)
      BY <2>2 DEF RestoreKeyFails, Goes
    <2> QED
      BY <2>1, <2>2
  <1>3. UNCHANGED <<file, disk, lock, outcome>> /\ faults' \in Nat
    BY <1>1, FaultOK DEF RestoreKey, RestoreKeyFails, TypeOK
  <1>4. cmd'[p] = [k EXCEPT !.gone = k.gone \ {a}, !.verdict = v]
    BY <1>1, <1>2 DEF TypeOK
  <1>5. /\ cmd'[p] \in Commands
        /\ cmd'[p].pc = "restoreKeys" /\ cmd'[p].next = k.next
        /\ cmd'[p].staged = k.staged /\ cmd'[p].dels = k.dels
        /\ cmd'[p].base = k.base /\ cmd'[p].gone = k.gone \ {a} /\ cmd'[p].status = k.status
        /\ cmd'[p].verdict = v /\ cmd'[p].saved = k.saved
    <2> DEFINE gone == k.gone \ {a}
    <2>1. gone \subseteq Accounts /\ v \in Verdicts
      BY <1>1 DEF Commands, Verdicts
    <2> HIDE DEF gone
    <2> QED
      BY <1>1, <1>4, <2>1 DEF Commands, gone
  <1>6. /\ disk = {file} /\ file = k.next /\ Captured(k)
        /\ \A b \in Accounts : keychain[b] \in {k.saved.keys[b], NotFound}
        /\ k.verdict \in {"none", "retained"}
        /\ k.verdict = "none" => \A b \in Accounts \ k.gone : Holds(k, b)
    BY <1>1 DEF Phase
  <1>7. /\ \A b \in Accounts : keychain'[b] \in {k.saved.keys[b], NotFound}
        /\ v = "none" => \A b \in Accounts \ (k.gone \ {a}) : keychain'[b] = k.saved.keys[b]
    BY <1>1, <1>2, <1>6 DEF Holds, TypeOK
  <1>8. Linked(cmd[p])'
    BY <1>1, <1>5 DEF Linked, Distinct, Refs, SlotOf
  <1>9. Captured(cmd[p])'
    BY <1>5, <1>6 DEF Captured, SlotOf, WantOf
  <1>10. Phase(cmd[p])'
    BY <1>1, <1>2, <1>3, <1>5, <1>6, <1>7, <1>8, <1>9 DEF Phase, Holds
  <1>11. \A m \in disk : a \notin Refs(m)
    BY <1>1, <1>6 DEF Linked
  <1>12. /\ keychain' \in [Accounts -> Edits \cup {NotFound}]
         /\ disk' \subseteq Contents \cup {NoFile} /\ file' \in disk' /\ Documents'
    <2>1. CASE keychain' = keychain
      BY <1>3, <2>1 DEF IInv, TypeOK, Documents, Readable, Secret, Distinct
    <2>2. CASE keychain' = [keychain EXCEPT ![a] = k.saved.keys[a]]
      <3>1. k.saved.keys[a] \in Edits \cup {NotFound}
        BY <1>1, <1>6 DEF Captured, Commands, Saves
      <3> QED
        BY <1>3, <1>11, <2>2, <3>1, Unreferenced
    <2> QED
      BY <1>2, <2>1, <2>2
  <1> QED
    BY <1>1, <1>2, <1>3, <1>4, <1>5, <1>10, <1>12, Loud DEF Critical, TypeOK

\* All replaced accounts are deleted.
LEMMA CommitDoneInv ==
  ASSUME IInv, NEW p \in Procs, CommitDone(p)
  PROVE  IInv'
  <1>1. lock = p /\ faults' \in Nat
    BY DEF IInv, TypeOK, CommitDone, At, LockHeld, Critical
  <1> QED
    BY <1>1, EndsWith DEF CommitDone

\* The document may come back only when all its accounts have.
LEMMA RestoreKeysDoneInv ==
  ASSUME IInv, NEW p \in Procs, RestoreKeysDone(p)
  PROVE  IInv'
  <1> DEFINE k == cmd[p]
             at == IF k.verdict = "retained" THEN "unlock" ELSE "restoreFile"
  <1>1. /\ k \in Commands /\ Phase(k) /\ k.pc = "restoreKeys" /\ lock = p /\ TypeOK
        /\ Linked(k) /\ k.gone = {}
    BY DEF IInv, TypeOK, RestoreKeysDone, At, LockHeld, Critical, Phase
  <1>2. UNCHANGED <<file, disk, keychain, lock, outcome, faults>>
    BY DEF RestoreKeysDone
  <1>3. cmd' = [cmd EXCEPT ![p] = [k EXCEPT !.pc = at]]
    BY DEF RestoreKeysDone, Goes
  <1>4. cmd'[p] = [k EXCEPT !.pc = at]
    BY <1>1, <1>3 DEF TypeOK
  <1>5. /\ cmd'[p] \in Commands
        /\ cmd'[p].pc = at /\ cmd'[p].next = k.next
        /\ cmd'[p].staged = k.staged /\ cmd'[p].dels = k.dels
        /\ cmd'[p].base = k.base /\ cmd'[p].gone = k.gone /\ cmd'[p].status = k.status
        /\ cmd'[p].verdict = k.verdict /\ cmd'[p].saved = k.saved
    BY <1>1, <1>4 DEF Commands, Steps
  <1>6. Phase(cmd[p])'
    <2>1. Linked(cmd[p])'
      BY <1>1, <1>5 DEF Linked, Distinct, Refs, SlotOf
    <2>2. Captured(cmd[p])'
      BY <1>1, <1>5 DEF Phase, Captured, SlotOf, WantOf
    <2>3. at = "restoreFile" => \A a \in Accounts : Holds(k, a)
      BY <1>1 DEF Phase
    <2> QED
      BY <1>1, <1>2, <1>5, <2>1, <2>2, <2>3 DEF Phase, Holds
  <1> QED
    BY <1>1, <1>2, <1>3, <1>4, <1>5, <1>6, Quiet DEF Critical, TypeOK

\* restoreConfigContents renames the captured document back.
LEMMA RestoreFileInv ==
  ASSUME IInv, NEW p \in Procs, RestoreFile(p)
  PROVE  IInv'
  <1> DEFINE k == cmd[p]
  <1>1. /\ k \in Commands /\ Phase(k) /\ k.pc = "restoreFile" /\ lock = p /\ TypeOK
        /\ Linked(k) /\ Captured(k)
    BY DEF IInv, TypeOK, RestoreFile, At, LockHeld, Critical, Phase
  <1>2. /\ file' = k.base /\ disk' = disk \cup {k.base}
        /\ UNCHANGED <<keychain, lock, outcome, faults>>
    BY <1>1 DEF RestoreFile, Captured
  <1>3. cmd' = [cmd EXCEPT ![p] = [k EXCEPT !.pc = "restoreSync"]]
    BY DEF RestoreFile, Goes
  <1>4. cmd'[p] = [k EXCEPT !.pc = "restoreSync"]
    BY <1>1, <1>3 DEF TypeOK
  <1>5. /\ cmd'[p] \in Commands
        /\ cmd'[p].pc = "restoreSync" /\ cmd'[p].next = k.next
        /\ cmd'[p].staged = k.staged /\ cmd'[p].dels = k.dels
        /\ cmd'[p].base = k.base /\ cmd'[p].gone = k.gone /\ cmd'[p].status = k.status
        /\ cmd'[p].verdict = k.verdict /\ cmd'[p].saved = k.saved
    BY <1>1, <1>4 DEF Commands, Steps
  <1>6. Linked(cmd[p])' /\ Captured(cmd[p])'
    BY <1>1, <1>5 DEF Linked, Captured, Distinct, Refs, SlotOf, WantOf
  <1>7. Phase(cmd[p])'
    BY <1>1, <1>2, <1>5, <1>6 DEF Phase
  <1>8. Readable(k.base) /\ Distinct(k.base) /\ k.base \in Contents \cup {NoFile}
    BY <1>1 DEF Phase, Captured, Holds, Linked, Readable, Secret, Commands
  <1>9. Documents'
    BY <1>2, <1>8 DEF IInv, Documents, Readable, Distinct, Secret
  <1> QED
    BY <1>1, <1>2, <1>3, <1>4, <1>5, <1>7, <1>8, <1>9, Loud DEF Critical, TypeOK

\* The barrier after the restoring rename.
LEMMA RestoreSyncInv ==
  ASSUME IInv, NEW p \in Procs, RestoreSync(p)
  PROVE  IInv'
  <1> DEFINE k == cmd[p]
  <1>1. /\ k \in Commands /\ Phase(k) /\ k.pc = "restoreSync" /\ lock = p /\ TypeOK
        /\ Linked(k) /\ file = k.base
    BY DEF IInv, TypeOK, RestoreSync, At, LockHeld, Critical, Phase
  <1>2. disk' = {file} /\ UNCHANGED <<file, keychain, lock, outcome, faults>>
    BY DEF RestoreSync
  <1>3. cmd' = [cmd EXCEPT ![p] = Fails(k)]
    BY DEF RestoreSync, Goes
  <1>4. cmd'[p] = Fails(k)
    BY <1>1, <1>3 DEF TypeOK
  <1>5. /\ cmd'[p] \in Commands /\ cmd'[p].pc = "rollback" /\ cmd'[p].verdict = "failed"
        /\ cmd'[p].status = k.status /\ cmd'[p].base = k.base /\ cmd'[p].staged = k.staged
    BY <1>1, <1>4 DEF Commands, Steps, Verdicts, Fails
  <1>6. Invisible(cmd[p])'
    BY <1>1, <1>2, <1>5 DEF Invisible, Linked, Refs, SlotOf
  <1>7. Phase(cmd[p])'
    BY <1>1, <1>5, <1>6 DEF Phase
  <1>8. Documents' /\ file \in Contents \cup {NoFile}
    BY <1>2 DEF IInv, Documents, Readable, Distinct, Secret, TypeOK
  <1> QED
    BY <1>1, <1>2, <1>3, <1>4, <1>5, <1>7, <1>8, Loud DEF Critical, TypeOK

\* The document cannot be put back.
LEMMA RestoreFailsInv ==
  ASSUME IInv, NEW p \in Procs, RestoreFails(p)
  PROVE  IInv'
  <1>1. lock = p /\ faults' \in Nat
    BY FaultOK DEF IInv, RestoreFails, At, LockHeld, Critical
  <1> QED
    BY <1>1, EndsWith DEF RestoreFails

\* txn.rollback discards a staged account, or cannot.
LEMMA RollbackInv ==
  ASSUME IInv, NEW p \in Procs, NEW a \in Accounts, Rollback(p, a) \/ RollbackFails(p, a)
  PROVE  IInv'
  <1> DEFINE k == cmd[p]
  <1>1. /\ k \in Commands /\ Phase(k) /\ k.pc = "rollback" /\ lock = p /\ TypeOK
        /\ Invisible(k) /\ a \in k.staged
    BY DEF IInv, TypeOK, Rollback, RollbackFails, At, LockHeld, Critical, Phase
  <1>2. /\ keychain' \in {keychain, [keychain EXCEPT ![a] = NotFound]}
        /\ UNCHANGED <<file, disk, lock, outcome>> /\ faults' \in Nat
    BY <1>1, FaultOK DEF Rollback, RollbackFails, TypeOK
  <1>3. cmd' = [cmd EXCEPT ![p] = [k EXCEPT !.staged = k.staged \ {a}]]
    BY DEF Rollback, RollbackFails, Goes
  <1>4. cmd'[p] = [k EXCEPT !.staged = k.staged \ {a}]
    BY <1>1, <1>3 DEF TypeOK
  <1>5. /\ cmd'[p] \in Commands /\ cmd'[p].pc = "rollback" /\ cmd'[p].verdict = k.verdict
        /\ cmd'[p].status = k.status /\ cmd'[p].base = k.base
        /\ cmd'[p].staged = k.staged \ {a}
    <2> DEFINE staged == k.staged \ {a}
    <2>1. staged \subseteq Accounts
      BY <1>1 DEF Commands
    <2> HIDE DEF staged
    <2> QED
      BY <1>1, <1>4, <2>1 DEF Commands, staged
  <1>6. Phase(cmd[p])'
    BY <1>1, <1>2, <1>5 DEF Phase, Invisible, Refs, SlotOf
  <1>7. \A m \in disk : a \notin Refs(m)
    BY <1>1 DEF Invisible
  <1>8. /\ keychain' \in [Accounts -> Edits \cup {NotFound}]
        /\ disk' \subseteq Contents \cup {NoFile} /\ file' \in disk' /\ Documents'
    <2>1. CASE keychain' = keychain
      BY <1>2, <2>1 DEF IInv, TypeOK, Documents, Readable, Secret, Distinct
    <2>2. CASE keychain' = [keychain EXCEPT ![a] = NotFound]
      BY <1>2, <1>7, <2>2, Unreferenced
    <2> QED
      BY <1>2, <2>1, <2>2
  <1> QED
    BY <1>1, <1>2, <1>3, <1>4, <1>5, <1>6, <1>8, Loud DEF Critical, TypeOK

\* txn.rollback is done.
LEMMA RollbackDoneInv ==
  ASSUME IInv, NEW p \in Procs, RollbackDone(p)
  PROVE  IInv'
  <1> DEFINE k == cmd[p]
  <1>1. /\ k \in Commands /\ Phase(k) /\ k.pc = "rollback" /\ lock = p /\ TypeOK
        /\ k.verdict = "failed"
    BY DEF IInv, TypeOK, RollbackDone, At, LockHeld, Critical, Phase
  <1>2. UNCHANGED <<file, disk, keychain, lock, outcome, faults>>
    BY DEF RollbackDone
  <1>3. cmd' = [cmd EXCEPT ![p] = [k EXCEPT !.pc = "unlock"]]
    BY DEF RollbackDone, Goes
  <1>4. cmd'[p] = [k EXCEPT !.pc = "unlock"]
    BY <1>1, <1>3 DEF TypeOK
  <1>5. /\ cmd'[p] \in Commands /\ cmd'[p].pc = "unlock" /\ cmd'[p].verdict = "failed"
        /\ cmd'[p].status = k.status /\ cmd'[p].base = k.base
    BY <1>1, <1>4 DEF Commands, Steps
  <1>6. Phase(cmd[p])'
    BY <1>1, <1>5 DEF Phase
  <1> QED
    BY <1>1, <1>2, <1>3, <1>4, <1>5, <1>6, Quiet DEF Critical, TypeOK

\* writeConfig returns.
LEMMA UnlockInv ==
  ASSUME IInv, NEW p \in Procs, Unlock(p)
  PROVE  IInv'
  <1> DEFINE k == cmd[p]
             r == AfterWrite(k, k.verdict)
  <1>1. k \in Commands /\ Phase(k) /\ k.pc = "unlock" /\ lock = p /\ TypeOK
        /\ k.verdict # "none"
    BY DEF IInv, TypeOK, Unlock, At, LockHeld, Critical, Phase
  <1>2. lock' = Free /\ UNCHANGED <<file, disk, keychain, faults>>
    BY DEF Unlock
  <1>3. cmd' = [cmd EXCEPT ![p] = r]
    BY DEF Unlock, Goes
  <1>4. cmd'[p] = r
    BY <1>1, <1>3 DEF TypeOK
  <1>5. r \in Commands /\ r.pc \in {"idle", "loaded", "refresh"} /\ Phase(r)
    BY <1>1, AfterWriteOK DEF Phase
  <1> HIDE DEF r
  <1>6. Phase(cmd[p])'
    BY <1>4, <1>5 DEF Phase, Untouched
  <1>7. outcome' \in [Edits -> {"unused", "pending"} \cup (Verdicts \ {"none"})]
    BY <1>1 DEF Unlock, Reported, TypeOK, Commands
  <1>8. lock' # p
    BY <1>2, ConstantsOK
  <1> QED
    BY <1>1, <1>2, <1>3, <1>4, <1>5, <1>6, <1>7, <1>8, Quiet DEF TypeOK, Critical

\* refreshKeychainRuntimeAfterWrite reads the migrated document.
LEMMA RefreshInv ==
  ASSUME IInv, NEW p \in Procs, Refresh(p)
  PROVE  IInv'
  <1> DEFINE k == cmd[p]
  <1>1. k \in Commands /\ Phase(k) /\ k.pc = "refresh" /\ lock # p /\ TypeOK
        /\ Untouched(k)
    BY DEF IInv, TypeOK, Refresh, At, LockHeld, Critical, Phase
  <1>2. UNCHANGED <<file, disk, keychain, lock, outcome, faults>>
    BY DEF Refresh
  <1>3. CASE file = NoFile
    <2>1. cmd' = [cmd EXCEPT ![p] = NoCommand]
      BY <1>3 DEF Refresh, Goes
    <2>2. cmd'[p] = NoCommand
      BY <1>1, <2>1 DEF TypeOK
    <2>3. NoCommand \in Commands /\ NoCommand.pc = "idle"
      BY DEF NoCommand, Commands, Steps, Statuses, Verdicts
    <2>4. Phase(cmd[p])'
      BY <2>2 DEF NoCommand, Phase, Untouched
    <2> QED
      BY <1>1, <1>2, <2>1, <2>2, <2>3, <2>4, Quiet DEF Critical, TypeOK
  <1>4. CASE file # NoFile
    <2> DEFINE status == [c \in Creds |-> IF SlotOf(file)[c] \in Accounts
                                         THEN "unresolved" ELSE "none"]
    <2>1. cmd' = [cmd EXCEPT ![p] = [k EXCEPT !.pc = "resolve", !.base = file, !.status = status]]
      BY <1>4 DEF Refresh, Goes, LoadedFrom
    <2>2. cmd'[p] = [k EXCEPT !.pc = "resolve", !.base = file, !.status = status]
      BY <1>1, <2>1 DEF TypeOK
    <2>3. status \in [Creds -> Statuses] /\ file \in Contents \cup {NoFile}
      BY <1>1 DEF Statuses, TypeOK
    <2>4. \A c \in Creds : status[c] # "none" => SlotOf(file)[c] \in Accounts
      OBVIOUS
    <2> HIDE DEF status
    <2>5. /\ cmd'[p] \in Commands /\ cmd'[p].pc = "resolve" /\ cmd'[p].base = file
          /\ cmd'[p].status = status /\ Untouched(cmd'[p])
      BY <1>1, <2>2, <2>3 DEF Commands, Steps, Untouched
    <2>6. Phase(cmd[p])'
      BY <1>2, <2>4, <2>5 DEF Phase, Untouched, SlotOf
    <2> QED
      BY <1>1, <1>2, <2>1, <2>2, <2>5, <2>6, Quiet DEF Critical, TypeOK
  <1> QED
    BY <1>3, <1>4

\* A process dies.
LEMMA CrashInv ==
  ASSUME IInv, NEW p \in Procs, Crash(p)
  PROVE  IInv'
  <1>1. TypeOK /\ UNCHANGED <<file, disk, keychain, outcome>> /\ faults' \in Nat
    BY FaultOK DEF Crash, IInv
  <1>2. cmd' = [cmd EXCEPT ![p] = NoCommand]
    BY DEF Crash, Goes
  <1>3. cmd'[p] = NoCommand
    BY <1>1, <1>2 DEF TypeOK
  <1>4. Phase(cmd[p])'
    BY <1>3 DEF NoCommand, Phase, Untouched
  <1>5. lock' = (IF lock = p THEN Free ELSE lock) /\ lock' # p
    BY ConstantsOK DEF Crash
  <1> QED
    BY <1>1, <1>2, <1>3, <1>4, <1>5, IdleOK, Quiet DEF Critical, TypeOK

\* The machine loses power.
LEMMA PowerLossInv ==
  ASSUME IInv, PowerLoss
  PROVE  IInv'
  <1>1. /\ TypeOK /\ file' \in disk /\ disk' = {file'} /\ lock' = Free
        /\ cmd' = [p \in Procs |-> NoCommand] /\ UNCHANGED <<keychain, outcome>>
        /\ faults' \in Nat
    BY FaultOK DEF PowerLoss, IInv
  <1>2. \A p \in Procs : cmd'[p] = NoCommand
    BY <1>1
  <1>3. TypeOK'
    BY <1>1, IdleOK DEF TypeOK
  <1>4. Documents'
    BY <1>1 DEF IInv, Documents, Readable, Distinct, Secret
  <1>5. LockHeld'
    BY <1>1, <1>2, IdleOK, ConstantsOK DEF LockHeld, Critical
  <1>6. ASSUME NEW p \in Procs
        PROVE  Phase(cmd[p])'
    BY <1>2 DEF NoCommand, Phase, Untouched
  <1> QED
    BY <1>1, <1>3, <1>4, <1>5, <1>6 DEF IInv

-------------------------------------------------------------------------------
(* The invariant and the theorems *)

\* Every step preserves the invariant.
LEMMA StepInv == IInv /\ [Next]_vars => IInv'
  <1> SUFFICES ASSUME IInv, [Next]_vars
               PROVE  IInv'
    OBVIOUS
  <1>1. CASE UNCHANGED vars
    <2>1. \A p \in Procs : Phase(cmd[p])'
      BY <1>1, StandsStill DEF vars, IInv
    <2>2. TypeOK' /\ (file \in disk)' /\ LockHeld'
      BY <1>1 DEF vars, IInv, TypeOK, LockHeld
    <2>3. Documents'
      BY <1>1 DEF vars, IInv, Documents, Readable, Distinct, Secret
    <2> QED
      BY <2>1, <2>2, <2>3 DEF IInv
  <1>2. ASSUME NEW p \in Procs, Continue(p)
        PROVE  IInv'
    BY <1>2, ResolveInv, StageInv, StagePlaintextInv, FinishLoadInv, QuitInv, AcquireInv,
       LockTimeoutInv, ValidateInv, StageDoneInv, PreflightInv, InstallInv, SyncDirectoryInv,
       DeleteOldInv, RestoreKeyInv, RollbackInv, CommitDoneInv, RestoreKeysDoneInv,
       RestoreFileInv, RestoreSyncInv, RollbackDoneInv, UnlockInv, RefreshInv
    DEF Continue
  <1>3. ASSUME NEW p \in Procs, Disturb(p)
        PROVE  IInv'
    BY <1>3, ResolveInv, StageFailsInv, DeleteFailsInv, RestoreKeyInv, RollbackInv,
       WriteFailsInv, SyncFailsInv, RestoreFailsInv, CrashInv
    DEF Disturb
  <1>4. ASSUME NEW p \in Procs, Load(p) \/ \E e \in Edits : Mutate(p, e)
        PROVE  IInv'
    BY <1>4, LoadInv, MutateInv
  <1> QED
    BY <1>1, <1>2, <1>3, <1>4, PowerLossInv DEF Next

\* Every variable keeps its type. The type of a document to be written depends
\* on Integrity: what is staged is plaintext of the loaded document, and only a
\* readable document's plaintext is a secret.
THEOREM TypeCorrect == Spec => []TypeOK
  <1>1. IInv => TypeOK
    BY DEF IInv
  <1> QED
    BY <1>1, InitInv, StepInv, PTL DEF Spec

\* For any number of processes, credentials, edits, accounts and failures, every
\* document that can be found, at any step of any write or after a power loss,
\* yields the secrets its author meant (writeConfig: rename, barrier, deletion).
THEOREM IntegrityHolds == Spec => []Integrity
  <1>1. IInv => Integrity
    BY DEF IInv, Integrity, Documents
  <1> QED
    BY <1>1, InitInv, StepInv, PTL DEF Spec

-------------------------------------------------------------------------------
(* Nothing is left in the keychain *)

\* What a command answers for: before the rename the entries it has created,
\* after it those that it has replaced.
InHand(k) == IF k.pc \in {"stage", "preflight", "install"} THEN k.staged
             ELSE IF k.pc \in {"sync", "commit"} THEN k.dels
             ELSE {}

\* A command knows of every reference in what it has loaded; what it takes for
\* missing is not there.
Known(k, keys) ==
  \A c \in Creds : SlotOf(k.base)[c] \in Accounts =>
    /\ k.status[c] # "none"
    /\ k.status[c] = "missing" => keys[SlotOf(k.base)[c]] = NotFound

\* What a command creates it will write, and what the new document no longer
\* refers to it will delete, or it is not there.
Settled(k, keys) ==
  /\ k.staged \subseteq Refs(k.next)
  /\ \A c \in k.need : k.next.slot[c] = SlotOf(k.base)[c]
  /\ \A a \in Refs(k.base) \ (Refs(k.next) \cup k.dels) : keys[a] = NotFound

\* Nothing that did not fail is taken back.
Tidy(k, keys) ==
  /\ Known(k, keys)
  /\ k.pc \notin {"restoreKeys", "restoreFile", "restoreSync", "rollback"}
  /\ k.pc \in {"stage", "preflight", "install"} => Settled(k, keys)

Kept ==
  /\ \A p \in Procs : Tidy(cmd[p], keychain)
  /\ \A a \in Accounts : keychain[a] # NotFound =>
       a \in Refs(file) \/ \E p \in Procs : a \in InHand(cmd[p])

KInv == faults = 0 /\ PolicyOff = {} => Kept

\* What a command knows stays true while entries are deleted, or created under
\* names that what it has loaded does not refer to.
LEMMA TidyKept ==
  ASSUME NEW k \in Commands, NEW keys, NEW keys2, Tidy(k, keys),
         \A a \in Refs(k.base) : keys2[a] \in {keys[a], NotFound}
  PROVE  Tidy(k, keys2)
  <1>1. Known(k, keys2)
    BY DEF Tidy, Known, Refs
  <1>2. Settled(k, keys) => Settled(k, keys2)
    BY DEF Settled
  <1> QED
    BY <1>1, <1>2 DEF Tidy

\* A command that is not writing is tidy when it knows its references.
LEMMA TidyOutside ==
  ASSUME NEW j, NEW k, NEW keys, Tidy(j, keys),
         k.base = j.base, k.status = j.status,
         k.pc \in {"idle", "resolve", "loaded", "refresh", "lock", "validate", "unlock"}
  PROVE  Tidy(k, keys) /\ InHand(k) = {}
  BY DEF Tidy, Known, InHand

\* A step of one process. It deletes what no one needs or creates what is
\* fresh, and everything that stays is referred to or in the process's hand.
LEMMA KeptByOne ==
  ASSUME TypeOK, Kept, NEW p \in Procs, NEW k, Goes(p, k),
         \A a \in Accounts : \/ keychain'[a] \in {keychain[a], NotFound}
                             \/ \A q \in Procs : a \notin Refs(cmd[q].base),
         Tidy(k, keychain'),
         \A a \in Accounts : keychain'[a] # NotFound =>
           \/ a \in Refs(file') \cup InHand(k)
           \/ keychain[a] # NotFound /\ a \notin Refs(file) \cup InHand(cmd[p])
  PROVE  Kept'
  <1>1. cmd'[p] = k /\ \A q \in Procs \ {p} : cmd'[q] = cmd[q] /\ cmd[q] \in Commands
    BY DEF TypeOK, Goes
  <1>2. ASSUME NEW q \in Procs
        PROVE  Tidy(cmd[q], keychain)'
    <2>1. CASE q = p
      BY <1>1, <2>1 DEF Tidy, Known, Settled, SlotOf, Refs
    <2>2. CASE q # p
      <3>1. Tidy(cmd[q], keychain) /\ \A a \in Refs(cmd[q].base) : a \in Accounts
        BY DEF Kept, Refs
      <3>2. Tidy(cmd[q], keychain')
        BY <1>1, <2>2, <3>1, TidyKept
      <3> QED
        BY <1>1, <2>2, <3>2 DEF Tidy, Known, Settled, SlotOf, Refs
    <2> QED
      BY <2>1, <2>2
  <1>3. ASSUME NEW a \in Accounts, keychain'[a] # NotFound
        PROVE  a \in Refs(file)' \/ \E q \in Procs : a \in InHand(cmd[q])'
    <2>1. Refs(file)' = Refs(file') /\ \A q \in Procs : InHand(cmd[q])' = InHand(cmd'[q])
      BY DEF Refs, SlotOf, InHand
    <2>2. CASE a \in Refs(file') \cup InHand(k)
      BY <1>1, <2>1, <2>2
    <2>3. CASE keychain[a] # NotFound /\ a \notin Refs(file) \cup InHand(cmd[p])
      <3>1. PICK q \in Procs : a \in InHand(cmd[q])
        BY <2>3 DEF Kept
      <3>2. q # p
        BY <2>3, <3>1
      <3> QED
        BY <1>1, <2>1, <3>1, <3>2
    <2> QED
      BY <1>3, <2>2, <2>3
  <1> QED
    BY <1>2, <1>3 DEF Kept

\* A step that leaves the file and the keychain alone and lets go of nothing.
LEMMA KeptQuietly ==
  ASSUME TypeOK, Kept, NEW p \in Procs, NEW k, Goes(p, k), UNCHANGED <<file, keychain>>,
         Tidy(k, keychain), InHand(cmd[p]) \subseteq InHand(k)
  PROVE  Kept'
  <1>1. Tidy(k, keychain')
    BY DEF Tidy, Known, Settled
  <1>2. \A a \in Accounts : keychain'[a] # NotFound =>
           \/ a \in Refs(file') \cup InHand(k)
           \/ keychain[a] # NotFound /\ a \notin Refs(file) \cup InHand(cmd[p])
    OBVIOUS
  <1>3. \A a \in Accounts : keychain'[a] \in {keychain[a], NotFound}
    OBVIOUS
  <1> QED
    BY <1>1, <1>2, <1>3, KeptByOne

\* A process that runs nothing knows nothing.
LEMMA IdleTidy ==
  ASSUME NEW keys
  PROVE  Tidy(NoCommand, keys) /\ InHand(NoCommand) = {}
  <1>1. NoCommand.pc = "idle" /\ NoCommand.base = NoFile
    BY DEF NoCommand
  <1>2. \A c \in Creds : SlotOf(NoFile)[c] \notin Accounts
    BY ConstantsOK DEF SlotOf
  <1> QED
    BY <1>1, <1>2 DEF Tidy, Known, InHand

\* What a write leaves to its process is tidy.
LEMMA AfterWriteTidy ==
  ASSUME NEW k, NEW v, NEW keys, Tidy(k, keys)
  PROVE  Tidy(AfterWrite(k, v), keys) /\ InHand(AfterWrite(k, v)) = {}
  <1>1. CASE k.edit # NoEdit
    BY <1>1, IdleTidy DEF AfterWrite
  <1>2. CASE k.edit = NoEdit
    <2>1. /\ AfterWrite(k, v).base = k.base /\ AfterWrite(k, v).status = k.status
          /\ AfterWrite(k, v).pc \in {"refresh", "loaded"}
      BY <1>2 DEF AfterWrite, NoCommand
    <2> QED
      BY <2>1, TidyOutside
  <1> QED
    BY <1>1, <1>2

\* A document that was just loaded is known.
LEMMA LoadedTidy ==
  ASSUME NEW m, NEW k, NEW keys,
         k.base = m, k.pc = "resolve",
         k.status = [c \in Creds |-> IF SlotOf(m)[c] \in Accounts
                                     THEN "unresolved" ELSE "none"]
  PROVE  Tidy(k, keys) /\ InHand(k) = {}
  BY DEF Tidy, Known, InHand

\* Before the lock, at the lock and after it: a command that is not writing
\* touches nothing (load, the resolution of its references, the edit, the wait
\* for the lock).
LEMMA OutsideKept ==
  ASSUME IInv, Kept, PolicyOff = {}, NEW p \in Procs,
         \/ Load(p) \/ Refresh(p) \/ FinishLoad(p) \/ Quit(p)
         \/ \E c \in Creds : Resolve(p, c)
         \/ \E e \in Edits : Mutate(p, e)
         \/ Acquire(p) \/ LockTimeout(p) \/ Unlock(p)
  PROVE  Kept'
  <1> DEFINE k == cmd[p]
  <1>1. k \in Commands /\ TypeOK /\ Tidy(k, keychain)
    BY DEF IInv, TypeOK, Kept
  <1>2. UNCHANGED <<file, keychain>>
    BY DEF Load, Refresh, FinishLoad, Quit, Resolve, Mutate, Acquire, LockTimeout, Unlock
  <1>3. InHand(k) = {}
    BY DEF Load, Refresh, FinishLoad, Quit, Resolve, Mutate, Acquire, LockTimeout, Unlock, At,
           MayResolve, InHand
  <1>4. SUFFICES \E j : Goes(p, j) /\ Tidy(j, keychain)
    BY <1>1, <1>2, <1>3, KeptQuietly
  <1>5. CASE Load(p)
    <2>1. LoadedFrom(file, NoCommand).base = file
          /\ LoadedFrom(file, NoCommand).pc = "resolve"
          /\ LoadedFrom(file, NoCommand).status =
               [c \in Creds |-> IF SlotOf(file)[c] \in Accounts THEN "unresolved" ELSE "none"]
      BY DEF LoadedFrom, NoCommand
    <2> QED
      BY <1>5, <2>1, LoadedTidy DEF Load
  <1>6. CASE Refresh(p)
    <2>1. LoadedFrom(file, k).base = file
          /\ LoadedFrom(file, k).pc = "resolve"
          /\ LoadedFrom(file, k).status =
               [c \in Creds |-> IF SlotOf(file)[c] \in Accounts THEN "unresolved" ELSE "none"]
      BY <1>1 DEF LoadedFrom, Commands
    <2> QED
      BY <1>6, <2>1, LoadedTidy, IdleTidy DEF Refresh
  <1>7. CASE FinishLoad(p)
    <2>1. PICK j \in {[k EXCEPT !.pc = "lock", !.next = k.base], [k EXCEPT !.pc = "loaded"]} :
            Goes(p, j)
      BY <1>7 DEF FinishLoad
    <2>2. j.base = k.base /\ j.status = k.status /\ j.pc \in {"lock", "loaded"}
      BY <1>1, <2>1 DEF Commands
    <2> QED
      BY <1>1, <2>1, <2>2, TidyOutside
  <1>8. CASE Quit(p)
    BY <1>8, IdleTidy DEF Quit
  <1>9. ASSUME NEW c \in Creds, Resolve(p, c)
        PROVE  \E j : Goes(p, j) /\ Tidy(j, keychain)
    <2> DEFINE found == IF Secret(k.base.slot[c]) = NotFound THEN "missing" ELSE "backed"
               j == [k EXCEPT !.status[c] = found]
    <2>1. Goes(p, j)
      BY <1>9 DEF Resolve
    <2>2. /\ k.pc \in {"resolve", "loaded"} /\ k.status[c] # "none"
          /\ SlotOf(k.base)[c] \in Accounts
      BY <1>9 DEF Resolve, MayResolve, At, IInv, Phase
    <2>3. k.base.slot[c] = SlotOf(k.base)[c]
      BY <2>2, ConstantsOK DEF SlotOf
    <2>4. j.base = k.base /\ j.pc = k.pc /\ j.status = [k.status EXCEPT ![c] = found]
      BY <1>1 DEF Commands
    <2>5. found = "missing" => keychain[SlotOf(k.base)[c]] = NotFound
      BY <2>2, <2>3 DEF Secret
    <2>6. k.status \in [Creds -> Statuses] /\ found # "none"
      BY <1>1 DEF Commands
    <2> HIDE DEF j, found
    <2>7. Known(j, keychain)
      <3> SUFFICES ASSUME NEW d \in Creds, SlotOf(k.base)[d] \in Accounts
                   PROVE  /\ j.status[d] # "none"
                          /\ j.status[d] = "missing" => keychain[SlotOf(k.base)[d]] = NotFound
        BY <2>4 DEF Known
      <3>1. CASE d = c
        BY <2>4, <2>5, <2>6, <3>1
      <3>2. CASE d # c
        BY <1>1, <2>4, <2>6, <3>2 DEF Tidy, Known
      <3> QED
        BY <3>1, <3>2
    <2>8. Tidy(j, keychain)
      BY <2>2, <2>4, <2>7 DEF Tidy
    <2> QED
      BY <2>1, <2>8
  <1>10. ASSUME NEW e \in Edits, Mutate(p, e)
         PROVE  \E j : Goes(p, j) /\ Tidy(j, keychain)
    <2>1. PICK touched, m : Goes(p, [k EXCEPT !.pc = "lock", !.edit = e,
                                              !.touched = touched, !.next = m])
      BY <1>10 DEF Mutate
    <2> DEFINE j == [k EXCEPT !.pc = "lock", !.edit = e, !.touched = touched, !.next = m]
    <2>2. j.base = k.base /\ j.status = k.status /\ j.pc = "lock"
      BY <1>1 DEF Commands
    <2> HIDE DEF j
    <2>3. Tidy(j, keychain)
      BY <1>1, <2>2, TidyOutside
    <2> QED
      BY <2>1, <2>3 DEF j
  <1>11. CASE Acquire(p)
    <2>1. Goes(p, [k EXCEPT !.pc = "validate"])
      BY <1>11 DEF Acquire
    <2> DEFINE j == [k EXCEPT !.pc = "validate"]
    <2>2. j.base = k.base /\ j.status = k.status /\ j.pc = "validate"
      BY <1>1 DEF Commands
    <2> HIDE DEF j
    <2>3. Tidy(j, keychain)
      BY <1>1, <2>2, TidyOutside
    <2> QED
      BY <2>1, <2>3 DEF j
  <1>12. CASE LockTimeout(p) \/ Unlock(p)
    <2>1. PICK v : Goes(p, AfterWrite(k, v))
      BY <1>12 DEF LockTimeout, Unlock
    <2> QED
      BY <1>1, <2>1, AfterWriteTidy
  <1> QED
    BY <1>5, <1>6, <1>7, <1>8, <1>9, <1>10, <1>11, <1>12

\* Under the lock: an account that a cleared field leaves is to be deleted,
\* unless the load did not find it (reconcileKeychain).
LEMMA ValidateKept ==
  ASSUME IInv, Kept, NEW p \in Procs, Validate(p)
  PROVE  Kept'
  <1> DEFINE k == cmd[p]
  <1>1. /\ k \in Commands /\ TypeOK /\ Tidy(k, keychain) /\ k.pc = "validate"
        /\ Untouched(k) /\ Intended(k)
    BY DEF IInv, TypeOK, Kept, Validate, At, Phase
  <1>2. UNCHANGED <<file, keychain>> /\ InHand(k) = {}
    BY <1>1 DEF Validate, InHand
  <1>3. CASE file # k.base
    <2> DEFINE j == [k EXCEPT !.pc = "unlock", !.verdict = "failed"]
    <2>1. Goes(p, j)
      BY <1>3 DEF Validate
    <2>2. j.base = k.base /\ j.status = k.status /\ j.pc = "unlock"
      BY <1>1 DEF Commands
    <2> HIDE DEF j
    <2> QED
      BY <1>1, <1>2, <2>1, <2>2, TidyOutside, KeptQuietly
  <1>4. CASE file = k.base
    <2> DEFINE slots == [c \in Creds |-> IF c \in Cleared(k) THEN Unset ELSE k.next.slot[c]]
               dels  == UNION { OldAccount(k, c) : c \in Cleared(k) }
               j     == [k EXCEPT !.pc = "stage", !.need = Unstaged(k),
                                  !.dels = dels, !.next.slot = slots]
    <2>1. Goes(p, j)
      BY <1>4 DEF Validate
    <2>2. /\ k.next \in Contents /\ k.next # NoFile /\ k.next.slot = SlotOf(k.base)
          /\ slots \in [Creds -> Edits \cup Accounts \cup {Unset}]
      BY <1>1 DEF Commands, Contents, Intended
    <2>3. [k.next EXCEPT !.slot = slots] \in Contents
      BY <2>2 DEF Contents
    <2>4. \A c \in Creds : slots[c] = IF c \in Cleared(k) THEN Unset ELSE SlotOf(k.base)[c]
      BY <2>2
    <2>5. \A c \in Cleared(k) : OldAccount(k, c) \subseteq dels
      OBVIOUS
    <2> HIDE DEF slots, dels
    <2>6. /\ j.pc = "stage" /\ j.base = k.base /\ j.status = k.status /\ j.staged = {}
          /\ j.need = Unstaged(k) /\ j.dels = dels /\ j.next = [k.next EXCEPT !.slot = slots]
      BY <1>1 DEF Commands, Untouched
    <2>7. SlotOf(j.next) = slots /\ j.next.slot = slots
      BY <2>2, <2>3, <2>6, NoFileOK DEF SlotOf, Contents
    <2> HIDE DEF j
    <2>8. Settled(j, keychain)
      <3>1. \A c \in Unstaged(k) : c \in Creds /\ c \notin Cleared(k)
        BY <1>1 DEF Unstaged, Cleared, Commands
      <3>2. ASSUME NEW a \in Refs(k.base) \ (Refs(j.next) \cup dels)
            PROVE  keychain[a] = NotFound
        <4>1. PICK c \in Creds : SlotOf(k.base)[c] = a
          BY <3>2 DEF Refs
        <4>2. a \in Accounts /\ slots[c] # a
          BY <2>7, <3>2, <4>1 DEF Refs
        <4>3. c \in Cleared(k)
          BY <2>4, <4>1, <4>2
        <4>4. k.status[c] \notin Live
          BY <2>5, <3>2, <4>1, <4>3 DEF OldAccount
        <4>5. k.status[c] = "missing"
          BY <1>1, <4>1, <4>2, <4>4 DEF Live, Tidy, Known, Commands, Statuses
        <4> QED
          BY <1>1, <4>1, <4>2, <4>5 DEF Tidy, Known
      <3> QED
        BY <2>4, <2>6, <2>7, <3>1, <3>2 DEF Settled
    <2>9. Tidy(j, keychain) /\ InHand(k) \subseteq InHand(j)
      BY <1>1, <1>2, <2>6, <2>8 DEF Tidy, Known
    <2> QED
      BY <1>1, <1>2, <2>1, <2>9, KeptQuietly
  <1> QED
    BY <1>3, <1>4

\* A staged entry is in the new document; the account it replaces is to be
\* deleted, unless the load did not find it (stageBoundSet).
LEMMA StageKept ==
  ASSUME IInv, Kept, NEW p \in Procs, NEW c \in Creds, Stage(p, c)
  PROVE  Kept'
  <1> DEFINE k == cmd[p]
             n == NewAccount
  <1>1. /\ k \in Commands /\ TypeOK /\ k.pc = "stage" /\ c \in k.need
        /\ \E a \in Accounts : Fresh(a)
        /\ Tidy(k, keychain) /\ Settled(k, keychain) /\ Linked(k)
    BY DEF IInv, TypeOK, Kept, Stage, At, Phase, Tidy
  <1>2. n \in Accounts /\ \A q \in Procs : n \notin Refs(cmd[q].base)
    BY <1>1, FreshOK
  <1>3. n \notin Refs(k.base) /\ n \notin Refs(k.next)
    BY <1>1, FreshOK
  <1> DEFINE j == [k EXCEPT !.need = k.need \ {c}, !.staged = k.staged \cup {n},
                            !.dels = k.dels \cup OldAccount(k, c), !.next.slot[c] = n]
  <1>4. /\ Goes(p, j) /\ keychain' = [keychain EXCEPT ![n] = k.next.want[c]]
        /\ UNCHANGED file
    BY DEF Stage
  <1> HIDE DEF n
  <1> DEFINE next == [k.next EXCEPT !.slot[c] = n]
  <1>5. /\ k.next \in Contents /\ k.next # NoFile /\ next \in Contents
        /\ next.slot = [k.next.slot EXCEPT ![c] = n]
    BY <1>1, <1>2 DEF Linked, Commands, Contents
  <1>6. SlotOf(next) = next.slot /\ SlotOf(k.next) = k.next.slot
    BY <1>5, NoFileOK DEF SlotOf
  <1>7. \A d \in Creds : next.slot[d] = IF d = c THEN n ELSE k.next.slot[d]
    BY <1>5 DEF Contents
  <1> HIDE DEF next
  <1>8. /\ j.pc = "stage" /\ j.base = k.base /\ j.status = k.status
        /\ j.need = k.need \ {c} /\ j.staged = k.staged \cup {n}
        /\ j.dels = k.dels \cup OldAccount(k, c) /\ j.next = next
    BY <1>1 DEF Commands, next
  <1> HIDE DEF j
  <1>9. k.need \subseteq Creds /\ k.next.slot[c] = SlotOf(k.base)[c]
    BY <1>1 DEF Commands, Settled
  <1>10. \A a \in Accounts : a # n => keychain'[a] = keychain[a]
    BY <1>1, <1>4 DEF TypeOK
  <1>11. Refs(k.next) \ {SlotOf(k.base)[c]} \subseteq Refs(next) /\ n \in Refs(next)
    BY <1>2, <1>6, <1>7, <1>9 DEF Refs
  <1>12. Settled(j, keychain')
    <2>1. j.staged \subseteq Refs(next)
      <3>1. k.staged \subseteq Refs(k.next) /\ k.staged \cap Refs(k.base) = {}
        BY <1>1 DEF Settled, Linked
      <3>2. \A a \in k.staged : a # SlotOf(k.base)[c]
        BY <1>9, <3>1 DEF Refs
      <3> QED
        BY <1>8, <1>11, <3>1, <3>2
    <2>2. \A d \in j.need : next.slot[d] = SlotOf(k.base)[d]
      BY <1>1, <1>7, <1>8, <1>9 DEF Settled
    <2>3. ASSUME NEW a \in Refs(k.base) \ (Refs(next) \cup j.dels)
          PROVE  keychain'[a] = NotFound
      <3>1. a \in Accounts /\ a # n /\ keychain'[a] = keychain[a]
        BY <1>3, <1>10, <2>3 DEF Refs
      <3>2. CASE a \notin Refs(k.next)
        BY <1>1, <1>8, <2>3, <3>1, <3>2 DEF Settled
      <3>3. CASE a \in Refs(k.next)
        <4>1. a = SlotOf(k.base)[c] /\ a \notin OldAccount(k, c)
          BY <1>8, <1>11, <2>3, <3>3
        <4>2. k.status[c] \notin Live
          BY <4>1 DEF OldAccount
        <4>3. k.status[c] = "missing"
          BY <1>1, <1>9, <3>1, <4>1, <4>2 DEF Live, Tidy, Known, Commands, Statuses
        <4> QED
          BY <1>1, <1>9, <3>1, <4>1, <4>3 DEF Tidy, Known
      <3> QED
        BY <3>2, <3>3
    <2> QED
      BY <1>8, <2>1, <2>2, <2>3 DEF Settled
  <1>13. Tidy(j, keychain')
    <2>1. Tidy(k, keychain')
      BY <1>1, <1>3, <1>10, TidyKept DEF Refs
    <2> QED
      BY <1>8, <1>12, <2>1 DEF Tidy, Known
  <1>14. \A a \in Accounts : keychain'[a] # NotFound =>
           \/ a \in Refs(file') \cup InHand(j)
           \/ keychain[a] # NotFound /\ a \notin Refs(file) \cup InHand(k)
    BY <1>1, <1>4, <1>8, <1>10 DEF InHand
  <1> QED
    BY <1>1, <1>2, <1>4, <1>10, <1>13, <1>14, KeptByOne

\* The write goes on to the rename, or ends with nothing staged.
LEMMA PrepareKept ==
  ASSUME IInv, Kept, PolicyOff = {}, NEW p \in Procs, StageDone(p) \/ Preflight(p)
  PROVE  Kept'
  <1> DEFINE k == cmd[p]
  <1>1. k \in Commands /\ TypeOK /\ Tidy(k, keychain) /\ k.pc \in {"stage", "preflight"}
    BY DEF IInv, TypeOK, Kept, StageDone, Preflight, At
  <1>2. UNCHANGED <<file, keychain>> /\ InHand(k) = k.staged
    BY <1>1 DEF StageDone, Preflight, InHand
  <1>3. PICK at, v, s : /\ Goes(p, [k EXCEPT !.pc = at, !.verdict = v, !.saved = s])
                        /\ \/ at \in {"preflight", "install"}
                           \/ at = "unlock" /\ k.staged = {}
    <2>1. CASE StageDone(p)
      <3>1. \/ Goes(p, [k EXCEPT !.pc = "unlock", !.verdict = "failed"]) /\ k.staged = {}
            \/ Goes(p, [k EXCEPT !.pc = "preflight"])
        BY <2>1 DEF StageDone
      <3>2. /\ [k EXCEPT !.pc = "unlock", !.verdict = "failed"]
                 = [k EXCEPT !.pc = "unlock", !.verdict = "failed", !.saved = k.saved]
            /\ [k EXCEPT !.pc = "preflight"]
                 = [k EXCEPT !.pc = "preflight", !.verdict = k.verdict, !.saved = k.saved]
        BY <1>1 DEF Commands
      <3> QED
        BY <3>1, <3>2
    <2>2. CASE Preflight(p)
      <3>1. \/ Goes(p, [k EXCEPT !.pc = "install"])
            \/ Goes(p, [k EXCEPT !.pc = "install", !.saved = [file |-> file, keys |-> keychain]])
        BY <2>2 DEF Preflight
      <3> DEFINE s == [file |-> file, keys |-> keychain]
      <3> HIDE DEF s
      <3>2. /\ [k EXCEPT !.pc = "install"]
                 = [k EXCEPT !.pc = "install", !.verdict = k.verdict, !.saved = k.saved]
            /\ [k EXCEPT !.pc = "install", !.saved = s]
                 = [k EXCEPT !.pc = "install", !.verdict = k.verdict, !.saved = s]
        BY <1>1 DEF Commands
      <3> QED
        BY <3>1, <3>2 DEF s
    <2> QED
      BY <2>1, <2>2
  <1> DEFINE j == [k EXCEPT !.pc = at, !.verdict = v, !.saved = s]
  <1>4. /\ j.pc = at /\ j.base = k.base /\ j.status = k.status /\ j.next = k.next
        /\ j.need = k.need /\ j.staged = k.staged /\ j.dels = k.dels
    BY <1>1 DEF Commands
  <1>5. Goes(p, j)
    BY <1>3
  <1> HIDE DEF j
  <1>6. Tidy(j, keychain)
    BY <1>1, <1>3, <1>4 DEF Tidy, Known, Settled
  <1>7. InHand(k) \subseteq InHand(j)
    BY <1>2, <1>3, <1>4 DEF InHand
  <1> QED
    BY <1>1, <1>2, <1>5, <1>6, <1>7, KeptQuietly

\* The rename: the entries created are now the document's, and those it no
\* longer refers to are in the hand of the command.
LEMMA InstallKept ==
  ASSUME IInv, Kept, NEW p \in Procs, Install(p)
  PROVE  Kept'
  <1> DEFINE k == cmd[p]
             j == [k EXCEPT !.pc = "sync"]
  <1>1. /\ k \in Commands /\ TypeOK /\ k.pc = "install" /\ Tidy(k, keychain)
        /\ Settled(k, keychain) /\ Staging(k)
    BY DEF IInv, TypeOK, Kept, Install, At, Phase, Tidy
  <1>2. Goes(p, j) /\ UNCHANGED keychain /\ file' = k.next
    BY DEF Install
  <1>3. j.pc = "sync" /\ j.base = k.base /\ j.status = k.status /\ j.dels = k.dels
    BY <1>1 DEF Commands
  <1> HIDE DEF j
  <1>4. Tidy(j, keychain')
    BY <1>1, <1>2, <1>3 DEF Tidy, Known
  <1>5. ASSUME NEW a \in Accounts, keychain'[a] # NotFound, a \in Refs(file) \cup InHand(k)
        PROVE  a \in Refs(file') \cup InHand(j)
    <2>1. Refs(file) = Refs(k.base) /\ InHand(k) = k.staged /\ InHand(j) = k.dels
      BY <1>1, <1>3 DEF Staging, InHand
    <2> QED
      BY <1>1, <1>2, <1>5, <2>1 DEF Settled
  <1>6. \A a \in Accounts : keychain'[a] \in {keychain[a], NotFound}
    BY <1>2
  <1> QED
    BY <1>1, <1>2, <1>4, <1>5, <1>6, KeptByOne

\* After the rename: the barrier, the deletions, the end (txn.commit).
LEMMA FinishKept ==
  ASSUME IInv, Kept, NEW p \in Procs,
         SyncDirectory(p) \/ CommitDone(p) \/ \E a \in Accounts : DeleteOld(p, a)
  PROVE  Kept'
  <1> DEFINE k == cmd[p]
  <1>1. k \in Commands /\ TypeOK /\ Tidy(k, keychain) /\ k.pc \in {"sync", "commit"}
    BY DEF IInv, TypeOK, Kept, SyncDirectory, CommitDone, DeleteOld, At
  <1>2. InHand(k) = k.dels /\ UNCHANGED file
    BY <1>1 DEF InHand, SyncDirectory, CommitDone, DeleteOld
  <1>3. CASE SyncDirectory(p)
    <2> DEFINE j == [k EXCEPT !.pc = "commit"]
    <2>1. Goes(p, j) /\ UNCHANGED keychain
      BY <1>3 DEF SyncDirectory
    <2>2. j.pc = "commit" /\ j.base = k.base /\ j.status = k.status /\ j.dels = k.dels
      BY <1>1 DEF Commands
    <2> HIDE DEF j
    <2>3. Tidy(j, keychain) /\ InHand(k) \subseteq InHand(j)
      BY <1>1, <1>2, <2>2 DEF Tidy, Known, InHand
    <2> QED
      BY <1>1, <1>2, <2>1, <2>3, KeptQuietly
  <1>4. CASE CommitDone(p)
    <2> DEFINE j == [k EXCEPT !.pc = "unlock", !.verdict = "ok"]
    <2>1. Goes(p, j) /\ UNCHANGED keychain /\ k.dels = {}
      BY <1>4 DEF CommitDone
    <2>2. j.pc = "unlock" /\ j.base = k.base /\ j.status = k.status
      BY <1>1 DEF Commands
    <2> HIDE DEF j
    <2>3. Tidy(j, keychain)
      BY <1>1, <2>2, TidyOutside
    <2> QED
      BY <1>1, <1>2, <2>1, <2>3, KeptQuietly
  <1>5. ASSUME NEW a \in Accounts, DeleteOld(p, a)
        PROVE  Kept'
    <2> DEFINE j == [k EXCEPT !.dels = k.dels \ {a}, !.gone = k.gone \cup {a}]
    <2>1. Goes(p, j) /\ keychain' = [keychain EXCEPT ![a] = NotFound] /\ k.pc = "commit"
      BY <1>5 DEF DeleteOld, At
    <2>2. j.pc = "commit" /\ j.base = k.base /\ j.status = k.status /\ j.dels = k.dels \ {a}
      BY <1>1, <2>1 DEF Commands
    <2> HIDE DEF j
    <2>3. \A b \in Accounts : keychain'[b] = IF b = a THEN NotFound ELSE keychain[b]
      BY <1>1, <2>1 DEF TypeOK
    <2>4. Tidy(k, keychain')
      BY <1>1, <2>3, TidyKept DEF Refs
    <2>5. Tidy(j, keychain')
      BY <2>1, <2>2, <2>4 DEF Tidy, Known
    <2>6. \A b \in Accounts : keychain'[b] # NotFound =>
            \/ b \in Refs(file') \cup InHand(j)
            \/ keychain[b] # NotFound /\ b \notin Refs(file) \cup InHand(k)
      BY <1>2, <2>2, <2>3 DEF InHand
    <2> QED
      BY <1>1, <2>1, <2>3, <2>5, <2>6, KeptByOne
  <1> QED
    BY <1>3, <1>4, <1>5

\* Initially every entry is the document's, and no command runs.
LEMMA InitKept == Init => KInv
  <1> SUFFICES ASSUME Init
               PROVE  Kept
    BY DEF KInv
  <1>1. \A p \in Procs : Tidy(cmd[p], keychain)
    BY IdleTidy DEF Init
  <1>2. \A a \in Accounts : keychain[a] # NotFound => a \in Refs(file)
    BY DEF Init
  <1> QED
    BY <1>1, <1>2 DEF Kept

\* Every step preserves it: a step that fails counts as a failure, and without
\* one nothing is rolled back or restored.
LEMMA StepKept == IInv /\ KInv /\ [Next]_vars => KInv'
  <1> SUFFICES ASSUME IInv, KInv, [Next]_vars, faults' = 0, PolicyOff = {}
               PROVE  Kept'
    BY DEF KInv
  <1>1. TypeOK /\ ~Fault
    BY DEF IInv, TypeOK, Fault
  <1>2. ~PowerLoss /\ \A p \in Procs : ~Disturb(p)
    BY <1>1 DEF PowerLoss, Disturb, ResolveFails, StageFails, DeleteFails, RestoreKeyFails,
                RollbackFails, WriteFails, SyncFails, RestoreFails, Crash
  <1>3. CASE UNCHANGED vars
    <2>1. Kept
      BY <1>3 DEF KInv, vars
    <2> QED
      BY <1>3, <2>1 DEF vars, Kept, Tidy, Known, Settled, Refs, SlotOf, InHand
  <1>4. ASSUME NEW p \in Procs,
               Load(p) \/ (\E e \in Edits : Mutate(p, e)) \/ Continue(p)
        PROVE  Kept'
    <2>1. UNCHANGED faults
      BY <1>4 DEF Load, Mutate, Continue, Resolve, Stage, StagePlaintext, FinishLoad, Quit,
                  Acquire, LockTimeout, Validate, StageDone, Preflight, Install, SyncDirectory,
                  DeleteOld, RestoreKey, Rollback, CommitDone, RestoreKeysDone, RestoreFile,
                  RestoreSync, RollbackDone, Unlock, Refresh
    <2>2. Kept /\ cmd[p].pc \notin {"restoreKeys", "restoreFile", "restoreSync", "rollback"}
      BY <2>1 DEF KInv, Kept, Tidy
    <2>3. \A c \in Creds : ~StagePlaintext(p, c)
      BY DEF StagePlaintext
    <2>4. /\ \A a \in Accounts : ~RestoreKey(p, a) /\ ~Rollback(p, a)
          /\ ~RestoreKeysDone(p) /\ ~RestoreFile(p) /\ ~RestoreSync(p) /\ ~RollbackDone(p)
      BY <2>2 DEF RestoreKey, Rollback, RestoreKeysDone, RestoreFile, RestoreSync, RollbackDone, At
    <2> QED
      BY <1>4, <2>2, <2>3, <2>4, OutsideKept, ValidateKept, StageKept, PrepareKept,
         InstallKept, FinishKept
      DEF Continue
  <1> QED
    BY <1>2, <1>3, <1>4 DEF Next

\* As long as nothing fails and the keychain is on, whatever number of
\* processes, edits and credentials there are and however their writes
\* interleave, no entry outlives the reference to it (writeConfig deletes what
\* it replaced once the document is durable; reconcileKeychain knows what that
\* is).
THEOREM NoOrphansHolds == Spec => []NoOrphans
  <1>1. KInv => NoOrphans
    BY DEF KInv, Kept, NoOrphans, At, InHand
  <1> QED
    BY <1>1, InitInv, StepInv, InitKept, StepKept, PTL DEF Spec

-------------------------------------------------------------------------------
(* A command only goes on *)

\* The load and its migration, the load that follows it, the write of the edit.
Round(k) == IF k.edit # NoEdit THEN 2 ELSE IF k.migrated THEN 1 ELSE 0

\* The order of the steps in a round.
Place(s) ==
  CASE s = "refresh"     -> 0  [] s = "resolve"     -> 1  [] s = "loaded"    -> 2
    [] s = "lock"        -> 3  [] s = "validate"    -> 4  [] s = "stage"     -> 5
    [] s = "preflight"   -> 6  [] s = "install"     -> 7  [] s = "sync"      -> 8
    [] s = "commit"      -> 9  [] s = "restoreKeys" -> 10 [] s = "restoreFile" -> 11
    [] s = "restoreSync" -> 12 [] s = "rollback"    -> 13 [] s = "unlock"    -> 14
    [] OTHER             -> 15

\* What is left to do at a step: references, secrets or entries, one by one.
Left(k) ==
  CASE k.pc \in {"resolve", "loaded"} -> { c \in Creds : k.status[c] = "unresolved" }
    [] k.pc = "stage"       -> k.need
    [] k.pc = "commit"      -> k.dels
    [] k.pc = "restoreKeys" -> k.gone
    [] k.pc = "rollback"    -> k.staged
    [] OTHER                -> {}

\* Command k is later than j: over, in a later round, at a later step of the
\* round, or at the same step with less left to do.
Later(j, k) ==
  \/ k = NoCommand
  \/ Round(k) > Round(j)
  \/ Round(k) = Round(j) /\ Place(k.pc) > Place(j.pc)
  \/ Round(k) = Round(j) /\ k.pc = j.pc /\ Left(k) \subseteq Left(j) /\ Left(k) # Left(j)

\* loader.go load, which reloads after its migration, and writeConfig: whatever
\* fails and whoever interferes, no command comes back to a step it has been
\* at with as much to do as before. Rounds and steps are few and what is left
\* shrinks, so that a command takes a bounded number of steps.
OnlyGoesOn ==
  [][\A p \in Procs : cmd[p].pc # "idle" /\ cmd'[p] # cmd[p] => Later(cmd[p], cmd'[p])]_vars

\* An edit begins after the load, a migration is made once.
Once(k) ==
  /\ k.pc \in {"resolve", "loaded", "refresh"} => k.edit = NoEdit
  /\ k.pc = "refresh" => k.migrated
  /\ k.pc \in Critical \cup {"lock"} /\ k.edit = NoEdit => ~k.migrated

AllOnce == \A p \in Procs : Once(cmd[p])

\* Process p moves its command on.
Moves(p) == \E k : Goes(p, k) /\ Once(k) /\ (cmd[p].pc = "idle" \/ Later(cmd[p], k))

\* The order of the steps, and which of them are steps of a write.
LEMMA Places ==
  /\ Place("refresh") = 0      /\ Place("resolve") = 1      /\ Place("loaded") = 2
  /\ Place("lock") = 3         /\ Place("validate") = 4     /\ Place("stage") = 5
  /\ Place("preflight") = 6    /\ Place("install") = 7      /\ Place("sync") = 8
  /\ Place("commit") = 9       /\ Place("restoreKeys") = 10 /\ Place("restoreFile") = 11
  /\ Place("restoreSync") = 12 /\ Place("rollback") = 13    /\ Place("unlock") = 14
  BY DEF Place

\* A command that does nothing is later than any.
LEMMA IdleMoves == ASSUME NEW p \in Procs, Goes(p, NoCommand) PROVE Moves(p)
  BY DEF Moves, Once, NoCommand, Later, Critical

\* A later step of the same write.
LEMMA Forward ==
  ASSUME NEW p \in Procs, NEW k, Goes(p, k), Once(cmd[p]),
         k.edit = cmd[p].edit, k.migrated = cmd[p].migrated,
         cmd[p].pc \in Critical \cup {"lock"}, k.pc \in Critical,
         Place(k.pc) > Place(cmd[p].pc)
  PROVE  Moves(p)
  BY DEF Moves, Once, Later, Round, Critical

\* The same step with less left to do.
LEMMA Shrinks ==
  ASSUME NEW p \in Procs, NEW k, Goes(p, k), Once(cmd[p]),
         k.edit = cmd[p].edit, k.migrated = cmd[p].migrated, k.pc = cmd[p].pc,
         Left(k) \subseteq Left(cmd[p]), Left(k) # Left(cmd[p])
  PROVE  Moves(p)
  BY DEF Moves, Once, Later, Round

\* What follows a write (writeConfig and load): nothing, or the next round.
LEMMA AfterWriteMoves ==
  ASSUME NEW p \in Procs, NEW v, Goes(p, AfterWrite(cmd[p], v)),
         Once(cmd[p]), cmd[p].pc \in {"lock", "unlock"}
  PROVE  Moves(p)
  <1> DEFINE j == cmd[p]
             k == AfterWrite(j, v)
  <1>1. CASE j.edit # NoEdit
    BY <1>1, IdleMoves DEF AfterWrite
  <1>2. CASE j.edit = NoEdit
    <2>1. /\ k.pc \in {"refresh", "loaded"}
          /\ k.edit = NoEdit /\ k.migrated = TRUE
      BY <1>2 DEF AfterWrite, NoCommand
    <2>2. ~j.migrated
      BY <1>2 DEF Once, Critical
    <2>3. Round(k) = 1 /\ Round(j) = 0
      BY <1>2, <2>1, <2>2 DEF Round
    <2>4. Later(j, k)
      BY <2>3 DEF Later
    <2>5. Once(k)
      BY <2>1 DEF Once, Critical
    <2> QED
      BY <2>4, <2>5 DEF Moves
  <1> QED
    BY <1>1, <1>2

\* The steps outside the lock.
LEMMA OutsideMoves ==
  ASSUME TypeOK, NEW p \in Procs, Once(cmd[p]),
         \/ Load(p) \/ FinishLoad(p) \/ Quit(p) \/ LockTimeout(p) \/ Unlock(p)
         \/ Refresh(p) \/ Crash(p)
         \/ \E c \in Creds : Resolve(p, c) \/ ResolveFails(p, c)
         \/ \E e \in Edits : Mutate(p, e)
  PROVE  Moves(p)
  <1> DEFINE j == cmd[p]
  <1>0. j \in Commands
    BY DEF TypeOK
  <1>1. CASE Load(p)
    <2> DEFINE k == LoadedFrom(file, NoCommand)
    <2>1. Goes(p, k) /\ j.pc = "idle"
      BY <1>1 DEF Load, At
    <2>2. k.pc = "resolve" /\ k.edit = NoEdit /\ k.migrated = FALSE
      BY DEF LoadedFrom, NoCommand
    <2> QED
      BY <2>1, <2>2 DEF Moves, Once, Critical
  <1>2. CASE FinishLoad(p)
    <2>1. j.pc = "resolve" /\ j.edit = NoEdit
      BY <1>2 DEF FinishLoad, At, Once
    <2>2. PICK k : /\ Goes(p, k)
                   /\ k.edit = j.edit /\ k.migrated = j.migrated
                   /\ k.pc = "loaded" \/ (k.pc = "lock" /\ ~j.migrated)
      <3>1. CASE PlaintextInMemory(j) /\ ~j.migrated
        <4> DEFINE k == [j EXCEPT !.pc = "lock", !.next = j.base]
        <4>1. Goes(p, k)
          BY <1>2, <3>1 DEF FinishLoad
        <4>2. k.pc = "lock" /\ k.edit = j.edit /\ k.migrated = j.migrated
          BY <1>0 DEF Commands
        <4> QED
          BY <3>1, <4>1, <4>2
      <3>2. CASE ~(PlaintextInMemory(j) /\ ~j.migrated)
        <4> DEFINE k == [j EXCEPT !.pc = "loaded"]
        <4>1. Goes(p, k)
          BY <1>2, <3>2 DEF FinishLoad
        <4>2. k.pc = "loaded" /\ k.edit = j.edit /\ k.migrated = j.migrated
          BY <1>0 DEF Commands
        <4> QED
          BY <4>1, <4>2
      <3> QED
        BY <3>1, <3>2
    <2>3. Place(k.pc) > Place(j.pc)
      BY <2>1, <2>2, Places
    <2>4. Round(k) = Round(j)
      BY <2>2 DEF Round
    <2>5. Once(k)
      BY <2>1, <2>2 DEF Once, Critical
    <2> QED
      BY <2>2, <2>3, <2>4, <2>5 DEF Moves, Later
  <1>3. CASE Quit(p) \/ Crash(p)
    BY <1>3, IdleMoves DEF Quit, Crash
  <1>4. CASE LockTimeout(p) \/ Unlock(p)
    BY <1>4, AfterWriteMoves DEF LockTimeout, Unlock, At
  <1>5. CASE Refresh(p)
    <2>1. j.pc = "refresh" /\ j.edit = NoEdit /\ j.migrated
      BY <1>5 DEF Refresh, At, Once
    <2>2. CASE file = NoFile
      BY <1>5, <2>2, IdleMoves DEF Refresh
    <2>3. CASE file # NoFile
      <3> DEFINE k == LoadedFrom(file, j)
      <3>1. Goes(p, k)
        BY <1>5, <2>3 DEF Refresh
      <3>2. k.pc = "resolve" /\ k.edit = j.edit /\ k.migrated = j.migrated
        BY <1>0 DEF LoadedFrom, Commands
      <3>3. Round(k) = Round(j) /\ Place(k.pc) > Place(j.pc)
        BY <2>1, <3>2, Places DEF Round
      <3>4. Once(k)
        BY <2>1, <3>2 DEF Once, Critical
      <3> QED
        BY <3>1, <3>3, <3>4 DEF Moves, Later
    <2> QED
      BY <2>2, <2>3
  <1>6. ASSUME NEW c \in Creds, Resolve(p, c) \/ ResolveFails(p, c)
        PROVE  Moves(p)
    <2>1. j.pc \in {"resolve", "loaded"} /\ j.status[c] = "unresolved"
      BY <1>6 DEF Resolve, ResolveFails, MayResolve, At
    <2>2. PICK found \in {"preserved", "missing", "backed"} :
            Goes(p, [j EXCEPT !.status[c] = found])
      BY <1>6 DEF Resolve, ResolveFails
    <2> DEFINE k == [j EXCEPT !.status[c] = found]
    <2>3. /\ k.pc = j.pc /\ k.edit = j.edit /\ k.migrated = j.migrated
          /\ k.status = [j.status EXCEPT ![c] = found]
      BY <1>0 DEF Commands
    <2>4. /\ Left(j) = { d \in Creds : j.status[d] = "unresolved" }
          /\ Left(k) = { d \in Creds : k.status[d] = "unresolved" }
      BY <2>1, <2>3 DEF Left
    <2>5. c \in Left(j) /\ c \notin Left(k) /\ Left(k) \subseteq Left(j)
      BY <1>0, <2>1, <2>2, <2>3, <2>4 DEF Commands
    <2> QED
      BY <2>2, <2>3, <2>5, Shrinks
  <1>7. ASSUME NEW e \in Edits, Mutate(p, e)
        PROVE  Moves(p)
    <2>1. j.pc = "loaded" /\ j.edit = NoEdit
      BY <1>7 DEF Mutate, At, Once
    <2>2. PICK t, n : Goes(p, [j EXCEPT !.pc = "lock", !.edit = e, !.touched = t, !.next = n])
      BY <1>7 DEF Mutate
    <2> DEFINE k == [j EXCEPT !.pc = "lock", !.edit = e, !.touched = t, !.next = n]
    <2>3. k.pc = "lock" /\ k.edit = e /\ e # NoEdit
      BY <1>0, ConstantsOK DEF Commands
    <2>4. Round(k) > Round(j) /\ Once(k)
      BY <2>1, <2>3 DEF Round, Once, Critical
    <2> QED
      BY <2>2, <2>4 DEF Moves, Later
  <1> QED
    BY <1>1, <1>2, <1>3, <1>4, <1>5, <1>6, <1>7


\* The steps under the lock that lead to another step.
LEMMA ForwardMoves ==
  ASSUME TypeOK, NEW p \in Procs, Once(cmd[p]),
         \/ Acquire(p) \/ Validate(p) \/ StageDone(p) \/ Preflight(p) \/ WriteFails(p)
         \/ Install(p) \/ SyncDirectory(p) \/ SyncFails(p) \/ CommitDone(p)
         \/ RestoreKeysDone(p) \/ RestoreFile(p) \/ RestoreSync(p) \/ RestoreFails(p)
         \/ RollbackDone(p)
         \/ \E c \in Creds : StageFails(p, c)
         \/ \E a \in Accounts : DeleteFails(p, a)
  PROVE  Moves(p)
  <1> DEFINE j == cmd[p]
  <1>0. j \in Commands
    BY DEF TypeOK
  <1>1. CASE Acquire(p)
    <2> DEFINE k == [j EXCEPT !.pc = "validate"]
    <2>1. k.pc = "validate" /\ k.edit = j.edit /\ k.migrated = j.migrated
      BY <1>0 DEF Commands
    <2>2. Goes(p, k) /\ j.pc = "lock"
      BY <1>1 DEF Acquire, At
    <2> HIDE DEF k
    <2> QED
      BY <2>1, <2>2, Forward, Places DEF Critical
  <1>2. CASE Validate(p)
    <2>1. j.pc = "validate"
      BY <1>2 DEF Validate, At
    <2>2. CASE file = j.base
      <3> DEFINE dels == UNION { OldAccount(j, c) : c \in Cleared(j) }
                 slot == [c \in Creds |-> IF c \in Cleared(j) THEN Unset ELSE j.next.slot[c]]
                 k == [j EXCEPT !.pc = "stage", !.need = Unstaged(j), !.dels = dels,
                                !.next.slot = slot]
      <3>1. Goes(p, k)
        BY <1>2, <2>2 DEF Validate
      <3> HIDE DEF dels, slot
      <3>2. k.pc = "stage" /\ k.edit = j.edit /\ k.migrated = j.migrated
        BY <1>0 DEF Commands
      <3> HIDE DEF k
      <3> QED
        BY <2>1, <3>1, <3>2, Forward, Places DEF Critical
    <2>3. CASE file # j.base
      <3> DEFINE k == [j EXCEPT !.pc = "unlock", !.verdict = "failed"]
      <3>1. Goes(p, k)
        BY <1>2, <2>3 DEF Validate
      <3>2. k.pc = "unlock" /\ k.edit = j.edit /\ k.migrated = j.migrated
        BY <1>0 DEF Commands
      <3> HIDE DEF k
      <3> QED
        BY <2>1, <3>1, <3>2, Forward, Places DEF Critical
    <2> QED
      BY <2>2, <2>3
  <1>3. Goes(p, Fails(j)) => \/ Moves(p)
                             \/ j.pc \notin Critical
                             \/ Place(j.pc) >= 13
    <2> DEFINE k == Fails(j)
    <2>1. k.pc = "rollback" /\ k.edit = j.edit /\ k.migrated = j.migrated
      BY <1>0 DEF Fails, Commands
    <2> HIDE DEF k
    <2>2. SUFFICES ASSUME Goes(p, k), j.pc \in Critical, Place(j.pc) < 13
                   PROVE  Moves(p)
      BY Places DEF k, Critical
    <2> QED
      BY <2>1, <2>2, Forward, Places DEF Critical
  <1>4. ASSUME NEW v, Goes(p, [j EXCEPT !.pc = "unlock", !.verdict = v]),
               j.pc \in Critical \ {"unlock"}
        PROVE  Moves(p)
    <2> DEFINE k == [j EXCEPT !.pc = "unlock", !.verdict = v]
    <2>1. k.pc = "unlock" /\ k.edit = j.edit /\ k.migrated = j.migrated
      BY <1>0 DEF Commands
    <2> HIDE DEF k
    <2>2. Place(j.pc) < 14
      BY <1>4, Places DEF Critical
    <2>3. Goes(p, k)
      BY <1>4 DEF k
    <2> QED
      BY <1>4, <2>1, <2>2, <2>3, Forward, Places DEF Critical
  <1>5. ASSUME NEW at \in Critical, Goes(p, [j EXCEPT !.pc = at]),
               j.pc \in Critical, Place(at) > Place(j.pc)
        PROVE  Moves(p)
    <2> DEFINE k == [j EXCEPT !.pc = at]
    <2>1. k.pc = at /\ k.edit = j.edit /\ k.migrated = j.migrated
      BY <1>0 DEF Commands
    <2> QED
      BY <1>5, <2>1, Forward
  <1>6. CASE StageDone(p)
    <2>1. j.pc = "stage"
      BY <1>6 DEF StageDone, At
    <2>2. \/ Goes(p, [j EXCEPT !.pc = "unlock", !.verdict = "failed"])
          \/ Goes(p, [j EXCEPT !.pc = "preflight"])
      BY <1>6 DEF StageDone
    <2>3. Goes(p, [j EXCEPT !.pc = "preflight"]) => Moves(p)
      BY <1>5, <2>1, Places DEF Critical
    <2>4. Goes(p, [j EXCEPT !.pc = "unlock", !.verdict = "failed"]) => Moves(p)
      BY <1>4, <2>1 DEF Critical
    <2> QED
      BY <2>2, <2>3, <2>4
  <1>7. CASE Preflight(p)
    <2>1. j.pc = "preflight"
      BY <1>7 DEF Preflight, At
    <2>2. CASE j.dels # {} /\ p \notin PolicyOff
      <3> DEFINE s == [file |-> file, keys |-> keychain]
                 k == [j EXCEPT !.pc = "install", !.saved = s]
      <3>1. Goes(p, k)
        BY <1>7, <2>2 DEF Preflight
      <3> HIDE DEF s
      <3>2. k.pc = "install" /\ k.edit = j.edit /\ k.migrated = j.migrated
        BY <1>0 DEF Commands
      <3> HIDE DEF k
      <3> QED
        BY <2>1, <3>1, <3>2, Forward, Places DEF Critical
    <2>3. CASE j.dels = {} \/ p \in PolicyOff
      <3>1. Goes(p, [j EXCEPT !.pc = "install"]) \/ Goes(p, Fails(j))
        BY <1>7, <2>3 DEF Preflight
      <3> QED
        BY <1>3, <1>5, <2>1, <3>1, Places DEF Critical
    <2> QED
      BY <2>2, <2>3
  <1>8. CASE WriteFails(p)
    BY <1>3, <1>8, Places DEF WriteFails, At, Critical
  <1>9. CASE Install(p) \/ SyncDirectory(p)
    BY <1>5, <1>9, Places DEF Install, SyncDirectory, At, Critical
  <1>10. CASE SyncFails(p) \/ CommitDone(p) \/ RestoreFails(p)
    BY <1>4, <1>10 DEF SyncFails, CommitDone, RestoreFails, At, Critical
  <1>11. CASE RestoreKeysDone(p)
    <2>1. PICK at \in {"unlock", "restoreFile"} : Goes(p, [j EXCEPT !.pc = at])
      BY <1>11 DEF RestoreKeysDone
    <2> QED
      BY <1>5, <1>11, <2>1, Places DEF RestoreKeysDone, At, Critical
  <1>12. CASE RestoreFile(p) \/ RollbackDone(p)
    BY <1>5, <1>12, Places DEF RestoreFile, RollbackDone, At, Critical
  <1>13. CASE RestoreSync(p)
    BY <1>3, <1>13, Places DEF RestoreSync, At, Critical
  <1>14. ASSUME NEW c \in Creds, StageFails(p, c)
         PROVE  Moves(p)
    <2>1. j.pc = "stage"
      BY <1>14 DEF StageFails, At
    <2>2. CASE Goes(p, Fails(j))
      BY <1>3, <2>1, <2>2, Places DEF Critical
    <2>3. ASSUME NEW s, Goes(p, [Fails(j) EXCEPT !.staged = s])
          PROVE  Moves(p)
      <3> DEFINE k == [Fails(j) EXCEPT !.staged = s]
      <3>1. k.pc = "rollback" /\ k.edit = j.edit /\ k.migrated = j.migrated
        BY <1>0 DEF Fails, Commands
      <3>2. Goes(p, k)
        BY <2>3
      <3> HIDE DEF k
      <3> QED
        BY <2>1, <3>1, <3>2, Forward, Places DEF Critical
    <2> QED
      BY <1>14, <2>2, <2>3 DEF StageFails
  <1>15. ASSUME NEW a \in Accounts, DeleteFails(p, a)
         PROVE  Moves(p)
    <2>1. j.pc = "commit" /\ Goes(p, [j EXCEPT !.pc = "restoreKeys", !.gone = j.gone \cup {a}])
      BY <1>15 DEF DeleteFails, At
    <2> DEFINE k == [j EXCEPT !.pc = "restoreKeys", !.gone = j.gone \cup {a}]
    <2>2. k.pc = "restoreKeys" /\ k.edit = j.edit /\ k.migrated = j.migrated
      BY <1>0 DEF Commands
    <2>3. Goes(p, k)
      BY <2>1
    <2> HIDE DEF k
    <2> QED
      BY <2>1, <2>2, <2>3, Forward, Places DEF Critical
  <1> QED
    BY <1>1, <1>2, <1>6, <1>7, <1>8, <1>9, <1>10, <1>11, <1>12, <1>13, <1>14, <1>15

\* The steps under the lock that deal with one field or entry after another.
LEMMA ShrinkMoves ==
  ASSUME TypeOK, NEW p \in Procs, Once(cmd[p]),
         \/ \E c \in Creds : Stage(p, c) \/ StagePlaintext(p, c)
         \/ \E a \in Accounts : \/ DeleteOld(p, a) \/ RestoreKey(p, a) \/ RestoreKeyFails(p, a)
                                \/ Rollback(p, a) \/ RollbackFails(p, a)
  PROVE  Moves(p)
  <1> DEFINE j == cmd[p]
  <1>0. j \in Commands
    BY DEF TypeOK
  <1>1. ASSUME NEW c \in Creds, Stage(p, c) \/ StagePlaintext(p, c)
        PROVE  Moves(p)
    <2>1. j.pc = "stage" /\ c \in j.need
      BY <1>1 DEF Stage, StagePlaintext, At
    <2>2. PICK k : /\ Goes(p, k)
                   /\ k.pc = j.pc /\ k.edit = j.edit /\ k.migrated = j.migrated
                   /\ k.need = j.need \ {c}
      <3>1. CASE Stage(p, c)
        <4> DEFINE s == j.staged \cup {NewAccount}
                   d == j.dels \cup OldAccount(j, c)
                   n == NewAccount
                   k == [j EXCEPT !.need = j.need \ {c}, !.staged = s, !.dels = d,
                                  !.next.slot[c] = n]
        <4>1. Goes(p, k)
          BY <3>1 DEF Stage
        <4> HIDE DEF s, d, n
        <4>2. /\ k.pc = j.pc /\ k.edit = j.edit /\ k.migrated = j.migrated
              /\ k.need = j.need \ {c}
          BY <1>0 DEF Commands
        <4> QED
          BY <4>1, <4>2
      <3>2. CASE StagePlaintext(p, c)
        <4> DEFINE n == j.next.want[c]
                   k == [j EXCEPT !.need = j.need \ {c}, !.next.slot[c] = n]
        <4>1. Goes(p, k)
          BY <3>2 DEF StagePlaintext
        <4> HIDE DEF n
        <4>2. /\ k.pc = j.pc /\ k.edit = j.edit /\ k.migrated = j.migrated
              /\ k.need = j.need \ {c}
          BY <1>0 DEF Commands
        <4> QED
          BY <4>1, <4>2
      <3> QED
        BY <1>1, <3>1, <3>2
    <2>3. Left(j) = j.need /\ Left(k) = k.need
      BY <2>1, <2>2 DEF Left
    <2> QED
      BY <2>1, <2>2, <2>3, Shrinks
  <1>2. ASSUME NEW a \in Accounts, DeleteOld(p, a)
        PROVE  Moves(p)
    <2> DEFINE k == [j EXCEPT !.dels = j.dels \ {a}, !.gone = j.gone \cup {a}]
    <2>1. j.pc = "commit" /\ a \in j.dels /\ Goes(p, k)
      BY <1>2 DEF DeleteOld, At
    <2>2. /\ k.pc = j.pc /\ k.edit = j.edit /\ k.migrated = j.migrated
          /\ k.dels = j.dels \ {a}
      BY <1>0 DEF Commands
    <2>3. Left(j) = j.dels /\ Left(k) = k.dels
      BY <2>1, <2>2 DEF Left
    <2> QED
      BY <2>1, <2>2, <2>3, Shrinks
  <1>3. ASSUME NEW a \in Accounts, RestoreKey(p, a) \/ RestoreKeyFails(p, a)
        PROVE  Moves(p)
    <2>1. j.pc = "restoreKeys" /\ a \in j.gone
      BY <1>3 DEF RestoreKey, RestoreKeyFails, At
    <2>2. PICK v \in {j.verdict, "retained"} :
            Goes(p, [j EXCEPT !.gone = j.gone \ {a}, !.verdict = v])
      <3>1. [j EXCEPT !.gone = j.gone \ {a}]
              = [j EXCEPT !.gone = j.gone \ {a}, !.verdict = j.verdict]
        BY <1>0 DEF Commands
      <3> QED
        BY <1>3, <3>1 DEF RestoreKey, RestoreKeyFails
    <2> DEFINE k == [j EXCEPT !.gone = j.gone \ {a}, !.verdict = v]
    <2>3. /\ k.pc = j.pc /\ k.edit = j.edit /\ k.migrated = j.migrated
          /\ k.gone = j.gone \ {a}
      BY <1>0 DEF Commands
    <2>4. Left(j) = j.gone /\ Left(k) = k.gone
      BY <2>1, <2>3 DEF Left
    <2> QED
      BY <2>1, <2>2, <2>3, <2>4, Shrinks
  <1>4. ASSUME NEW a \in Accounts, Rollback(p, a) \/ RollbackFails(p, a)
        PROVE  Moves(p)
    <2> DEFINE k == [j EXCEPT !.staged = j.staged \ {a}]
    <2>1. j.pc = "rollback" /\ a \in j.staged /\ Goes(p, k)
      BY <1>4 DEF Rollback, RollbackFails, At
    <2>2. /\ k.pc = j.pc /\ k.edit = j.edit /\ k.migrated = j.migrated
          /\ k.staged = j.staged \ {a}
      BY <1>0 DEF Commands
    <2>3. Left(j) = j.staged /\ Left(k) = k.staged
      BY <2>1, <2>2 DEF Left
    <2> QED
      BY <2>1, <2>2, <2>3, Shrinks
  <1> QED
    BY <1>1, <1>2, <1>3, <1>4

\* Every step of every process moves that process's command on and no other;
\* a power loss ends them all.
LEMMA StepMoves ==
  ASSUME TypeOK, AllOnce, [Next]_vars
  PROVE  /\ AllOnce'
         /\ \A p \in Procs : cmd[p].pc # "idle" /\ cmd'[p] # cmd[p] => Later(cmd[p], cmd'[p])
  <1>1. CASE UNCHANGED vars
    BY <1>1 DEF vars, AllOnce, Once
  <1>2. CASE PowerLoss
    <2>1. \A p \in Procs : cmd'[p] = NoCommand
      BY <1>2 DEF PowerLoss
    <2>2. Once(NoCommand)
      BY DEF Once, NoCommand, Critical
    <2>3. \A p \in Procs : Once(cmd[p])'
      BY <2>1, <2>2 DEF Once
    <2> QED
      BY <2>1, <2>3 DEF AllOnce, Later
  <1>3. ASSUME NEW p \in Procs,
               Load(p) \/ (\E e \in Edits : Mutate(p, e)) \/ Continue(p) \/ Disturb(p)
        PROVE  /\ AllOnce'
               /\ \A q \in Procs :
                    cmd[q].pc # "idle" /\ cmd'[q] # cmd[q] => Later(cmd[q], cmd'[q])
    <2>1. Once(cmd[p])
      BY DEF AllOnce
    <2>2. Moves(p)
      BY <1>3, <2>1, OutsideMoves, ForwardMoves, ShrinkMoves DEF Continue, Disturb
    <2>3. PICK k : cmd' = [cmd EXCEPT ![p] = k] /\ Once(k)
                   /\ (cmd[p].pc = "idle" \/ Later(cmd[p], k))
      BY <2>2 DEF Moves, Goes
    <2>4. cmd'[p] = k /\ \A q \in Procs \ {p} : cmd'[q] = cmd[q]
      BY <2>3 DEF TypeOK
    <2> QED
      BY <2>3, <2>4 DEF AllOnce, Once
  <1> QED
    BY <1>1, <1>2, <1>3 DEF Next

\* No command repeats a step, whatever fails and however the writes interleave
\* (loader.go load and writeConfig): each step of its process is one on.
THEOREM OnlyGoesOnHolds == Spec => OnlyGoesOn
  <1>1. Init => AllOnce
    BY DEF Init, AllOnce, Once, NoCommand, Critical
  <1>2. TypeOK /\ AllOnce /\ [Next]_vars => AllOnce'
    BY StepMoves
  <1>3. TypeOK /\ AllOnce /\ [Next]_vars =>
          [\A p \in Procs :
             cmd[p].pc # "idle" /\ cmd'[p] # cmd[p] => Later(cmd[p], cmd'[p])]_vars
    BY StepMoves
  <1> QED
    BY <1>1, <1>2, <1>3, TypeCorrect, PTL DEF Spec, OnlyGoesOn

===============================================================================
