------------------------- MODULE ConfigStoreOutcomes --------------------------
(***************************************************************************)
(* Proofs about what ConfigStore reports and what readers see, for every   *)
(* value of its constants: an edit reported as successful is in every      *)
(* document that can be found, one reported as failed is in none, and      *)
(* commands, locks, keychain entries and renames look to a reader like a   *)
(* register edited one edit at a time (ConfigRegister).                    *)
(*                                                                         *)
(* The invariant, EInv, follows an edit from the command that makes it to  *)
(* its report: it is in no document before the rename, in the new document *)
(* alone until the report, and the document that the rename replaced is    *)
(* what the command loaded, with every success and no failure reported so  *)
(* far. It rests on IInv: on the lock, and on what the document is at each *)
(* point of a write. For the refinement what is left to know is that the   *)
(* document written differs from the one loaded by the command's edit and  *)
(* nothing else.                                                           *)
(***************************************************************************)
EXTENDS ConfigStoreProofs

Absent == {"unused", "failed"}

\* The edits of a document agree with what has been reported.
Agrees(m) == \A e \in Edits :
  /\ outcome[e] = "ok" => e \in EditsOf(m)
  /\ outcome[e] \in Absent => e \notin EditsOf(m)

\* An edit has at most one command, which has not reported, and an edit that
\* no command has made is in nothing that was loaded.
Owned ==
  /\ \A p \in Procs : cmd[p].edit # NoEdit => outcome[cmd[p].edit] = "pending"
  /\ \A p, q \in Procs : cmd[p].edit = cmd[q].edit /\ p # q => cmd[p].edit = NoEdit
  /\ \A e \in Edits, p \in Procs : outcome[e] = "unused" => e \notin EditsOf(cmd[p].base)

\* The command's edit is in no document that can be found.
Unseen(k) == \A m \in disk : k.edit \notin EditsOf(m)

\* What is true of the edit of command k, by the step it has reached.
EditPhase(k) ==
  /\ k.pc \in {"idle", "resolve", "loaded", "refresh"} => k.edit = NoEdit
  /\ k.edit \notin EditsOf(k.base)
  /\ k.pc \in {"lock", "validate", "stage", "preflight", "install", "sync", "commit"} =>
        EditsOf(k.next) = EditsOf(k.base) \cup ({k.edit} \ {NoEdit})
  /\ k.pc \in {"lock", "validate", "stage", "preflight", "install", "rollback"} => Unseen(k)
  /\ k.pc = "lock" => \A q \in Procs : k.edit \notin EditsOf(cmd[q].base)
  /\ k.pc \in {"sync", "commit", "restoreKeys", "restoreFile"} => Agrees(k.base)
  /\ k.pc = "unlock" /\ k.verdict = "failed" => Unseen(k)
  /\ k.pc = "unlock" /\ k.verdict = "ok" /\ k.edit # NoEdit =>
        \A m \in disk : k.edit \in EditsOf(m)

EInv ==
  /\ IInv
  /\ \A m \in disk : Agrees(m)
  /\ Owned
  /\ \A p \in Procs : EditPhase(cmd[p])

-------------------------------------------------------------------------------
(* Steps in general *)

\* The edits of documents and commands are edits, and NoEdit is none.
LEMMA EditTypes ==
  ASSUME TypeOK
  PROVE  /\ NoEdit \notin Edits
         /\ \A m \in disk : EditsOf(m) \subseteq Edits
         /\ \A p \in Procs : /\ EditsOf(cmd[p].base) \subseteq Edits
                             /\ cmd[p].edit \in Edits \cup {NoEdit}
  <1>1. \A m \in Contents \cup {NoFile} : EditsOf(m) \subseteq Edits
    BY DEF EditsOf, Contents
  <1>2. \A p \in Procs : /\ cmd[p].base \in Contents \cup {NoFile}
                         /\ cmd[p].edit \in Edits \cup {NoEdit}
    BY DEF TypeOK, Commands
  <1> QED
    BY <1>1, <1>2, ConstantsOK DEF TypeOK

\* Goes changes the command of one process.
LEMMA GoesOK ==
  ASSUME TypeOK, NEW p \in Procs, NEW k, Goes(p, k)
  PROVE  cmd'[p] = k /\ \A q \in Procs \ {p} : cmd'[q] = cmd[q]
  BY DEF Goes, TypeOK

\* While a process is in a critical step, no other one is (the write lock).
LEMMA OneWriter ==
  ASSUME IInv, NEW p \in Procs, cmd[p].pc \in Critical
  PROVE  lock = p /\ \A q \in Procs \ {p} : cmd[q].pc \notin Critical
  BY DEF IInv, LockHeld

\* A step that reports nothing and adds no document keeps the invariant, if it
\* keeps what is true of the command that takes it.
LEMMA Local ==
  ASSUME EInv, IInv', NEW p \in Procs, disk' \subseteq disk, UNCHANGED outcome,
         \A q \in Procs \ {p} : cmd'[q] = cmd[q],
         cmd'[p].edit \in {cmd[p].edit, NoEdit},
         cmd'[p].base \in {cmd[p].base, NoFile} \cup disk,
         EditPhase(cmd[p])'
  PROVE  EInv'
  <1>1. (\A m \in disk : Agrees(m))'
    BY DEF EInv, Agrees
  <1>2. ASSUME NEW e \in Edits, outcome[e] = "unused"
        PROVE  e \notin EditsOf(cmd'[p].base)
    BY <1>2 DEF EInv, Owned, Agrees, Absent, EditsOf
  <1>3. Owned'
    BY <1>2 DEF EInv, Owned
  <1>4. ASSUME NEW q \in Procs, q # p
        PROVE  EditPhase(cmd[q])'
    <2>1. EditPhase(cmd[q]) /\ cmd'[q] = cmd[q]
      BY <1>4 DEF EInv
    <2>2. Unseen(cmd[q]) => Unseen(cmd[q])'
      BY <2>1 DEF Unseen
    <2>3. cmd[q].pc = "lock" => \A r \in Procs : cmd[q].edit \notin EditsOf(cmd'[r].base)
      BY <2>1 DEF EditPhase, Unseen, EditsOf
    <2>4. Agrees(cmd[q].base) => Agrees(cmd[q].base)'
      BY <2>1 DEF Agrees
    <2> QED
      BY <2>1, <2>2, <2>3, <2>4 DEF EditPhase
  <1> QED
    BY <1>1, <1>3, <1>4 DEF EInv

\* The steps between which a write goes on with its edit.
Follows ==
  {<<"resolve", "loaded">>, <<"lock", "validate">>, <<"validate", "stage">>,
   <<"stage", "preflight">>, <<"preflight", "install">>, <<"sync", "commit">>,
   <<"stage", "rollback">>, <<"preflight", "rollback">>, <<"install", "rollback">>,
   <<"commit", "restoreKeys">>, <<"restoreKeys", "restoreFile">>}

\* A step within a load or a write, up to the report.
LEMMA Stays ==
  ASSUME EInv, IInv', NEW p \in Procs, NEW k, Goes(p, k),
         disk' \subseteq disk, UNCHANGED outcome,
         k.edit = cmd[p].edit, k.base = cmd[p].base,
         EditsOf(k.next) = EditsOf(cmd[p].next),
         \/ k.pc = cmd[p].pc /\ k.pc \notin {"lock", "unlock"}
         \/ <<cmd[p].pc, k.pc>> \in Follows
         \/ /\ k.pc = "unlock"
            /\ k.verdict = "failed" => cmd[p].pc \in {"validate", "stage", "rollback"}
            /\ k.verdict = "ok" => cmd[p].pc = "commit"
  PROVE  EInv'
  <1> DEFINE j == cmd[p]
  <1>1. cmd'[p] = k /\ \A q \in Procs \ {p} : cmd'[q] = cmd[q]
    BY GoesOK DEF EInv, IInv
  <1>2. EditPhase(j) /\ Phase(j) /\ j.edit \in Edits \cup {NoEdit}
    BY EditTypes DEF EInv, IInv
  <1>3. Unseen(j) => Unseen(cmd[p])'
    BY <1>1 DEF Unseen
  <1>4. Agrees(j.base) => Agrees(cmd[p].base)'
    BY <1>1 DEF Agrees
  <1>5. j.pc = "commit" /\ j.edit # NoEdit => \A m \in disk : j.edit \in EditsOf(m)
    BY <1>2 DEF EditPhase, Phase
  <1>6. EditPhase(cmd[p])'
    <2>1. CASE k.pc = j.pc /\ k.pc \notin {"lock", "unlock"}
      BY <1>1, <1>2, <1>3, <1>4, <2>1 DEF EditPhase
    <2>2. CASE <<j.pc, k.pc>> \in Follows
      BY <1>1, <1>2, <1>3, <1>4, <2>2 DEF EditPhase, Follows
    <2>3. CASE k.pc = "unlock"
      BY <1>1, <1>2, <1>3, <1>5, <2>3 DEF EditPhase, Follows
    <2> QED
      BY <2>1, <2>2, <2>3
  <1> QED
    BY <1>1, <1>6, Local

\* The report of an edit. A success must be everywhere, a failure nowhere, and
\* neither may contradict a document that another write may restore.
LEMMA ReportedInv ==
  ASSUME EInv, IInv', NEW p \in Procs, NEW v \in Verdicts, UNCHANGED <<file, disk>>,
         Goes(p, AfterWrite(cmd[p], v)), Reported(cmd[p], v), cmd[p].pc \in {"lock", "unlock"},
         cmd[p].edit # NoEdit /\ v = "ok" => \A m \in disk : cmd[p].edit \in EditsOf(m),
         v = "failed" => Unseen(cmd[p]),
         \A q \in Procs \ {p} :
           cmd[q].pc \in {"sync", "commit", "restoreKeys", "restoreFile"} =>
             v = "failed" /\ cmd[p].edit \notin EditsOf(cmd[q].base)
  PROVE  EInv'
  <1> DEFINE j == cmd[p]
  <1>1. cmd'[p] = AfterWrite(j, v) /\ \A q \in Procs \ {p} : cmd'[q] = cmd[q]
    BY GoesOK DEF EInv, IInv
  <1>2. EditPhase(j) /\ j.edit \in Edits \cup {NoEdit} /\ NoEdit \notin Edits
    BY EditTypes DEF EInv, IInv
  <1>3. CASE j.edit = NoEdit
    <2>1. UNCHANGED outcome
      BY <1>3 DEF Reported
    <2>2. /\ cmd'[p].edit = NoEdit /\ cmd'[p].base = j.base
          /\ cmd'[p].pc \in {"loaded", "refresh"}
      BY <1>1, <1>3 DEF AfterWrite, NoCommand
    <2>3. EditPhase(cmd[p])'
      BY <1>2, <1>3, <2>2 DEF EditPhase
    <2> QED
      BY <1>1, <2>1, <2>2, <2>3, Local
  <1>4. CASE j.edit # NoEdit
    <2>1. outcome' = [outcome EXCEPT ![j.edit] = v] /\ outcome[j.edit] = "pending"
      BY <1>4 DEF Reported, EInv, Owned
    <2>2. outcome'[j.edit] = v /\ \A e \in Edits \ {j.edit} : outcome'[e] = outcome[e]
      BY <2>1, <1>2, <1>4 DEF EInv, IInv, TypeOK
    <2>3. cmd'[p].edit = NoEdit /\ cmd'[p].base = NoFile /\ cmd'[p].pc = "idle"
      BY <1>1, <1>4 DEF AfterWrite, NoCommand
    <2>4. (\A m \in disk : Agrees(m))'
      <3> SUFFICES ASSUME NEW m \in disk, NEW e \in Edits
                   PROVE  /\ outcome'[e] = "ok" => e \in EditsOf(m)
                          /\ outcome'[e] \in Absent => e \notin EditsOf(m)
        BY DEF Agrees
      <3> QED
        BY <1>4, <2>2 DEF EInv, Agrees, Unseen, Absent, Verdicts
    <2>5. Owned'
      <3>1. \A q \in Procs : cmd'[q].edit # NoEdit => outcome'[cmd'[q].edit] = "pending"
        BY <1>1, <1>4, <2>2, <2>3, EditTypes DEF EInv, IInv, Owned
      <3>2. \A e \in Edits, q \in Procs : outcome'[e] = "unused" => e \notin EditsOf(cmd'[q].base)
        BY <1>1, <2>2, <2>3 DEF EInv, Owned, EditsOf, Verdicts
      <3> QED
        BY <1>1, <2>3, <3>1, <3>2 DEF EInv, Owned
    <2>6. ASSUME NEW q \in Procs, q # p
          PROVE  EditPhase(cmd[q])'
      <3>1. EditPhase(cmd[q]) /\ cmd'[q] = cmd[q]
        BY <1>1, <2>6 DEF EInv
      <3>2. Unseen(cmd[q]) => Unseen(cmd[q])'
        BY <3>1 DEF Unseen
      <3>3. cmd[q].pc = "lock" => \A r \in Procs : cmd[q].edit \notin EditsOf(cmd'[r].base)
        BY <1>1, <2>3, <3>1 DEF EditPhase, EditsOf
      <3>4. cmd[q].pc \in {"sync", "commit", "restoreKeys", "restoreFile"} =>
              Agrees(cmd[q].base)'
        BY <2>2, <2>6, <3>1 DEF EditPhase, Agrees
      <3> QED
        BY <3>1, <3>2, <3>3, <3>4 DEF EditPhase
    <2>7. EditPhase(cmd[p])'
      BY <1>2, <2>3 DEF EditPhase, EditsOf
    <2> QED
      BY <2>4, <2>5, <2>6, <2>7 DEF EInv
  <1> QED
    BY <1>3, <1>4

-------------------------------------------------------------------------------
(* The actions *)

\* Init: every edit of the first document has been reported as a success.
LEMMA InitEdits == Init => EInv
  <1> SUFFICES ASSUME Init
               PROVE  EInv
    OBVIOUS
  <1>1. IInv
    BY InitInv
  <1>2. \A m \in disk : Agrees(m)
    BY DEF Init, Agrees, Absent
  <1>3. \A p \in Procs : /\ cmd[p].edit = NoEdit /\ cmd[p].base = NoFile
                         /\ cmd[p].pc = "idle"
    BY DEF Init, NoCommand
  <1>4. Owned
    BY <1>3 DEF Owned, EditsOf
  <1>5. \A p \in Procs : EditPhase(cmd[p])
    BY <1>3 DEF EditPhase, EditsOf
  <1> QED
    BY <1>1, <1>2, <1>4, <1>5 DEF EInv

\* Loading, resolving and reading back bring in nothing but a document that
\* can be found (load, refreshKeychainRuntimeAfterWrite).
LEMMA LoadEdits ==
  ASSUME EInv, IInv', NEW p \in Procs,
         \/ Load(p) \/ FinishLoad(p) \/ Quit(p) \/ Refresh(p) \/ Crash(p)
         \/ \E c \in Creds : Resolve(p, c) \/ ResolveFails(p, c)
  PROVE  EInv'
  <1> DEFINE j == cmd[p]
  <1>1. /\ j \in Commands /\ EditPhase(j) /\ file \in disk /\ NoEdit \notin Edits
        /\ \A m \in disk \cup {NoFile} : NoEdit \notin EditsOf(m)
        /\ \A q \in Procs : NoEdit \notin EditsOf(cmd[q].base)
    BY EditTypes DEF EInv, IInv, TypeOK, EditsOf
  <1>2. ASSUME NEW k, Goes(p, k), UNCHANGED <<file, disk, outcome>>,
               k.edit = NoEdit, k.base \in {j.base, NoFile} \cup disk,
               k.pc \in {"idle", "resolve", "loaded"}
        PROVE  EInv'
    <2>1. cmd'[p] = k /\ \A q \in Procs \ {p} : cmd'[q] = cmd[q]
      BY <1>2, GoesOK DEF EInv, IInv
    <2>2. NoEdit \notin EditsOf(k.base)
      BY <1>1, <1>2
    <2>3. EditPhase(cmd[p])'
      BY <1>2, <2>1, <2>2 DEF EditPhase
    <2> QED
      BY <1>2, <2>1, <2>3, Local
  <1>3. NoCommand.edit = NoEdit /\ NoCommand.base = NoFile /\ NoCommand.pc = "idle"
    BY DEF NoCommand
  <1>4. CASE Load(p)
    <2>1. LET k == LoadedFrom(file, NoCommand)
          IN  k.edit = NoEdit /\ k.base = file /\ k.pc = "resolve"
      BY DEF LoadedFrom, NoCommand
    <2> QED
      BY <1>1, <1>2, <1>4, <2>1 DEF Load
  <1>5. CASE Refresh(p)
    <2>1. LET k == LoadedFrom(file, j)
          IN  k.edit = NoEdit /\ k.base = file /\ k.pc = "resolve"
      BY <1>1, <1>5 DEF LoadedFrom, Commands, Refresh, At, EditPhase
    <2> QED
      BY <1>1, <1>2, <1>3, <1>5, <2>1 DEF Refresh
  <1>6. CASE Quit(p)
    BY <1>2, <1>3, <1>6 DEF Quit
  <1>7. CASE Crash(p)
    BY <1>2, <1>3, <1>7 DEF Crash
  <1>8. CASE FinishLoad(p)
    <2>1. j.pc = "resolve" /\ j.edit = NoEdit
      BY <1>1, <1>8 DEF FinishLoad, At, EditPhase
    <2>2. CASE Goes(p, [j EXCEPT !.pc = "loaded"])
      <3>1. LET k == [j EXCEPT !.pc = "loaded"]
            IN  k.edit = NoEdit /\ k.base = j.base /\ k.pc = "loaded"
        BY <1>1, <2>1 DEF Commands
      <3> QED
        BY <1>2, <1>8, <2>2, <3>1 DEF FinishLoad
    <2>3. CASE Goes(p, [j EXCEPT !.pc = "lock", !.next = j.base])
      <3> DEFINE k == [j EXCEPT !.pc = "lock", !.next = j.base]
      <3>1. k.edit = NoEdit /\ k.base = j.base /\ k.next = j.base /\ k.pc = "lock"
        BY <1>1, <2>1 DEF Commands
      <3> HIDE DEF k
      <3>2. cmd'[p] = k /\ \A q \in Procs \ {p} : cmd'[q] = cmd[q]
        BY <2>3, GoesOK DEF EInv, IInv, k
      <3>3. UNCHANGED <<disk, outcome>>
        BY <1>8 DEF FinishLoad
      <3>4. Unseen(cmd[p])'
        BY <1>1, <3>1, <3>2, <3>3 DEF Unseen
      <3>5. \A q \in Procs : NoEdit \notin EditsOf(cmd'[q].base)
        BY <1>1, <3>1, <3>2
      <3>6. EditPhase(cmd[p])'
        BY <3>1, <3>2, <3>4, <3>5 DEF EditPhase
      <3> QED
        BY <3>1, <3>2, <3>3, <3>6, Local
    <2> QED
      BY <1>8, <2>2, <2>3 DEF FinishLoad
  <1>9. ASSUME NEW c \in Creds, NEW s,
               Goes(p, [j EXCEPT !.status[c] = s]), MayResolve(p, c),
               UNCHANGED <<file, disk, outcome>>
        PROVE  EInv'
    <2>1. j.pc \in {"resolve", "loaded"} /\ j.edit = NoEdit
      BY <1>1, <1>9 DEF MayResolve, At, EditPhase
    <2>2. LET k == [j EXCEPT !.status[c] = s]
          IN  k.edit = NoEdit /\ k.base = j.base /\ k.pc = j.pc
      BY <1>1, <2>1 DEF Commands
    <2> QED
      BY <1>2, <1>9, <2>1, <2>2
  <1> QED
    BY <1>4, <1>5, <1>6, <1>7, <1>8, <1>9 DEF Resolve, ResolveFails

\* An edit is new to everything that was loaded or written (Mutate: the
\* command's edit, writeConfig's candidate).
LEMMA MutateEdits ==
  ASSUME EInv, IInv', NEW p \in Procs, NEW e \in Edits, Mutate(p, e)
  PROVE  EInv'
  <1> DEFINE j == cmd[p]
  <1>1. j \in Commands /\ e # NoEdit /\ outcome[e] = "unused"
    BY EditTypes DEF EInv, IInv, TypeOK, Mutate
  <1> DEFINE n(want) == [edits |-> EditsOf(j.base) \cup {e}, want |-> want,
                         slot |-> SlotOf(j.base)]
             k(touched, m) == [j EXCEPT !.pc = "lock", !.edit = e, !.touched = touched,
                                        !.next = m]
  <1>2. PICK touched, want : Goes(p, k(touched, n(want)))
    BY DEF Mutate
  <1>3. /\ cmd'[p].edit = e /\ cmd'[p].base = j.base /\ cmd'[p].pc = "lock"
        /\ cmd'[p].next.edits = EditsOf(j.base) \cup {e}
        /\ \A q \in Procs \ {p} : cmd'[q] = cmd[q]
    <2>1. n(want).edits = EditsOf(j.base) \cup {e}
      OBVIOUS
    <2> HIDE DEF n
    <2>2. cmd'[p] = k(touched, n(want)) /\ \A q \in Procs \ {p} : cmd'[q] = cmd[q]
      BY <1>2, GoesOK DEF EInv, IInv
    <2>3. /\ cmd'[p].edit = e /\ cmd'[p].base = j.base /\ cmd'[p].pc = "lock"
          /\ cmd'[p].next = n(want)
      BY <1>1, <2>2 DEF Commands
    <2> QED
      BY <2>1, <2>2, <2>3
  <1>4. cmd'[p].next # NoFile
    BY <1>3 DEF IInv, Phase, Intended
  <1>5. outcome'[e] = "pending" /\ \A x \in Edits \ {e} : outcome'[x] = outcome[x]
    BY <1>1 DEF Mutate, EInv, IInv, TypeOK
  <1>6. UNCHANGED disk
    BY DEF Mutate
  <1>7. (\A m \in disk : Agrees(m))'
    BY <1>5, <1>6 DEF EInv, Agrees, Absent
  <1>8. \A q \in Procs : cmd[q].edit # e
    BY <1>1 DEF EInv, Owned
  <1>9. Owned'
    <2>1. \A q \in Procs : cmd'[q].edit # NoEdit => outcome'[cmd'[q].edit] = "pending"
      BY <1>3, <1>5, EditTypes DEF EInv, IInv, Owned
    <2>2. \A x \in Edits, q \in Procs : outcome'[x] = "unused" => x \notin EditsOf(cmd'[q].base)
      BY <1>3, <1>5 DEF EInv, Owned
    <2> QED
      BY <1>3, <1>8, <2>1, <2>2 DEF EInv, Owned
  <1>10. ASSUME NEW q \in Procs, q # p
         PROVE  EditPhase(cmd[q])'
    <2>1. EditPhase(cmd[q]) /\ cmd'[q] = cmd[q]
      BY <1>3, <1>10 DEF EInv
    <2>2. Unseen(cmd[q]) => Unseen(cmd[q])'
      BY <1>6, <2>1 DEF Unseen
    <2>3. \A r \in Procs : cmd'[r].base = cmd[r].base
      BY <1>3
    <2>4. Agrees(cmd[q].base) => Agrees(cmd[q].base)'
      BY <1>5, <2>1 DEF Agrees, Absent
    <2> QED
      BY <1>6, <2>1, <2>2, <2>3, <2>4 DEF EditPhase
  <1>11. EditPhase(cmd[p])'
    <2>1. \A q \in Procs : e \notin EditsOf(cmd'[q].base)
      BY <1>1, <1>3 DEF EInv, Owned
    <2>2. Unseen(cmd[p])'
      BY <1>1, <1>3, <1>6 DEF EInv, Agrees, Absent, Unseen
    <2>3. EditsOf(cmd'[p].next) = EditsOf(j.base) \cup ({e} \ {NoEdit})
      BY <1>1, <1>3, <1>4 DEF EditsOf
    <2> QED
      BY <1>3, <2>1, <2>2, <2>3 DEF EditPhase
  <1> QED
    BY <1>7, <1>9, <1>10, <1>11 DEF EInv

\* Up to the rename no document changes, and what fails there fails unseen
\* (writeConfig up to os.Rename).
LEMMA PrepareEdits ==
  ASSUME EInv, IInv', NEW p \in Procs,
         \/ Acquire(p) \/ Validate(p) \/ StageDone(p) \/ Preflight(p) \/ WriteFails(p)
         \/ \E c \in Creds : Stage(p, c) \/ StagePlaintext(p, c) \/ StageFails(p, c)
  PROVE  EInv'
  <1> DEFINE j == cmd[p]
  <1>1. j \in Commands /\ Phase(j)
    BY DEF EInv, IInv, TypeOK
  <1>2. CASE Acquire(p)
    <2>1. LET k == [j EXCEPT !.pc = "validate"]
          IN  k.edit = j.edit /\ k.base = j.base /\ k.next = j.next /\ k.pc = "validate"
      BY <1>1 DEF Commands
    <2> QED
      BY <1>2, <2>1, Stays DEF Acquire, At, Follows
  <1>3. CASE Validate(p)
    <2>1. j.pc = "validate" /\ UNCHANGED <<disk, outcome>> /\ j.next # NoFile /\ j.next \in Contents
      BY <1>1, <1>3 DEF Validate, At, Phase, Intended, Commands
    <2>2. CASE Goes(p, [j EXCEPT !.pc = "unlock", !.verdict = "failed"])
      <3>1. LET k == [j EXCEPT !.pc = "unlock", !.verdict = "failed"]
            IN  /\ k.edit = j.edit /\ k.base = j.base /\ k.next = j.next /\ k.pc = "unlock"
                /\ k.verdict = "failed"
        BY <1>1 DEF Commands
      <3> QED
        BY <2>1, <2>2, <3>1, Stays
    <2>3. ASSUME NEW need, NEW dels, NEW slot,
                 Goes(p, [j EXCEPT !.pc = "stage", !.need = need, !.dels = dels,
                                   !.next.slot = slot])
          PROVE  EInv'
      <3> DEFINE k == [j EXCEPT !.pc = "stage", !.need = need, !.dels = dels,
                                !.next.slot = slot]
      <3>1. /\ k.edit = j.edit /\ k.base = j.base /\ k.pc = "stage"
            /\ k.next = [j.next EXCEPT !.slot = slot]
        BY <1>1 DEF Commands
      <3> HIDE DEF k
      <3>2. cmd'[p] = k
        BY <2>3, GoesOK DEF EInv, IInv, k
      <3>3. k.next # NoFile
        BY <3>1, <3>2 DEF IInv, Phase, Linked
      <3>4. k.next.edits = j.next.edits
        BY <2>1, <3>1 DEF Contents
      <3>5. EditsOf(k.next) = EditsOf(j.next)
        BY <2>1, <3>3, <3>4 DEF EditsOf
      <3> QED
        BY <2>1, <2>3, <3>1, <3>5, Stays DEF Follows, k
    <2> QED
      BY <1>3, <2>2, <2>3 DEF Validate
  <1>4. CASE StageDone(p)
    <2>1. LET k == [j EXCEPT !.pc = "unlock", !.verdict = "failed"]
          IN  /\ k.edit = j.edit /\ k.base = j.base /\ k.next = j.next /\ k.pc = "unlock"
              /\ k.verdict = "failed"
      BY <1>1 DEF Commands
    <2>2. LET k == [j EXCEPT !.pc = "preflight"]
          IN  k.edit = j.edit /\ k.base = j.base /\ k.next = j.next /\ k.pc = "preflight"
      BY <1>1 DEF Commands
    <2> QED
      BY <1>4, <2>1, <2>2, Stays DEF StageDone, At, Follows
  <1>5. /\ Fails(j).edit = j.edit /\ Fails(j).base = j.base /\ Fails(j).next = j.next
        /\ Fails(j).pc = "rollback"
    BY <1>1 DEF Commands, Fails
  <1>6. CASE WriteFails(p)
    BY <1>5, <1>6, Stays DEF WriteFails, At, Follows
  <1>7. CASE Preflight(p)
    <2>1. LET k == [j EXCEPT !.pc = "install"]
          IN  k.edit = j.edit /\ k.base = j.base /\ k.next = j.next /\ k.pc = "install"
      BY <1>1 DEF Commands
    <2>2. LET k == [j EXCEPT !.pc = "install", !.saved = [file |-> file, keys |-> keychain]]
          IN  k.edit = j.edit /\ k.base = j.base /\ k.next = j.next /\ k.pc = "install"
      BY <1>1 DEF Commands
    <2> QED
      BY <1>5, <1>7, <2>1, <2>2, Stays DEF Preflight, At, Follows
  <1>8. ASSUME NEW c \in Creds, StageFails(p, c)
        PROVE  EInv'
    <2>1. ASSUME NEW t
          PROVE  LET k == [Fails(j) EXCEPT !.staged = t]
                 IN  k.edit = j.edit /\ k.base = j.base /\ k.next = j.next /\ k.pc = "rollback"
      BY <1>1 DEF Commands, Fails
    <2>2. j.pc = "stage" /\ UNCHANGED <<disk, outcome>>
      BY <1>8 DEF StageFails, At
    <2>3. CASE Goes(p, Fails(j))
      BY <1>5, <2>2, <2>3, Stays DEF Follows
    <2>4. ASSUME NEW t, Goes(p, [Fails(j) EXCEPT !.staged = t])
          PROVE  EInv'
      BY <2>1, <2>2, <2>4, Stays DEF Follows
    <2> QED
      BY <1>8, <2>3, <2>4 DEF StageFails
  <1>9. ASSUME NEW c \in Creds, NEW need, NEW staged, NEW dels, NEW x,
               j.pc = "stage", UNCHANGED <<disk, outcome>>,
               Goes(p, [j EXCEPT !.need = need, !.staged = staged, !.dels = dels,
                                 !.next.slot[c] = x])
        PROVE  EInv'
    <2> DEFINE k == [j EXCEPT !.need = need, !.staged = staged, !.dels = dels,
                              !.next.slot[c] = x]
    <2>1. /\ k.edit = j.edit /\ k.base = j.base /\ k.pc = "stage"
          /\ k.next = [j.next EXCEPT !.slot[c] = x]
      BY <1>1, <1>9 DEF Commands
    <2> HIDE DEF k
    <2>2. cmd'[p] = k
      BY <1>9, GoesOK DEF EInv, IInv, k
    <2>3. k.next # NoFile /\ j.next # NoFile /\ j.next \in Contents
      BY <1>1, <1>9, <2>1, <2>2 DEF IInv, Phase, Linked, Commands
    <2>4. k.next.edits = j.next.edits
      BY <2>1, <2>3 DEF Contents
    <2>5. EditsOf(k.next) = EditsOf(j.next)
      BY <2>3, <2>4 DEF EditsOf
    <2> QED
      BY <1>9, <2>1, <2>5, Stays DEF k
  <1>10. ASSUME NEW c \in Creds, Stage(p, c)
         PROVE  EInv'
    BY <1>9, <1>10 DEF Stage, At
  <1>11. ASSUME NEW c \in Creds, StagePlaintext(p, c)
         PROVE  EInv'
    <2>1. ASSUME NEW need, NEW x
          PROVE  [j EXCEPT !.need = need, !.next.slot[c] = x]
                   = [j EXCEPT !.need = need, !.staged = j.staged, !.dels = j.dels,
                               !.next.slot[c] = x]
      BY <1>1 DEF Commands
    <2>2. j.pc = "stage" /\ UNCHANGED <<disk, outcome>>
      BY <1>11 DEF StagePlaintext, At
    <2>3. Goes(p, [j EXCEPT !.need = j.need \ {c}, !.next.slot[c] = j.next.want[c]])
      BY <1>11 DEF StagePlaintext
    <2>4. Goes(p, [j EXCEPT !.need = j.need \ {c}, !.staged = j.staged, !.dels = j.dels,
                            !.next.slot[c] = j.next.want[c]])
      BY <2>1, <2>3
    <2> QED
      BY <1>9, <2>2, <2>4
  <1> QED
    BY <1>2, <1>3, <1>4, <1>6, <1>7, <1>8, <1>10, <1>11

\* A document comes into place that agrees with every report, and without the
\* edit of any command that waits for the lock.
LEMMA Placed ==
  ASSUME EInv, IInv', NEW p \in Procs, NEW m \in Contents \cup {NoFile},
         cmd[p].pc \in Critical, disk' = disk \cup {m}, UNCHANGED outcome, Agrees(m),
         EditsOf(m) \subseteq EditsOf(cmd[p].base) \cup ({cmd[p].edit} \ {NoEdit}),
         \A q \in Procs \ {p} : cmd'[q] = cmd[q],
         cmd'[p].edit = cmd[p].edit, cmd'[p].base = cmd[p].base, EditPhase(cmd[p])'
  PROVE  EInv'
  <1>1. (\A d \in disk : Agrees(d))'
    BY DEF EInv, Agrees
  <1>2. Owned'
    BY DEF EInv, Owned
  <1>3. ASSUME NEW q \in Procs, q # p
        PROVE  EditPhase(cmd[q])'
    <2>1. EditPhase(cmd[q]) /\ cmd'[q] = cmd[q] /\ cmd[q].pc \notin Critical
      BY <1>3, OneWriter DEF EInv
    <2>2. \A r \in Procs : cmd'[r].base = cmd[r].base
      OBVIOUS
    <2>3. cmd[q].pc = "lock" => cmd[q].edit \notin EditsOf(m)
      <3>1. NoEdit \notin EditsOf(m)
        BY ConstantsOK DEF EditsOf, Contents
      <3>2. cmd[q].edit # NoEdit => cmd[q].edit # cmd[p].edit
        BY <1>3 DEF EInv, Owned
      <3> QED
        BY <2>1, <3>1, <3>2 DEF EditPhase
    <2>4. cmd[q].pc = "lock" => Unseen(cmd[q])'
      BY <2>1, <2>3 DEF EditPhase, Unseen
    <2> QED
      BY <2>1, <2>2, <2>4 DEF EditPhase, Critical
  <1> QED
    BY <1>1, <1>2, <1>3 DEF EInv

\* The rename makes the new document visible (writeConfig: os.Rename).
LEMMA InstallEdits ==
  ASSUME EInv, IInv', NEW p \in Procs, Install(p)
  PROVE  EInv'
  <1> DEFINE j == cmd[p]
  <1>1. j \in Commands /\ Phase(j) /\ EditPhase(j) /\ j.pc = "install"
    BY DEF EInv, IInv, TypeOK, Install, At
  <1>2. /\ cmd'[p] = [j EXCEPT !.pc = "sync"]
        /\ \A q \in Procs \ {p} : cmd'[q] = cmd[q]
    BY GoesOK DEF EInv, IInv, Install
  <1>3. /\ cmd'[p].edit = j.edit /\ cmd'[p].base = j.base /\ cmd'[p].next = j.next
        /\ cmd'[p].pc = "sync"
    BY <1>1, <1>2 DEF Commands
  <1>4. disk' = disk \cup {j.next} /\ UNCHANGED outcome /\ j.next \in Contents \cup {NoFile}
    BY <1>1 DEF Install, Commands
  <1>5. EditsOf(j.next) = EditsOf(j.base) \cup ({j.edit} \ {NoEdit})
    BY <1>1 DEF EditPhase
  <1>6. Agrees(j.base)
    BY <1>1 DEF EInv, IInv, Phase, Staging
  <1>7. Agrees(j.next)
    BY <1>5, <1>6 DEF EInv, Owned, Agrees, Absent
  <1>8. EditPhase(cmd[p])'
    BY <1>1, <1>3, <1>4, <1>5, <1>6 DEF EditPhase, Agrees
  <1> QED
    BY <1>1, <1>2, <1>3, <1>4, <1>5, <1>7, <1>8, Placed DEF Critical

\* The old document comes back (restoreConfigContents).
LEMMA RestoreFileEdits ==
  ASSUME EInv, IInv', NEW p \in Procs, RestoreFile(p)
  PROVE  EInv'
  <1> DEFINE j == cmd[p]
  <1>1. j \in Commands /\ Phase(j) /\ EditPhase(j) /\ j.pc = "restoreFile"
    BY DEF EInv, IInv, TypeOK, RestoreFile, At
  <1>2. /\ cmd'[p] = [j EXCEPT !.pc = "restoreSync"]
        /\ \A q \in Procs \ {p} : cmd'[q] = cmd[q]
    BY GoesOK DEF EInv, IInv, RestoreFile
  <1>3. cmd'[p].edit = j.edit /\ cmd'[p].base = j.base /\ cmd'[p].pc = "restoreSync"
    BY <1>1, <1>2 DEF Commands
  <1>4. j.saved.file = j.base
    BY <1>1 DEF Phase, Captured
  <1>5. disk' = disk \cup {j.base} /\ UNCHANGED outcome /\ j.base \in Contents \cup {NoFile}
    BY <1>1, <1>4 DEF RestoreFile, Commands
  <1>6. Agrees(j.base)
    BY <1>1 DEF EditPhase
  <1>7. EditPhase(cmd[p])'
    BY <1>1, <1>3 DEF EditPhase
  <1> QED
    BY <1>1, <1>2, <1>3, <1>5, <1>6, <1>7, Placed DEF Critical

\* The old document is the only one again (restoreConfigContents).
LEMMA RestoreSyncEdits ==
  ASSUME EInv, IInv', NEW p \in Procs, RestoreSync(p)
  PROVE  EInv'
  <1> DEFINE j == cmd[p]
  <1>1. j \in Commands /\ Phase(j) /\ EditPhase(j) /\ j.pc = "restoreSync" /\ file \in disk
    BY DEF EInv, IInv, TypeOK, RestoreSync, At
  <1>2. cmd'[p] = Fails(j) /\ \A q \in Procs \ {p} : cmd'[q] = cmd[q]
    BY GoesOK DEF EInv, IInv, RestoreSync
  <1>3. cmd'[p].edit = j.edit /\ cmd'[p].base = j.base /\ cmd'[p].pc = "rollback"
    BY <1>1, <1>2 DEF Commands, Fails
  <1>4. disk' = {j.base} /\ j.base \in disk /\ UNCHANGED outcome
    BY <1>1 DEF RestoreSync, Phase
  <1>5. Unseen(cmd[p])'
    BY <1>1, <1>3, <1>4 DEF Unseen, EditPhase
  <1>6. EditPhase(cmd[p])'
    BY <1>1, <1>3, <1>5 DEF EditPhase
  <1> QED
    BY <1>2, <1>3, <1>4, <1>6, Local

\* What follows the rename leaves the edit where it is until the old document
\* comes back (writeConfig after os.Rename, commit, rollback).
LEMMA FinishEdits ==
  ASSUME EInv, IInv', NEW p \in Procs,
         \/ SyncDirectory(p) \/ SyncFails(p) \/ CommitDone(p) \/ RestoreKeysDone(p)
         \/ RestoreFails(p) \/ RollbackDone(p)
         \/ \E a \in Accounts : \/ DeleteOld(p, a) \/ DeleteFails(p, a) \/ RestoreKey(p, a)
                                \/ RestoreKeyFails(p, a) \/ Rollback(p, a)
                                \/ RollbackFails(p, a)
  PROVE  EInv'
  <1> DEFINE j == cmd[p]
  <1>1. j \in Commands /\ Phase(j) /\ file \in disk
    BY DEF EInv, IInv, TypeOK
  <1>2. ASSUME NEW s, NEW v, Goes(p, [j EXCEPT !.pc = s, !.verdict = v]),
               s = "unlock", v # "failed", v = "ok" => j.pc = "commit",
               disk' \subseteq disk, UNCHANGED outcome
        PROVE  EInv'
    <2>1. LET k == [j EXCEPT !.pc = s, !.verdict = v]
          IN  /\ k.edit = j.edit /\ k.base = j.base /\ k.next = j.next
              /\ k.pc = s /\ k.verdict = v
      BY <1>1 DEF Commands
    <2> QED
      BY <1>2, <2>1, Stays
  <1>3. ASSUME NEW s, Goes(p, [j EXCEPT !.pc = s]), disk' \subseteq disk, UNCHANGED outcome,
               \/ <<j.pc, s>> \in Follows
               \/ s = "unlock" /\ j.pc = "rollback"
               \/ s = "unlock" /\ j.verdict = "retained"
        PROVE  EInv'
    <2>1. LET k == [j EXCEPT !.pc = s]
          IN  /\ k.edit = j.edit /\ k.base = j.base /\ k.next = j.next
              /\ k.pc = s /\ k.verdict = j.verdict
      BY <1>1 DEF Commands
    <2>2. j.pc = "rollback" => j.verdict = "failed"
      BY <1>1 DEF Phase
    <2> QED
      BY <1>3, <2>1, <2>2, Stays
  <1>4. ASSUME NEW s, NEW dels, NEW gone, NEW staged, NEW v,
               Goes(p, [j EXCEPT !.pc = s, !.dels = dels, !.gone = gone,
                                 !.staged = staged, !.verdict = v]),
               s # "lock", s # "unlock", s = j.pc \/ <<j.pc, s>> \in Follows,
               disk' = disk, UNCHANGED outcome
        PROVE  EInv'
    <2>1. LET k == [j EXCEPT !.pc = s, !.dels = dels, !.gone = gone,
                             !.staged = staged, !.verdict = v]
          IN  k.edit = j.edit /\ k.base = j.base /\ k.next = j.next /\ k.pc = s
      BY <1>1 DEF Commands
    <2> QED
      BY <1>4, <2>1, Stays
  <1>5. CASE SyncDirectory(p)
    BY <1>1, <1>3, <1>5 DEF SyncDirectory, At, Follows
  <1>6. CASE SyncFails(p)
    BY <1>2, <1>6 DEF SyncFails
  <1>7. CASE CommitDone(p)
    BY <1>2, <1>7 DEF CommitDone, At
  <1>8. CASE RestoreKeysDone(p)
    BY <1>3, <1>8 DEF RestoreKeysDone, At, Follows
  <1>9. CASE RestoreFails(p)
    BY <1>2, <1>9 DEF RestoreFails
  <1>10. CASE RollbackDone(p)
    BY <1>3, <1>10 DEF RollbackDone, At
  <1>11. ASSUME NEW a \in Accounts, DeleteOld(p, a)
         PROVE  EInv'
    <2>1. [j EXCEPT !.dels = j.dels \ {a}, !.gone = j.gone \cup {a}]
            = [j EXCEPT !.pc = j.pc, !.dels = j.dels \ {a}, !.gone = j.gone \cup {a},
                        !.staged = j.staged, !.verdict = j.verdict]
      BY <1>1 DEF Commands
    <2>2. /\ j.pc = "commit" /\ UNCHANGED <<disk, outcome>>
          /\ Goes(p, [j EXCEPT !.dels = j.dels \ {a}, !.gone = j.gone \cup {a}])
      BY <1>11 DEF DeleteOld, At
    <2>3. Goes(p, [j EXCEPT !.pc = j.pc, !.dels = j.dels \ {a}, !.gone = j.gone \cup {a},
                     !.staged = j.staged, !.verdict = j.verdict])
      BY <2>1, <2>2
    <2> QED
      BY <1>4, <2>2, <2>3
  <1>12. ASSUME NEW a \in Accounts, DeleteFails(p, a)
         PROVE  EInv'
    <2>1. [j EXCEPT !.pc = "restoreKeys", !.gone = j.gone \cup {a}]
            = [j EXCEPT !.pc = "restoreKeys", !.dels = j.dels, !.gone = j.gone \cup {a},
                        !.staged = j.staged, !.verdict = j.verdict]
      BY <1>1 DEF Commands
    <2>2. /\ j.pc = "commit" /\ UNCHANGED <<disk, outcome>>
          /\ Goes(p, [j EXCEPT !.pc = "restoreKeys", !.gone = j.gone \cup {a}])
      BY <1>12 DEF DeleteFails, At
    <2>3. Goes(p, [j EXCEPT !.pc = "restoreKeys", !.dels = j.dels, !.gone = j.gone \cup {a},
                     !.staged = j.staged, !.verdict = j.verdict])
      BY <2>1, <2>2
    <2> QED
      BY <1>4, <2>2, <2>3 DEF Follows
  <1>13. ASSUME NEW a \in Accounts, RestoreKey(p, a)
         PROVE  EInv'
    <2>1. [j EXCEPT !.gone = j.gone \ {a}]
            = [j EXCEPT !.pc = j.pc, !.dels = j.dels, !.gone = j.gone \ {a},
                        !.staged = j.staged, !.verdict = j.verdict]
      BY <1>1 DEF Commands
    <2>2. /\ j.pc = "restoreKeys" /\ UNCHANGED <<disk, outcome>>
          /\ Goes(p, [j EXCEPT !.gone = j.gone \ {a}])
      BY <1>13 DEF RestoreKey, At
    <2>3. Goes(p, [j EXCEPT !.pc = j.pc, !.dels = j.dels, !.gone = j.gone \ {a},
                     !.staged = j.staged, !.verdict = j.verdict])
      BY <2>1, <2>2
    <2> QED
      BY <1>4, <2>2, <2>3
  <1>14. ASSUME NEW a \in Accounts, RestoreKeyFails(p, a)
         PROVE  EInv'
    <2>1. [j EXCEPT !.gone = j.gone \ {a}, !.verdict = "retained"]
            = [j EXCEPT !.pc = j.pc, !.dels = j.dels, !.gone = j.gone \ {a},
                        !.staged = j.staged, !.verdict = "retained"]
      BY <1>1 DEF Commands
    <2>2. /\ j.pc = "restoreKeys" /\ UNCHANGED <<disk, outcome>>
          /\ Goes(p, [j EXCEPT !.gone = j.gone \ {a}, !.verdict = "retained"])
      BY <1>14 DEF RestoreKeyFails, At
    <2>3. Goes(p, [j EXCEPT !.pc = j.pc, !.dels = j.dels, !.gone = j.gone \ {a},
                     !.staged = j.staged, !.verdict = "retained"])
      BY <2>1, <2>2
    <2> QED
      BY <1>4, <2>2, <2>3
  <1>15. ASSUME NEW a \in Accounts, Rollback(p, a) \/ RollbackFails(p, a)
         PROVE  EInv'
    <2>1. [j EXCEPT !.staged = j.staged \ {a}]
            = [j EXCEPT !.pc = j.pc, !.dels = j.dels, !.gone = j.gone,
                        !.staged = j.staged \ {a}, !.verdict = j.verdict]
      BY <1>1 DEF Commands
    <2>2. /\ j.pc = "rollback" /\ UNCHANGED <<disk, outcome>>
          /\ Goes(p, [j EXCEPT !.staged = j.staged \ {a}])
      BY <1>15 DEF Rollback, RollbackFails, At
    <2>3. Goes(p, [j EXCEPT !.pc = j.pc, !.dels = j.dels, !.gone = j.gone,
                     !.staged = j.staged \ {a}, !.verdict = j.verdict])
      BY <2>1, <2>2
    <2> QED
      BY <1>4, <2>2, <2>3
  <1> QED
    BY <1>5, <1>6, <1>7, <1>8, <1>9, <1>10, <1>11, <1>12, <1>13, <1>14, <1>15

\* A command reports (writeConfig returns).
LEMMA ReportEdits ==
  ASSUME EInv, IInv', NEW p \in Procs, LockTimeout(p) \/ Unlock(p)
  PROVE  EInv'
  <1> DEFINE j == cmd[p]
  <1>1. j \in Commands /\ EditPhase(j)
    BY DEF EInv, IInv, TypeOK
  <1>2. CASE LockTimeout(p)
    <2>1. j.pc = "lock"
      BY <1>2 DEF LockTimeout, At
    <2>2. Unseen(j) /\ \A q \in Procs : j.edit \notin EditsOf(cmd[q].base)
      BY <1>1, <2>1 DEF EditPhase
    <2> QED
      BY <1>2, <2>1, <2>2, ReportedInv DEF LockTimeout, Verdicts
  <1>3. CASE Unlock(p)
    <2>1. j.pc = "unlock" /\ j.verdict \in Verdicts
      BY <1>1, <1>3 DEF Unlock, At, Commands
    <2>2. \A q \in Procs \ {p} : cmd[q].pc \notin Critical
      BY <2>1, OneWriter DEF EInv, Critical
    <2> QED
      BY <1>1, <1>3, <2>1, <2>2, ReportedInv DEF Unlock, EditPhase, Critical
  <1> QED
    BY <1>2, <1>3

\* The machine comes up again with one of the documents that can be found.
LEMMA PowerLossEdits ==
  ASSUME EInv, IInv', PowerLoss
  PROVE  EInv'
  <1>1. disk' \subseteq disk /\ UNCHANGED outcome
    BY DEF PowerLoss
  <1>2. \A p \in Procs : /\ cmd'[p].edit = NoEdit /\ cmd'[p].base = NoFile
                         /\ cmd'[p].pc = "idle"
    BY DEF PowerLoss, NoCommand
  <1>3. (\A m \in disk : Agrees(m))'
    BY <1>1 DEF EInv, Agrees
  <1>4. Owned'
    BY <1>2 DEF Owned, EditsOf
  <1>5. ASSUME NEW p \in Procs
        PROVE  EditPhase(cmd[p])'
    BY <1>2 DEF EditPhase, EditsOf
  <1> QED
    BY <1>3, <1>4, <1>5 DEF EInv

-------------------------------------------------------------------------------
\* Every step keeps the invariant.
LEMMA StepEdits == EInv /\ [Next]_vars => EInv'
  <1> SUFFICES ASSUME EInv, [Next]_vars
               PROVE  EInv'
    OBVIOUS
  <1>1. IInv'
    BY StepInv DEF EInv
  <1>2. CASE UNCHANGED vars
    BY <1>1, <1>2 DEF vars, EInv, Owned, Agrees, EditPhase, Unseen
  <1>3. CASE PowerLoss
    BY <1>1, <1>3, PowerLossEdits
  <1>4. ASSUME NEW p \in Procs, Load(p) \/ (\E e \in Edits : Mutate(p, e))
        PROVE  EInv'
    BY <1>1, <1>4, LoadEdits, MutateEdits
  <1>5. ASSUME NEW p \in Procs, Continue(p)
        PROVE  EInv'
    BY <1>1, <1>5, LoadEdits, PrepareEdits, InstallEdits, FinishEdits, RestoreFileEdits,
       RestoreSyncEdits, ReportEdits DEF Continue
  <1>6. ASSUME NEW p \in Procs, Disturb(p)
        PROVE  EInv'
    BY <1>1, <1>6, LoadEdits, PrepareEdits, FinishEdits DEF Disturb
  <1> QED
    BY <1>2, <1>3, <1>4, <1>5, <1>6 DEF Next

\* An edit that gcx reports as written is in every document that can be found
\* from then on: no concurrent command loses it (the revision check under the
\* lock) and no power loss undoes it (syncConfigDirectory before the report).
THEOREM SuccessHolds == Spec => []SuccessIsDurable
  <1>1. EInv => SuccessIsDurable
    BY DEF EInv, Agrees, SuccessIsDurable
  <1> QED
    BY InitEdits, StepEdits, <1>1, PTL DEF Spec

\* An edit that gcx reports as failed is in no document that can be found,
\* whichever step of the write failed (rollback, restoreConfigContents).
THEOREM FailureHolds == Spec => []FailureIsInvisible
  <1>1. EInv => FailureIsInvisible
    BY DEF EInv, Agrees, Absent, FailureIsInvisible
  <1> QED
    BY InitEdits, StepEdits, <1>1, PTL DEF Spec

-------------------------------------------------------------------------------
(* ConfigStore implements ConfigRegister *)

\* The document a command writes differs in meaning from the one it loaded in
\* at most one credential, which its edit sets or clears.
Wanted(k) ==
  /\ k.pc \in {"idle", "resolve", "loaded", "refresh"} => k.touched = {}
  /\ k.pc \in {"lock", "validate", "stage", "preflight", "install"} =>
       /\ k.touched \in {{}} \cup {{c} : c \in Creds}
       /\ k.edit = NoEdit => k.touched = {} /\ k.base # NoFile
       /\ \A c \in k.touched : k.next.want[c] \in {k.edit, Unset}
       /\ \A c \in Creds \ k.touched : k.next.want[c] = WantOf(k.base)[c]

\* The meaning of a document whose references lead where they should.
Plain(m) == IF m = NoFile THEN NoFile ELSE [edits |-> m.edits, want |-> m.want]

\* After the rename the edit is in place; a migration has changed no meaning.
InPlace(k) ==
  k.pc \in {"sync", "commit", "restoreKeys", "restoreFile"} =>
    IF k.edit = NoEdit THEN Plain(file) = Plain(k.base) ELSE k.edit \in EditsOf(file)

RInv == EInv /\ \A p \in Procs : Wanted(cmd[p]) /\ InPlace(cmd[p])

-------------------------------------------------------------------------------
(* What a command wants *)

Before == {"idle", "resolve", "loaded", "refresh"}
Writing == {"lock", "validate", "stage", "preflight", "install"}

\* A step that does not change what the command wants.
LEMMA WantedKept ==
  ASSUME NEW j, NEW k, Wanted(j), k.edit = j.edit, k.base = j.base, k.touched = j.touched,
         k.next.want = j.next.want,
         k.pc \in Before => j.pc \in Before, k.pc \in Writing => j.pc \in Writing
  PROVE  Wanted(k)
  BY DEF Wanted, Before, Writing

\* The steps of a load; a migration wants the document as it is.
LEMMA LoadWanted ==
  ASSUME RInv, NEW p \in Procs,
         \/ Load(p) \/ FinishLoad(p) \/ Quit(p) \/ Refresh(p) \/ Crash(p)
         \/ LockTimeout(p) \/ Unlock(p)
         \/ \E c \in Creds : Resolve(p, c) \/ ResolveFails(p, c)
  PROVE  Wanted(cmd'[p])
  <1> DEFINE j == cmd[p]
  <1>1. j \in Commands /\ Wanted(j) /\ EditPhase(j) /\ TypeOK
    BY DEF RInv, EInv, IInv, TypeOK
  <1>2. NoCommand.touched = {} /\ NoCommand.pc = "idle"
    BY DEF NoCommand
  <1>3. ASSUME NEW k, Goes(p, k), k.touched = {}, k.pc \in Before
        PROVE  Wanted(cmd'[p])
    BY <1>1, <1>3, GoesOK DEF Wanted, Before
  <1>4. CASE Load(p)
    <2>1. LET k == LoadedFrom(file, NoCommand) IN k.touched = {} /\ k.pc = "resolve"
      BY DEF LoadedFrom, NoCommand
    <2> QED
      BY <1>3, <1>4, <2>1 DEF Load, Before
  <1>5. CASE Refresh(p)
    <2>1. LET k == LoadedFrom(file, j) IN k.touched = {} /\ k.pc = "resolve"
      BY <1>1, <1>5 DEF LoadedFrom, Commands, Refresh, At, Wanted
    <2> QED
      BY <1>2, <1>3, <1>5, <2>1 DEF Refresh, Before
  <1>6. CASE Quit(p) \/ Crash(p)
    BY <1>2, <1>3, <1>6 DEF Quit, Crash, Before
  <1>7. CASE LockTimeout(p) \/ Unlock(p)
    <2>1. ASSUME NEW v
          PROVE  LET k == AfterWrite(j, v) IN k.touched = {} /\ k.pc \in Before
      BY DEF AfterWrite, NoCommand, Before
    <2> QED
      BY <1>3, <1>7, <2>1 DEF LockTimeout, Unlock
  <1>8. CASE FinishLoad(p)
    <2>1. j.pc = "resolve" /\ j.touched = {}
      BY <1>1, <1>8 DEF FinishLoad, At, Wanted
    <2>2. CASE Goes(p, [j EXCEPT !.pc = "loaded"])
      <3>1. LET k == [j EXCEPT !.pc = "loaded"] IN k.touched = {} /\ k.pc = "loaded"
        BY <1>1, <2>1 DEF Commands
      <3> QED
        BY <1>3, <2>2, <3>1 DEF Before
    <2>3. CASE Goes(p, [j EXCEPT !.pc = "lock", !.next = j.base]) /\ PlaintextInMemory(j)
      <3> DEFINE k == [j EXCEPT !.pc = "lock", !.next = j.base]
      <3>1. k.touched = {} /\ k.pc = "lock" /\ k.next = j.base /\ k.base = j.base
        BY <1>1, <2>1 DEF Commands
      <3> HIDE DEF k
      <3>2. cmd'[p] = k
        BY <1>1, <2>3, GoesOK DEF k
      <3>3. j.base # NoFile
        BY <2>3, ConstantsOK DEF PlaintextInMemory, SlotOf, RInv, EInv, IInv, Phase
      <3>4. \A c \in Creds : k.next.want[c] = WantOf(k.base)[c]
        BY <3>1, <3>3 DEF WantOf
      <3> QED
        BY <3>1, <3>2, <3>3, <3>4 DEF Wanted
    <2> QED
      BY <1>8, <2>2, <2>3 DEF FinishLoad
  <1>9. ASSUME NEW c \in Creds, NEW s, Goes(p, [j EXCEPT !.status[c] = s]), MayResolve(p, c)
        PROVE  Wanted(cmd'[p])
    <2>1. j.pc \in {"resolve", "loaded"} /\ j.touched = {}
      BY <1>1, <1>9 DEF MayResolve, At, Wanted
    <2>2. LET k == [j EXCEPT !.status[c] = s] IN k.touched = {} /\ k.pc = j.pc
      BY <1>1, <2>1 DEF Commands
    <2> QED
      BY <1>3, <1>9, <2>1, <2>2 DEF Before
  <1> QED
    BY <1>4, <1>5, <1>6, <1>7, <1>8, <1>9 DEF Resolve, ResolveFails

\* A command touches at most one credential (SaveProviderConfig).
LEMMA MutateWanted ==
  ASSUME RInv, NEW p \in Procs, NEW e \in Edits, Mutate(p, e)
  PROVE  Wanted(cmd'[p])
  <1> DEFINE j == cmd[p]
             want(touched, v) == [c \in Creds |-> IF c \in touched THEN v ELSE WantOf(j.base)[c]]
             n(w) == [edits |-> EditsOf(j.base) \cup {e}, want |-> w, slot |-> SlotOf(j.base)]
             k(touched, m) == [j EXCEPT !.pc = "lock", !.edit = e, !.touched = touched,
                                        !.next = m]
  <1>1. j \in Commands /\ TypeOK
    BY DEF RInv, EInv, IInv, TypeOK
  <1>2. PICK touched \in {{}} \cup {{c} : c \in Creds}, v \in {e, Unset} :
          Goes(p, k(touched, n(want(touched, v))))
    BY DEF Mutate
  <1>3. \A c \in Creds : want(touched, v)[c] = IF c \in touched THEN v ELSE WantOf(j.base)[c]
    OBVIOUS
  <1> HIDE DEF want
  <1>4. n(want(touched, v)).want = want(touched, v)
    OBVIOUS
  <1> HIDE DEF n
  <1>5. cmd'[p] = k(touched, n(want(touched, v)))
    BY <1>1, <1>2, GoesOK
  <1>6. /\ cmd'[p].edit = e /\ cmd'[p].base = j.base /\ cmd'[p].pc = "lock"
        /\ cmd'[p].touched = touched /\ cmd'[p].next = n(want(touched, v))
    BY <1>1, <1>5 DEF Commands
  <1> QED
    BY <1>3, <1>4, <1>6, ConstantsOK DEF Wanted

\* Up to the rename a command does not change its mind.
LEMMA PrepareWanted ==
  ASSUME RInv, NEW p \in Procs,
         \/ Acquire(p) \/ Validate(p) \/ StageDone(p) \/ Preflight(p)
         \/ \E c \in Creds : Stage(p, c) \/ StagePlaintext(p, c)
  PROVE  Wanted(cmd'[p])
  <1> DEFINE j == cmd[p]
  <1>1. j \in Commands /\ Wanted(j) /\ TypeOK /\ Phase(j)
    BY DEF RInv, EInv, IInv, TypeOK
  <1>2. ASSUME NEW k, Goes(p, k), j.pc \in Writing, k.pc \in Writing \cup {"unlock", "rollback"},
               k.edit = j.edit, k.base = j.base, k.touched = j.touched, k.next.want = j.next.want
        PROVE  Wanted(cmd'[p])
    <2>1. cmd'[p] = k /\ k.pc \notin Before
      BY <1>1, <1>2, GoesOK DEF Before, Writing
    <2>2. k.pc \in Writing => j.pc \in Writing
      BY <1>2
    <2> QED
      BY <1>1, <1>2, <2>1, <2>2, WantedKept
  <1>3. ASSUME NEW s
        PROVE  /\ LET k == [j EXCEPT !.pc = s]
                  IN  /\ k.edit = j.edit /\ k.base = j.base /\ k.touched = j.touched
                      /\ k.next = j.next /\ k.pc = s
               /\ LET k == [j EXCEPT !.pc = s, !.verdict = "failed"]
                  IN  /\ k.edit = j.edit /\ k.base = j.base /\ k.touched = j.touched
                      /\ k.next = j.next /\ k.pc = s
               /\ \A m : LET k == [j EXCEPT !.pc = s, !.saved = m]
                         IN  /\ k.edit = j.edit /\ k.base = j.base /\ k.touched = j.touched
                             /\ k.next = j.next /\ k.pc = s
    BY <1>1 DEF Commands
  <1>4. CASE Acquire(p)
    BY <1>2, <1>3, <1>4 DEF Acquire, At, Writing
  <1>5. CASE StageDone(p)
    BY <1>2, <1>3, <1>5 DEF StageDone, At, Writing
  <1>6. CASE Preflight(p)
    <2>1. j.pc = "preflight"
      BY <1>6 DEF Preflight, At
    <2>2. ASSUME NEW m, Goes(p, [j EXCEPT !.pc = "install", !.saved = m])
          PROVE  Wanted(cmd'[p])
      <3> DEFINE k == [j EXCEPT !.pc = "install", !.saved = m]
      <3>1. /\ k.edit = j.edit /\ k.base = j.base /\ k.touched = j.touched
            /\ k.next = j.next /\ k.pc = "install" /\ Goes(p, k)
        BY <1>3, <2>2
      <3> QED
        BY <1>2, <2>1, <3>1 DEF Writing
    <2>3. CASE Goes(p, [j EXCEPT !.pc = "install"])
      BY <1>2, <1>3, <2>1, <2>3 DEF Writing
    <2>4. CASE Goes(p, Fails(j))
      BY <1>2, <1>3, <2>1, <2>4 DEF Writing, Fails
    <2> QED
      BY <1>6, <2>2, <2>3, <2>4 DEF Preflight
  <1>7. CASE Validate(p)
    <2>1. j.pc = "validate" /\ j.next \in Contents
      BY <1>1, <1>7 DEF Validate, At, Phase, Intended, Commands
    <2>2. CASE Goes(p, [j EXCEPT !.pc = "unlock", !.verdict = "failed"])
      BY <1>2, <1>3, <2>1, <2>2 DEF Writing
    <2>3. ASSUME NEW need, NEW dels, NEW slot,
                 Goes(p, [j EXCEPT !.pc = "stage", !.need = need, !.dels = dels,
                                   !.next.slot = slot])
          PROVE  Wanted(cmd'[p])
      <3> DEFINE k == [j EXCEPT !.pc = "stage", !.need = need, !.dels = dels,
                                !.next.slot = slot]
      <3>1. /\ k.edit = j.edit /\ k.base = j.base /\ k.touched = j.touched /\ k.pc = "stage"
            /\ k.next = [j.next EXCEPT !.slot = slot]
        BY <1>1 DEF Commands
      <3>2. Goes(p, k)
        BY <2>3
      <3> HIDE DEF k
      <3>3. k.next.want = j.next.want
        BY <2>1, <3>1 DEF Contents
      <3> QED
        BY <1>2, <2>1, <3>1, <3>2, <3>3 DEF Writing
    <2> QED
      BY <1>7, <2>2, <2>3 DEF Validate
  <1>8. ASSUME NEW c \in Creds, NEW need, NEW staged, NEW dels, NEW x, j.pc = "stage",
               Goes(p, [j EXCEPT !.need = need, !.staged = staged, !.dels = dels,
                                 !.next.slot[c] = x])
        PROVE  Wanted(cmd'[p])
    <2> DEFINE k == [j EXCEPT !.need = need, !.staged = staged, !.dels = dels,
                              !.next.slot[c] = x]
    <2>1. /\ k.edit = j.edit /\ k.base = j.base /\ k.touched = j.touched /\ k.pc = "stage"
          /\ k.next = [j.next EXCEPT !.slot[c] = x]
      BY <1>1, <1>8 DEF Commands
    <2> HIDE DEF k
    <2>2. cmd'[p] = k
      BY <1>1, <1>8, GoesOK DEF k
    <2>3. j.next \in Contents
      BY <1>1, <1>8 DEF Phase, Linked, Commands
    <2>4. k.next.want = j.next.want /\ k.pc \notin Before /\ j.pc \in Writing
      BY <1>8, <2>1, <2>3 DEF Contents, Before, Writing
    <2> QED
      BY <1>1, <2>1, <2>2, <2>4, WantedKept
  <1>9. ASSUME NEW c \in Creds, Stage(p, c)
         PROVE  Wanted(cmd'[p])
    BY <1>8, <1>9 DEF Stage, At
  <1>10. ASSUME NEW c \in Creds, StagePlaintext(p, c)
         PROVE  Wanted(cmd'[p])
    <2>1. [j EXCEPT !.need = j.need \ {c}, !.next.slot[c] = j.next.want[c]]
            = [j EXCEPT !.need = j.need \ {c}, !.staged = j.staged, !.dels = j.dels,
                        !.next.slot[c] = j.next.want[c]]
      BY <1>1 DEF Commands
    <2>2. j.pc = "stage" /\ Goes(p, [j EXCEPT !.need = j.need \ {c},
                                             !.next.slot[c] = j.next.want[c]])
      BY <1>10 DEF StagePlaintext, At
    <2>3. Goes(p, [j EXCEPT !.need = j.need \ {c}, !.staged = j.staged, !.dels = j.dels,
                            !.next.slot[c] = j.next.want[c]])
      BY <2>1, <2>2
    <2> QED
      BY <1>8, <2>2, <2>3
  <1> QED
    BY <1>4, <1>5, <1>6, <1>7, <1>9, <1>10

\* After the rename, and after a failure, nothing is wanted any more.
LEMMA FinishWanted ==
  ASSUME RInv, NEW p \in Procs,
         \/ WriteFails(p) \/ Install(p) \/ SyncDirectory(p) \/ SyncFails(p) \/ CommitDone(p)
         \/ RestoreKeysDone(p) \/ RestoreFile(p) \/ RestoreSync(p) \/ RestoreFails(p)
         \/ RollbackDone(p)
         \/ \E c \in Creds : StageFails(p, c)
         \/ \E a \in Accounts : \/ DeleteOld(p, a) \/ DeleteFails(p, a) \/ RestoreKey(p, a)
                               \/ RestoreKeyFails(p, a) \/ Rollback(p, a)
                               \/ RollbackFails(p, a)
  PROVE  Wanted(cmd'[p])
  <1> DEFINE j == cmd[p]
             Ended == {"sync", "commit", "restoreKeys", "restoreFile", "restoreSync",
                       "rollback", "unlock"}
  <1>1. j \in Commands /\ TypeOK
    BY DEF RInv, EInv, IInv, TypeOK
  <1>2. ASSUME NEW k, Goes(p, k), k.pc \in Ended
        PROVE  Wanted(cmd'[p])
    BY <1>1, <1>2, GoesOK DEF Wanted
  <1>3. Fails(j).pc = "rollback" /\ \A t : [Fails(j) EXCEPT !.staged = t].pc = "rollback"
    BY <1>1 DEF Fails, Commands
  <1>4. ASSUME NEW s, NEW v
        PROVE  [j EXCEPT !.pc = s].pc = s /\ [j EXCEPT !.pc = s, !.verdict = v].pc = s
    BY <1>1 DEF Commands
  <1>5. CASE \/ WriteFails(p) \/ Install(p) \/ SyncDirectory(p) \/ SyncFails(p) \/ CommitDone(p)
             \/ RestoreKeysDone(p) \/ RestoreFile(p) \/ RestoreSync(p) \/ RestoreFails(p)
             \/ RollbackDone(p)
    BY <1>2, <1>3, <1>4, <1>5 DEF WriteFails, Install, SyncDirectory, SyncFails, CommitDone,
       RestoreKeysDone, RestoreFile, RestoreSync, RestoreFails, RollbackDone
  <1>6. ASSUME NEW c \in Creds, StageFails(p, c)
        PROVE  Wanted(cmd'[p])
    BY <1>2, <1>3, <1>6 DEF StageFails
  <1>7. ASSUME NEW a \in Accounts, \/ DeleteOld(p, a) \/ DeleteFails(p, a) \/ RestoreKey(p, a)
                                   \/ RestoreKeyFails(p, a) \/ Rollback(p, a)
                                   \/ RollbackFails(p, a)
        PROVE  Wanted(cmd'[p])
    <2>1. ASSUME NEW g, NEW t, NEW v
          PROVE  /\ [j EXCEPT !.gone = g].pc = j.pc
                 /\ [j EXCEPT !.gone = g, !.verdict = v].pc = j.pc
                 /\ [j EXCEPT !.staged = t].pc = j.pc
      BY <1>1 DEF Commands
    <2>2. CASE DeleteOld(p, a)
      <3>1. LET k == [j EXCEPT !.dels = j.dels \ {a}, !.gone = j.gone \cup {a}]
            IN  k.pc = j.pc
        BY <1>1 DEF Commands
      <3> QED
        BY <1>2, <2>2, <3>1 DEF DeleteOld, At
    <2>3. CASE DeleteFails(p, a)
      <3>1. LET k == [j EXCEPT !.pc = "restoreKeys", !.gone = j.gone \cup {a}]
            IN  k.pc = "restoreKeys"
        BY <1>1 DEF Commands
      <3> QED
        BY <1>2, <2>3, <3>1 DEF DeleteFails
    <2>4. CASE RestoreKey(p, a)
      BY <1>2, <2>1, <2>4 DEF RestoreKey, At
    <2>5. CASE RestoreKeyFails(p, a)
      BY <1>2, <2>1, <2>5 DEF RestoreKeyFails, At
    <2>6. CASE Rollback(p, a) \/ RollbackFails(p, a)
      BY <1>2, <2>1, <2>6 DEF Rollback, RollbackFails, At
    <2> QED
      BY <1>7, <2>2, <2>3, <2>4, <2>5, <2>6
  <1> QED
    BY <1>5, <1>6, <1>7

-------------------------------------------------------------------------------
(* What a write can still take back *)

Placing == {"sync", "commit", "restoreKeys", "restoreFile"}
Undoing == Placing \cup {"restoreSync"}

\* A command comes to these steps by the rename only, and stays with its edit.
Onward(j, k) ==
  k.pc \in Undoing => /\ j.pc \in Undoing /\ k.edit = j.edit /\ k.base = j.base
                      /\ k.pc \in Placing => j.pc \in Placing

\* The steps that stay outside, or leave.
LEMMA OnwardOutside ==
  ASSUME TypeOK, NEW p \in Procs,
         \/ Load(p) \/ FinishLoad(p) \/ Quit(p) \/ Refresh(p) \/ Crash(p) \/ LockTimeout(p)
         \/ Unlock(p) \/ Acquire(p) \/ Validate(p) \/ StageDone(p) \/ Preflight(p)
         \/ WriteFails(p) \/ SyncFails(p) \/ CommitDone(p) \/ RestoreSync(p) \/ RestoreFails(p)
         \/ RollbackDone(p)
         \/ \E e \in Edits : Mutate(p, e)
         \/ \E c \in Creds : \/ Resolve(p, c) \/ ResolveFails(p, c) \/ Stage(p, c)
                             \/ StagePlaintext(p, c) \/ StageFails(p, c)
         \/ \E a \in Accounts : Rollback(p, a) \/ RollbackFails(p, a)
  PROVE  Onward(cmd[p], cmd'[p])
  <1> DEFINE j == cmd[p]
             Outside == {"idle", "resolve", "loaded", "refresh", "lock", "validate", "stage",
                         "preflight", "install", "rollback", "unlock"}
  <1>1. j \in Commands
    BY DEF TypeOK
  <1>2. ASSUME NEW k, Goes(p, k), k.pc \in Outside
        PROVE  Onward(cmd[p], cmd'[p])
    BY <1>2, GoesOK DEF Onward, Undoing, Placing
  <1>3. /\ NoCommand.pc = "idle"
        /\ \A m, k : LoadedFrom(m, NoCommand).pc = "resolve"
        /\ \A m : LoadedFrom(m, j).pc = "resolve"
        /\ \A v : AfterWrite(j, v).pc \in {"idle", "refresh", "loaded"}
        /\ Fails(j).pc = "rollback" /\ \A t : [Fails(j) EXCEPT !.staged = t].pc = "rollback"
    BY <1>1 DEF NoCommand, LoadedFrom, AfterWrite, Fails, Commands
  <1>4. ASSUME NEW s, NEW v, NEW m
        PROVE  /\ [j EXCEPT !.pc = s].pc = s /\ [j EXCEPT !.pc = s, !.verdict = v].pc = s
               /\ [j EXCEPT !.pc = s, !.next = m].pc = s /\ [j EXCEPT !.pc = s, !.saved = m].pc = s
    BY <1>1 DEF Commands
  <1>5. CASE Load(p) \/ Quit(p) \/ Refresh(p) \/ Crash(p) \/ LockTimeout(p) \/ Unlock(p)
    <2>1. CASE Load(p)
      BY <1>2, <1>3, <2>1 DEF Load
    <2>2. CASE Quit(p)
      BY <1>2, <1>3, <2>2 DEF Quit
    <2>3. CASE Refresh(p)
      BY <1>2, <1>3, <2>3 DEF Refresh
    <2>4. CASE Crash(p)
      BY <1>2, <1>3, <2>4 DEF Crash
    <2>5. CASE LockTimeout(p)
      BY <1>2, <1>3, <2>5 DEF LockTimeout
    <2>6. CASE Unlock(p)
      BY <1>2, <1>3, <2>6 DEF Unlock
    <2> QED
      BY <1>5, <2>1, <2>2, <2>3, <2>4, <2>5, <2>6
  <1>6. CASE FinishLoad(p) \/ Acquire(p) \/ StageDone(p) \/ RollbackDone(p)
    <2>1. CASE FinishLoad(p)
      <3>1. LET k == [j EXCEPT !.pc = "lock", !.next = j.base] IN k.pc \in Outside
        BY <1>1 DEF Commands
      <3>2. LET k == [j EXCEPT !.pc = "loaded"] IN k.pc \in Outside
        BY <1>1 DEF Commands
      <3> QED
        BY <1>2, <2>1, <3>1, <3>2 DEF FinishLoad
    <2>2. CASE Acquire(p)
      BY <1>2, <1>4, <2>2 DEF Acquire
    <2>3. CASE StageDone(p)
      BY <1>2, <1>4, <2>3 DEF StageDone
    <2>4. CASE RollbackDone(p)
      BY <1>2, <1>4, <2>4 DEF RollbackDone
    <2> QED
      BY <1>6, <2>1, <2>2, <2>3, <2>4
  <1>7. CASE Preflight(p)
    <2>1. \A m : [j EXCEPT !.pc = "install", !.saved = m].pc = "install"
      BY <1>4
    <2>2. ASSUME NEW m, Goes(p, [j EXCEPT !.pc = "install", !.saved = m])
          PROVE  Onward(cmd[p], cmd'[p])
      BY <1>2, <2>1, <2>2
    <2>3. CASE Goes(p, [j EXCEPT !.pc = "install"])
      BY <1>2, <1>4, <2>3
    <2>4. CASE Goes(p, Fails(j))
      BY <1>2, <1>3, <2>4
    <2> QED
      BY <1>7, <2>2, <2>3, <2>4 DEF Preflight
  <1>8. CASE WriteFails(p) \/ SyncFails(p) \/ CommitDone(p) \/ RestoreSync(p) \/ RestoreFails(p)
    <2>1. CASE WriteFails(p)
      BY <1>2, <1>3, <1>4, <2>1 DEF WriteFails
    <2>2. CASE SyncFails(p)
      <3>1. LET k == [j EXCEPT !.pc = "unlock", !.verdict = "undurable"] IN k.pc \in Outside
        BY <1>1 DEF Commands
      <3> QED
        BY <1>2, <3>1, <2>2 DEF SyncFails
    <2>3. CASE CommitDone(p)
      <3>1. LET k == [j EXCEPT !.pc = "unlock", !.verdict = "ok"] IN k.pc \in Outside
        BY <1>1 DEF Commands
      <3> QED
        BY <1>2, <3>1, <2>3 DEF CommitDone
    <2>4. CASE RestoreSync(p)
      BY <1>2, <1>3, <1>4, <2>4 DEF RestoreSync
    <2>5. CASE RestoreFails(p)
      <3>1. LET k == [j EXCEPT !.pc = "unlock", !.verdict = "retained"] IN k.pc \in Outside
        BY <1>1 DEF Commands
      <3> QED
        BY <1>2, <3>1, <2>5 DEF RestoreFails
    <2> QED
      BY <1>8, <2>1, <2>2, <2>3, <2>4, <2>5
  <1>9. CASE Validate(p)
    <2>1. ASSUME NEW need, NEW dels, NEW slot,
                 Goes(p, [j EXCEPT !.pc = "stage", !.need = need, !.dels = dels, !.next.slot = slot])
          PROVE  Onward(cmd[p], cmd'[p])
      <3>1. LET k == [j EXCEPT !.pc = "stage", !.need = need, !.dels = dels, !.next.slot = slot]
            IN  k.pc \in Outside
        BY <1>1 DEF Commands
      <3> QED
        BY <1>2, <2>1, <3>1
    <2>2. CASE Goes(p, [j EXCEPT !.pc = "unlock", !.verdict = "failed"])
      <3>1. LET k == [j EXCEPT !.pc = "unlock", !.verdict = "failed"] IN k.pc \in Outside
        BY <1>1 DEF Commands
      <3> QED
        BY <1>2, <3>1, <2>2
    <2> QED
      BY <1>9, <2>1, <2>2 DEF Validate
  <1>10. ASSUME NEW e \in Edits, Mutate(p, e)
         PROVE  Onward(cmd[p], cmd'[p])
    <2>1. \A t, m : [j EXCEPT !.pc = "lock", !.edit = e, !.touched = t, !.next = m].pc = "lock"
      BY <1>1 DEF Commands
    <2>2. PICK t, m : Goes(p, [j EXCEPT !.pc = "lock", !.edit = e, !.touched = t, !.next = m])
      BY <1>10 DEF Mutate
    <2> QED
      BY <1>2, <2>1, <2>2
  <1>11. ASSUME NEW c \in Creds, Resolve(p, c) \/ ResolveFails(p, c) \/ StageFails(p, c)
         PROVE  Onward(cmd[p], cmd'[p])
    <2>1. \A s : [j EXCEPT !.status[c] = s].pc = j.pc
      BY <1>1 DEF Commands
    <2>2. CASE Resolve(p, c) \/ ResolveFails(p, c)
      BY <1>2, <2>1, <2>2 DEF Resolve, ResolveFails, MayResolve, At
    <2>3. CASE StageFails(p, c)
      BY <1>2, <1>3, <2>3 DEF StageFails
    <2> QED
      BY <1>11, <2>2, <2>3
  <1>12. ASSUME NEW c \in Creds, Stage(p, c) \/ StagePlaintext(p, c)
         PROVE  Onward(cmd[p], cmd'[p])
    <2>1. j.pc = "stage"
      BY <1>12 DEF Stage, StagePlaintext, At
    <2>2. CASE Stage(p, c)
      <3>1. LET k == [j EXCEPT !.need = j.need \ {c}, !.staged = j.staged \cup {NewAccount},
                               !.dels = j.dels \cup OldAccount(j, c), !.next.slot[c] = NewAccount]
            IN  k.pc \in Outside
        BY <1>1, <2>1 DEF Commands
      <3> QED
        BY <1>2, <2>2, <3>1 DEF Stage
    <2>3. CASE StagePlaintext(p, c)
      <3>1. LET k == [j EXCEPT !.need = j.need \ {c}, !.next.slot[c] = j.next.want[c]]
            IN  k.pc \in Outside
        BY <1>1, <2>1 DEF Commands
      <3> QED
        BY <1>2, <2>3, <3>1 DEF StagePlaintext
    <2> QED
      BY <1>12, <2>2, <2>3
  <1>13. ASSUME NEW a \in Accounts, Rollback(p, a) \/ RollbackFails(p, a)
         PROVE  Onward(cmd[p], cmd'[p])
    <2>1. \A t : [j EXCEPT !.staged = t].pc = j.pc
      BY <1>1 DEF Commands
    <2> QED
      BY <1>2, <1>13, <2>1 DEF Rollback, RollbackFails, At
  <1> QED
    BY <1>5, <1>6, <1>7, <1>8, <1>9, <1>10, <1>11, <1>12, <1>13

\* The steps within.
LEMMA OnwardInside ==
  ASSUME TypeOK, NEW p \in Procs,
         \/ SyncDirectory(p) \/ RestoreKeysDone(p) \/ RestoreFile(p)
         \/ \E a \in Accounts : \/ DeleteOld(p, a) \/ DeleteFails(p, a) \/ RestoreKey(p, a)
                                \/ RestoreKeyFails(p, a)
  PROVE  Onward(cmd[p], cmd'[p])
  <1> DEFINE j == cmd[p]
  <1>1. j \in Commands
    BY DEF TypeOK
  <1>2. ASSUME NEW k, Goes(p, k), k.edit = j.edit, k.base = j.base, j.pc \in Placing
        PROVE  Onward(cmd[p], cmd'[p])
    BY <1>2, GoesOK DEF Onward, Undoing
  <1>3. ASSUME NEW s
        PROVE  [j EXCEPT !.pc = s].edit = j.edit /\ [j EXCEPT !.pc = s].base = j.base
    BY <1>1 DEF Commands
  <1>4. CASE SyncDirectory(p) \/ RestoreKeysDone(p) \/ RestoreFile(p)
    BY <1>2, <1>3, <1>4 DEF SyncDirectory, RestoreKeysDone, RestoreFile, At, Placing
  <1>5. ASSUME NEW a \in Accounts, DeleteOld(p, a)
        PROVE  Onward(cmd[p], cmd'[p])
    <2>1. LET k == [j EXCEPT !.dels = j.dels \ {a}, !.gone = j.gone \cup {a}]
          IN  k.edit = j.edit /\ k.base = j.base
      BY <1>1 DEF Commands
    <2> QED
      BY <1>2, <1>5, <2>1 DEF DeleteOld, At, Placing
  <1>6. ASSUME NEW a \in Accounts, DeleteFails(p, a)
        PROVE  Onward(cmd[p], cmd'[p])
    <2>1. LET k == [j EXCEPT !.pc = "restoreKeys", !.gone = j.gone \cup {a}]
          IN  k.edit = j.edit /\ k.base = j.base
      BY <1>1 DEF Commands
    <2> QED
      BY <1>2, <1>6, <2>1 DEF DeleteFails, At, Placing
  <1>7. ASSUME NEW a \in Accounts, RestoreKey(p, a) \/ RestoreKeyFails(p, a)
        PROVE  Onward(cmd[p], cmd'[p])
    <2>1. /\ LET k == [j EXCEPT !.gone = j.gone \ {a}]
             IN  k.edit = j.edit /\ k.base = j.base
          /\ LET k == [j EXCEPT !.gone = j.gone \ {a}, !.verdict = "retained"]
             IN  k.edit = j.edit /\ k.base = j.base
      BY <1>1 DEF Commands
    <2> QED
      BY <1>2, <1>7, <2>1 DEF RestoreKey, RestoreKeyFails, At, Placing
  <1> QED
    BY <1>4, <1>5, <1>6, <1>7

\* What the rename does to the meaning of the document.
LEMMA InstallMeaning ==
  ASSUME RInv, IInv', NEW p \in Procs, Install(p)
  PROVE  /\ cmd'[p].edit = cmd[p].edit /\ cmd'[p].base = cmd[p].base
         /\ cmd'[p].pc = "sync"
         /\ file = cmd[p].base /\ file' = cmd[p].next /\ disk' = disk \cup {file'}
         /\ UNCHANGED outcome
         /\ file' \in Contents
         /\ file'.edits = EditsOf(file) \cup ({cmd[p].edit} \ {NoEdit})
         /\ cmd[p].edit # NoEdit => cmd[p].edit \notin EditsOf(file)
         /\ cmd[p].edit = NoEdit => Plain(file') = Plain(file)
  <1> DEFINE j == cmd[p]
  <1>1. j \in Commands /\ Phase(j) /\ EditPhase(j) /\ Wanted(j) /\ j.pc = "install" /\ TypeOK
    BY DEF RInv, EInv, IInv, TypeOK, Install, At
  <1>2. cmd'[p] = [j EXCEPT !.pc = "sync"] /\ file' = j.next
    BY <1>1, GoesOK DEF Install
  <1>3. cmd'[p].edit = j.edit /\ cmd'[p].base = j.base /\ cmd'[p].pc = "sync"
    BY <1>1, <1>2 DEF Commands
  <1>4. j.next \in Contents /\ j.next # NoFile /\ file = j.base /\ file \in Contents \cup {NoFile}
    BY <1>1 DEF Phase, Linked, Staging, Commands, TypeOK
  <1>5. j.next.edits = EditsOf(file) \cup ({j.edit} \ {NoEdit}) /\ j.edit \notin EditsOf(file)
    BY <1>1, <1>4 DEF EditPhase, EditsOf
  <1>6. ASSUME j.edit = NoEdit
        PROVE  Plain(file') = Plain(file)
    <2>1. file # NoFile /\ \A c \in Creds : j.next.want[c] = file.want[c]
      BY <1>1, <1>4, <1>6 DEF Wanted, WantOf
    <2>2. j.next.want = file.want
      BY <1>4, <2>1 DEF Contents
    <2>3. j.next.edits = file.edits
      BY <1>5, <1>6, <2>1 DEF EditsOf
    <2> QED
      BY <1>2, <1>4, <2>1, <2>2, <2>3 DEF Plain
  <1> QED
    BY <1>2, <1>3, <1>4, <1>5, <1>6 DEF Install

\* A step that leaves the document alone and goes onward keeps InPlace.
LEMMA InPlaceKept ==
  ASSUME RInv, NEW p \in Procs, UNCHANGED file, \A q \in Procs \ {p} : cmd'[q] = cmd[q],
         Onward(cmd[p], cmd'[p])
  PROVE  \A q \in Procs : InPlace(cmd[q])'
  <1>1. ASSUME NEW q \in Procs, q # p
        PROVE  InPlace(cmd[q])'
    BY <1>1 DEF RInv, InPlace, Plain, EditsOf
  <1>2. InPlace(cmd[p])'
    <2>1. SUFFICES ASSUME cmd'[p].pc \in Placing
                   PROVE  InPlace(cmd[p])'
      BY DEF InPlace, Placing
    <2>2. cmd[p].pc \in Placing /\ cmd'[p].edit = cmd[p].edit /\ cmd'[p].base = cmd[p].base
      BY <2>1 DEF Onward, Undoing, Placing
    <2>3. IF cmd[p].edit = NoEdit THEN Plain(file) = Plain(cmd[p].base)
                                  ELSE cmd[p].edit \in EditsOf(file)
      BY <2>2 DEF RInv, InPlace, Placing
    <2> QED
      BY <2>2, <2>3 DEF InPlace, Plain, EditsOf
  <1> QED
    BY <1>1, <1>2

\* So does the writer when it changes the document.
LEMMA InPlaceWritten ==
  ASSUME RInv, NEW p \in Procs, cmd[p].pc \in Critical, \A q \in Procs \ {p} : cmd'[q] = cmd[q],
         InPlace(cmd[p])'
  PROVE  \A q \in Procs : InPlace(cmd[q])'
  <1>1. \A q \in Procs \ {p} : cmd[q].pc \notin Critical
    BY OneWriter DEF RInv, EInv
  <1>2. ASSUME NEW q \in Procs, q # p
        PROVE  InPlace(cmd[q])'
    BY <1>1, <1>2 DEF InPlace, Critical
  <1> QED
    BY <1>2

\* A step of one process changes the command of no other.
LEMMA OthersStay ==
  ASSUME TypeOK, NEW p \in Procs,
         Load(p) \/ (\E e \in Edits : Mutate(p, e)) \/ Continue(p) \/ Disturb(p)
  PROVE  \A q \in Procs \ {p} : cmd'[q] = cmd[q]
  <1>1. ASSUME NEW k, Goes(p, k)
        PROVE  \A q \in Procs \ {p} : cmd'[q] = cmd[q]
    BY <1>1, GoesOK
  <1>2. CASE Load(p) \/ \E e \in Edits : Mutate(p, e)
    BY <1>1, <1>2 DEF Load, Mutate
  <1>3. CASE Continue(p)
    <2>1. ASSUME NEW c \in Creds, Resolve(p, c) \/ Stage(p, c) \/ StagePlaintext(p, c)
          PROVE  \A q \in Procs \ {p} : cmd'[q] = cmd[q]
      BY <1>1, <2>1 DEF Resolve, Stage, StagePlaintext
    <2>2. ASSUME NEW a \in Accounts, DeleteOld(p, a) \/ RestoreKey(p, a) \/ Rollback(p, a)
          PROVE  \A q \in Procs \ {p} : cmd'[q] = cmd[q]
      BY <1>1, <2>2 DEF DeleteOld, RestoreKey, Rollback
    <2>3. CASE \/ FinishLoad(p) \/ Quit(p) \/ Acquire(p) \/ LockTimeout(p) \/ StageDone(p)
               \/ Preflight(p) \/ SyncDirectory(p)
      BY <1>1, <2>3 DEF FinishLoad, Quit, Acquire, LockTimeout, StageDone, Preflight, SyncDirectory
    <2>4. CASE Validate(p)
      BY <1>1, <2>4 DEF Validate
    <2>5. CASE \/ CommitDone(p) \/ RestoreKeysDone(p) \/ RestoreSync(p) \/ RollbackDone(p)
               \/ Unlock(p) \/ Refresh(p)
      BY <1>1, <2>5 DEF CommitDone, RestoreKeysDone, RestoreSync, RollbackDone, Unlock, Refresh
    <2>6. CASE Install(p) \/ RestoreFile(p)
      BY <1>1, <2>6 DEF Install, RestoreFile
    <2> QED
      BY <1>3, <2>1, <2>2, <2>3, <2>4, <2>5, <2>6 DEF Continue
  <1>4. CASE Disturb(p)
    <2>1. ASSUME NEW c \in Creds, ResolveFails(p, c) \/ StageFails(p, c)
          PROVE  \A q \in Procs \ {p} : cmd'[q] = cmd[q]
      BY <1>1, <2>1 DEF ResolveFails, StageFails
    <2>2. ASSUME NEW a \in Accounts, DeleteFails(p, a) \/ RestoreKeyFails(p, a) \/ RollbackFails(p, a)
          PROVE  \A q \in Procs \ {p} : cmd'[q] = cmd[q]
      BY <1>1, <2>2 DEF DeleteFails, RestoreKeyFails, RollbackFails
    <2>3. CASE WriteFails(p) \/ SyncFails(p) \/ RestoreFails(p) \/ Crash(p)
      BY <1>1, <2>3 DEF WriteFails, SyncFails, RestoreFails, Crash
    <2> QED
      BY <1>4, <2>1, <2>2, <2>3 DEF Disturb
  <1> QED
    BY <1>2, <1>3, <1>4

\* Only the rename and the restoring of the old document change what is seen.
LEMMA FileStays ==
  ASSUME NEW p \in Procs,
         Load(p) \/ (\E e \in Edits : Mutate(p, e)) \/ Continue(p) \/ Disturb(p)
  PROVE  UNCHANGED file \/ Install(p) \/ RestoreFile(p)
  <1>1. CASE Load(p) \/ \E e \in Edits : Mutate(p, e)
    BY <1>1 DEF Load, Mutate
  <1>2. CASE Continue(p)
    <2>1. ASSUME NEW c \in Creds, Resolve(p, c) \/ Stage(p, c) \/ StagePlaintext(p, c)
          PROVE  UNCHANGED file
      BY <2>1 DEF Resolve, Stage, StagePlaintext
    <2>2. ASSUME NEW a \in Accounts, DeleteOld(p, a) \/ RestoreKey(p, a) \/ Rollback(p, a)
          PROVE  UNCHANGED file
      BY <2>2 DEF DeleteOld, RestoreKey, Rollback
    <2>3. CASE \/ FinishLoad(p) \/ Quit(p) \/ Acquire(p) \/ LockTimeout(p) \/ StageDone(p)
               \/ Preflight(p) \/ SyncDirectory(p)
      BY <2>3 DEF FinishLoad, Quit, Acquire, LockTimeout, StageDone, Preflight, SyncDirectory
    <2>4. CASE Validate(p)
      BY <2>4 DEF Validate
    <2>5. CASE \/ CommitDone(p) \/ RestoreKeysDone(p) \/ RestoreSync(p) \/ RollbackDone(p)
               \/ Unlock(p) \/ Refresh(p)
      BY <2>5 DEF CommitDone, RestoreKeysDone, RestoreSync, RollbackDone, Unlock, Refresh
    <2>6. CASE Install(p) \/ RestoreFile(p)
      BY <2>6
    <2> QED
      BY <1>2, <2>1, <2>2, <2>3, <2>4, <2>5, <2>6 DEF Continue
  <1>3. CASE Disturb(p)
    <2>1. ASSUME NEW c \in Creds, ResolveFails(p, c) \/ StageFails(p, c)
          PROVE  UNCHANGED file
      BY <2>1 DEF ResolveFails, StageFails
    <2>2. ASSUME NEW a \in Accounts, DeleteFails(p, a) \/ RestoreKeyFails(p, a) \/ RollbackFails(p, a)
          PROVE  UNCHANGED file
      BY <2>2 DEF DeleteFails, RestoreKeyFails, RollbackFails
    <2>3. CASE WriteFails(p) \/ SyncFails(p) \/ RestoreFails(p) \/ Crash(p)
      BY <2>3 DEF WriteFails, SyncFails, RestoreFails, Crash
    <2> QED
      BY <1>3, <2>1, <2>2, <2>3 DEF Disturb
  <1> QED
    BY <1>1, <1>2, <1>3

\* The invariant of the refinement.
LEMMA RefineInv == RInv /\ [Next]_vars => RInv'
  <1> SUFFICES ASSUME RInv, [Next]_vars
               PROVE  RInv'
    OBVIOUS
  <1>1. EInv' /\ IInv' /\ TypeOK
    BY StepEdits DEF RInv, EInv, IInv
  <1>2. CASE UNCHANGED vars
    BY <1>1, <1>2 DEF vars, RInv, InPlace, Plain, EditsOf
  <1>3. CASE PowerLoss
    BY <1>1, <1>3 DEF PowerLoss, RInv, Wanted, NoCommand, InPlace
  <1>4. ASSUME NEW p \in Procs,
               Load(p) \/ (\E e \in Edits : Mutate(p, e)) \/ Continue(p) \/ Disturb(p)
        PROVE  RInv'
    <2>1. Wanted(cmd'[p])
      BY <1>4, LoadWanted, MutateWanted, PrepareWanted, FinishWanted DEF Continue, Disturb
    <2>2. \A q \in Procs \ {p} : cmd'[q] = cmd[q]
      BY <1>1, <1>4, OthersStay
    <2>3. CASE Install(p)
      <3>1. /\ cmd'[p].edit = cmd[p].edit /\ cmd'[p].base = cmd[p].base
            /\ file = cmd[p].base /\ file' \in Contents
            /\ file'.edits = EditsOf(file) \cup ({cmd[p].edit} \ {NoEdit})
            /\ cmd[p].edit = NoEdit => Plain(file') = Plain(file)
        BY <1>1, <2>3, InstallMeaning
      <3>2. file' # NoFile
        BY <3>1, NoFileOK
      <3>3. cmd[p].edit # NoEdit => cmd[p].edit \in EditsOf(file')
        BY <3>1, <3>2 DEF EditsOf
      <3>4. InPlace(cmd[p])'
        BY <3>1, <3>3 DEF InPlace, Plain, EditsOf
      <3> QED
        BY <2>2, <2>3, <3>4, InPlaceWritten, <1>1, <2>1 DEF Install, At, Critical, RInv
    <2>4. CASE RestoreFile(p)
      <3>1. cmd'[p].pc = "restoreSync"
        BY <1>1, <2>4, GoesOK DEF RestoreFile, TypeOK, Commands
      <3>2. InPlace(cmd[p])'
        BY <3>1 DEF InPlace
      <3> QED
        BY <1>1, <2>1, <2>2, <2>4, <3>2, InPlaceWritten DEF RestoreFile, At, Critical, RInv
    <2>5. CASE UNCHANGED file /\ Onward(cmd[p], cmd'[p])
      BY <1>1, <2>1, <2>2, <2>5, InPlaceKept DEF RInv
    <2>6. Onward(cmd[p], cmd'[p]) \/ Install(p)
      BY <1>1, <1>4, OnwardOutside, OnwardInside DEF Continue, Disturb
    <2>7. UNCHANGED file \/ Install(p) \/ RestoreFile(p)
      BY <1>4, FileStays
    <2> QED
      BY <2>3, <2>4, <2>5, <2>6, <2>7
  <1> QED
    BY <1>2, <1>3, <1>4 DEF Next

-------------------------------------------------------------------------------
(* The register that a reader sees *)

\* What Register takes for `prior`.
Prior == IF Reversible = {} THEN Meaning(file)
         ELSE LET m == cmd[CHOOSE p \in Reversible : TRUE].base
              IN  IF m = NoFile THEN NoFile
                  ELSE [edits |-> m.edits, want |-> m.want]

\* Documents mean what their authors meant, and a write that can be taken back
\* is the only one.
AsMeant ==
  /\ Meaning(file) = Plain(file)
  /\ { Meaning(m) : m \in disk } = { Plain(m) : m \in disk }
  /\ \A p \in Procs : cmd[p].pc \in Undoing => Prior = Plain(cmd[p].base)
  /\ (\A p \in Procs : cmd[p].pc \notin Undoing) => Prior = Plain(file)

LEMMA Seen == RInv => AsMeant
  <1> SUFFICES ASSUME RInv
               PROVE  AsMeant
    OBVIOUS
  <1>1. ASSUME NEW m \in disk
        PROVE  Meaning(m) = Plain(m)
    <2>1. m \in Contents \cup {NoFile} /\ \A c \in Creds : Secret(SlotOf(m)[c]) = WantOf(m)[c]
      BY DEF RInv, EInv, IInv, TypeOK, Documents, Readable
    <2>2. CASE m = NoFile
      BY <2>2 DEF Meaning, Plain
    <2>3. CASE m # NoFile
      <3>1. \A c \in Creds : Secret(m.slot[c]) = m.want[c]
        BY <2>1, <2>3 DEF SlotOf, WantOf
      <3>2. m.want = [c \in Creds |-> m.want[c]]
        BY <2>1, <2>3 DEF Contents
      <3>3. [c \in Creds |-> Secret(m.slot[c])] = m.want
        BY <3>1, <3>2
      <3> QED
        BY <2>3, <3>3 DEF Meaning, Plain
    <2> QED
      BY <2>2, <2>3
  <1>2. Meaning(file) = Plain(file)
    BY <1>1 DEF RInv, EInv, IInv
  <1>3. ASSUME NEW p \in Procs, cmd[p].pc \in Undoing
        PROVE  Prior = Plain(cmd[p].base)
    <2>1. \A q \in Procs \ {p} : cmd[q].pc \notin Critical
      BY <1>3, OneWriter DEF RInv, EInv, Undoing, Placing, Critical
    <2>2. Reversible = {p}
      BY <1>3, <2>1 DEF Reversible, Undoing, Placing, Critical
    <2> QED
      BY <2>2 DEF Prior, Plain
  <1>4. ASSUME \A p \in Procs : cmd[p].pc \notin Undoing
        PROVE  Prior = Plain(file)
    <2>1. Reversible = {}
      BY <1>4 DEF Reversible, Undoing, Placing
    <2> QED
      BY <1>2, <2>1 DEF Prior
  <1> QED
    BY <1>1, <1>2, <1>3, <1>4 DEF AsMeant

LEMMA SeenNext == RInv' => AsMeant'
  BY Seen, PTL

\* A step that no reader of the document notices; at most it ends the time in
\* which the write could be taken back.
LEMMA Unnoticed ==
  ASSUME RInv, RInv', UNCHANGED outcome, Plain(file') = Plain(file),
         { Plain(m) : m \in disk' } = { Plain(m) : m \in disk },
         Prior' \in {Prior, Plain(file')}
  PROVE  [Register!Next]_Register!vars
  <1>1. /\ Meaning(file)' = Meaning(file)
        /\ { Meaning(m) : m \in disk }' = { Meaning(m) : m \in disk }
        /\ Prior' \in {Prior, Meaning(file)'}
    BY Seen, SeenNext DEF AsMeant
  <1>2. CASE Prior' = Prior
    BY <1>1, <1>2 DEF Register!vars, Prior
  <1>3. CASE Prior' = Meaning(file)'
    <2>1. Register!Close
      BY <1>1, <1>3 DEF Register!Close, Prior
    <2> QED
      BY <2>1 DEF Register!Next
  <1> QED
    BY <1>1, <1>2, <1>3

\* The starting point of the write in progress stays, or is given up.
LEMMA PriorKept ==
  ASSUME RInv, RInv', NEW p \in Procs, Plain(file') = Plain(file),
         \A q \in Procs \ {p} : cmd'[q] = cmd[q], Onward(cmd[p], cmd'[p])
  PROVE  Prior' \in {Prior, Plain(file')}
  <1>1. CASE \A q \in Procs : cmd'[q].pc \notin Undoing
    BY <1>1, SeenNext DEF AsMeant
  <1>2. ASSUME NEW q \in Procs, cmd'[q].pc \in Undoing
        PROVE  Prior' = Prior
    <2>1. cmd[q].pc \in Undoing /\ cmd'[q].base = cmd[q].base
      BY <1>2 DEF Onward, Undoing
    <2> QED
      BY <1>2, <2>1, Seen, SeenNext DEF AsMeant
  <1> QED
    BY <1>1, <1>2

\* The edits of a document are those a reader sees.
LEMMA SameEdits ==
  ASSUME NEW m \in Contents \cup {NoFile}
  PROVE  /\ Register!EditsOf(Plain(m)) = EditsOf(m)
         /\ Register!WantOf(Plain(m)) = WantOf(m)
  <1>1. CASE m = NoFile
    BY <1>1 DEF Plain, EditsOf, WantOf, Register!EditsOf, Register!WantOf
  <1>2. CASE m # NoFile
    <2>1. Plain(m) \in Meanings /\ Plain(m) = [edits |-> m.edits, want |-> m.want]
      BY <1>2 DEF Plain, Meanings, Contents
    <2>2. Plain(m) # NoFile
      BY <2>1, NoFileOK
    <2> QED
      BY <1>2, <2>1, <2>2 DEF EditsOf, WantOf, Register!EditsOf, Register!WantOf
  <1> QED
    BY <1>1, <1>2

\* What a command writes is what its edit can make of the document it loaded.
LEMMA WrittenEdited ==
  ASSUME NEW m \in Contents \cup {NoFile}, NEW n \in Contents, NEW e \in Edits, n # NoFile,
         n.edits = EditsOf(m) \cup {e},
         NEW touched \in {{}} \cup {{c} : c \in Creds},
         \A c \in touched : n.want[c] \in {e, Unset},
         \A c \in Creds \ touched : n.want[c] = WantOf(m)[c]
  PROVE  Plain(n) \in Register!Edited(Plain(m), e)
  <1>1. Plain(n) = [edits |-> n.edits, want |-> n.want]
    BY DEF Plain
  <1>2. /\ n.want \in [Creds -> Edits \cup {Unset}]
        /\ n.edits = Register!EditsOf(Plain(m)) \cup {e}
        /\ Register!WantOf(Plain(m)) = WantOf(m)
    BY SameEdits DEF Contents
  <1>3. Plain(n) \in [edits : {Register!EditsOf(Plain(m)) \cup {e}},
                      want : [Creds -> Edits \cup {Unset}]]
    BY <1>1, <1>2
  <1> QED
    BY <1>1, <1>2, <1>3 DEF Register!Edited

-------------------------------------------------------------------------------
(* What each step is for the register *)

\* The rename shows an edit to every reader at once, and a migration to none.
LEMMA InstallRefines ==
  ASSUME RInv, RInv', NEW p \in Procs, Install(p)
  PROVE  [Register!Next]_Register!vars
  <1> DEFINE j == cmd[p]
  <1>1. /\ cmd'[p].base = j.base /\ cmd'[p].pc = "sync"
        /\ file = j.base /\ file' = j.next /\ disk' = disk \cup {file'}
        /\ UNCHANGED outcome /\ file' \in Contents
        /\ file'.edits = EditsOf(file) \cup ({j.edit} \ {NoEdit})
        /\ j.edit # NoEdit => j.edit \notin EditsOf(file)
        /\ j.edit = NoEdit => Plain(file') = Plain(file)
    BY InstallMeaning DEF RInv, EInv
  <1>2. j.pc = "install" /\ \A q \in Procs \ {p} : cmd[q].pc \notin Critical
    BY OneWriter DEF RInv, EInv, Install, At, Critical
  <1>3. Prior = Plain(file)
    BY <1>2, Seen DEF AsMeant, Undoing, Placing, Critical
  <1>4. Prior' = Plain(file)
    BY <1>1, SeenNext DEF AsMeant, Undoing, Placing
  <1>5. { Plain(m) : m \in disk' } = { Plain(m) : m \in disk } \cup {Plain(file')}
    BY <1>1
  <1>6. CASE j.edit = NoEdit
    <2>1. { Plain(m) : m \in disk' } = { Plain(m) : m \in disk }
      BY <1>1, <1>5, <1>6 DEF RInv, EInv, IInv
    <2> QED
      BY <1>1, <1>3, <1>4, <1>6, <2>1, Unnoticed
  <1>7. CASE j.edit # NoEdit
    <2>1. j.edit \in Edits /\ outcome[j.edit] = "pending" /\ file \in Contents \cup {NoFile}
      BY <1>7, EditTypes DEF RInv, EInv, IInv, TypeOK, Owned
    <2>2. /\ j.touched \in {{}} \cup {{c} : c \in Creds}
          /\ \A c \in j.touched : file'.want[c] \in {j.edit, Unset}
          /\ \A c \in Creds \ j.touched : file'.want[c] = WantOf(file)[c]
      BY <1>1, <1>2 DEF RInv, Wanted
    <2>3. file' # NoFile /\ file'.edits = EditsOf(file) \cup {j.edit}
      BY <1>1, <1>7, NoFileOK
    <2>4. Plain(file') \in Register!Edited(Plain(file), j.edit)
      BY <1>1, <2>1, <2>2, <2>3, WrittenEdited
    <2>5. j.edit \notin Register!EditsOf(Plain(file))
      BY <1>1, <1>7, <2>1, SameEdits
    <2>6. /\ Meaning(file) = Plain(file) /\ Meaning(file)' = Plain(file')
          /\ { Meaning(m) : m \in disk }' = { Meaning(m) : m \in disk } \cup {Meaning(file)'}
          /\ Prior' = Meaning(file)
      BY <1>4, <1>5, Seen, SeenNext DEF AsMeant
    <2>7. Register!Apply(j.edit)
      BY <1>1, <2>1, <2>4, <2>5, <2>6 DEF Register!Apply, Prior
    <2> QED
      BY <2>1, <2>7 DEF Register!Next
  <1> QED
    BY <1>6, <1>7

\* Putting the old document back takes the edit back.
LEMMA RestoreFileRefines ==
  ASSUME RInv, RInv', NEW p \in Procs, RestoreFile(p)
  PROVE  [Register!Next]_Register!vars
  <1> DEFINE j == cmd[p]
  <1>1. /\ j \in Commands /\ j.pc = "restoreFile" /\ InPlace(j) /\ j.saved.file = j.base
        /\ cmd' = [cmd EXCEPT ![p] = [j EXCEPT !.pc = "restoreSync"]] /\ TypeOK
    BY DEF RInv, EInv, IInv, TypeOK, Phase, Captured, RestoreFile, At, Goes
  <1>2. cmd'[p].pc = "restoreSync" /\ cmd'[p].base = j.base
    BY <1>1 DEF TypeOK, Commands
  <1>3. file' = j.base /\ disk' = disk \cup {file'} /\ UNCHANGED outcome
    BY <1>1 DEF RestoreFile
  <1>4. Prior = Plain(j.base) /\ Prior' = Plain(j.base)
    BY <1>1, <1>2, Seen, SeenNext DEF AsMeant, Undoing, Placing
  <1>5. { Plain(m) : m \in disk' } = { Plain(m) : m \in disk } \cup {Plain(file')}
    BY <1>3
  <1>6. CASE j.edit = NoEdit
    <2>1. Plain(file') = Plain(file)
      BY <1>1, <1>3, <1>6 DEF InPlace
    <2>2. { Plain(m) : m \in disk' } = { Plain(m) : m \in disk }
      BY <1>5, <2>1 DEF RInv, EInv, IInv
    <2> QED
      BY <1>3, <1>4, <2>1, <2>2, Unnoticed
  <1>7. CASE j.edit # NoEdit
    <2>1. j.edit \in Edits /\ outcome[j.edit] = "pending" /\ file \in Contents \cup {NoFile}
      BY <1>7, EditTypes DEF RInv, EInv, IInv, TypeOK, Owned
    <2>2. j.edit \in Register!EditsOf(Plain(file))
      BY <1>1, <1>7, <2>1, SameEdits DEF InPlace
    <2>3. /\ Meaning(file) = Plain(file) /\ Meaning(file)' = Prior /\ Prior' = Prior
          /\ { Meaning(m) : m \in disk }' = { Meaning(m) : m \in disk } \cup {Meaning(file)'}
      BY <1>3, <1>4, <1>5, Seen, SeenNext DEF AsMeant
    <2>4. Register!Undo(j.edit)
      BY <1>3, <2>1, <2>2, <2>3 DEF Register!Undo, Prior
    <2> QED
      BY <2>1, <2>4 DEF Register!Next
  <1> QED
    BY <1>6, <1>7

\* The directory sync, after the rename or after the old document came back.
LEMMA SyncRefines ==
  ASSUME RInv, RInv', NEW p \in Procs, SyncDirectory(p) \/ RestoreSync(p)
  PROVE  [Register!Next]_Register!vars
  <1> DEFINE j == cmd[p]
  <1>1. /\ j \in Commands /\ TypeOK /\ disk' = {file'} /\ UNCHANGED <<file, outcome>>
        /\ \A q \in Procs \ {p} : cmd[q].pc \notin Critical /\ cmd'[q] = cmd[q]
    BY OneWriter, GoesOK
    DEF RInv, EInv, IInv, TypeOK, SyncDirectory, RestoreSync, At, Critical
  <1>2. Prior' = Prior
    <2>1. CASE SyncDirectory(p)
      <3>1. cmd'[p] = [j EXCEPT !.pc = "commit"] /\ j.pc = "sync"
        BY <1>1, <2>1, GoesOK DEF SyncDirectory, At
      <3>2. cmd'[p].pc = "commit" /\ cmd'[p].base = j.base
        BY <1>1, <3>1 DEF Commands
      <3> QED
        BY <3>1, <3>2, Seen, SeenNext DEF AsMeant, Undoing, Placing
    <2>2. CASE RestoreSync(p)
      <3>1. cmd'[p] = Fails(j) /\ j.pc = "restoreSync" /\ file = j.base
        BY <1>1, <2>2, GoesOK DEF RestoreSync, At, RInv, EInv, IInv, Phase
      <3>2. cmd'[p].pc = "rollback"
        BY <1>1, <3>1 DEF Commands, Fails
      <3>3. \A q \in Procs : cmd'[q].pc \notin Undoing
        BY <1>1, <3>2 DEF Undoing, Placing, Critical
      <3> QED
        BY <1>1, <3>1, <3>3, Seen, SeenNext DEF AsMeant, Undoing
    <2> QED
      BY <2>1, <2>2
  <1>3. { Plain(m) : m \in disk' } = {Plain(file')}
    BY <1>1
  <1>4. Meaning(file)' = Meaning(file) /\ { Meaning(m) : m \in disk }' = {Meaning(file)}
    BY <1>1, <1>3, Seen, SeenNext DEF AsMeant
  <1>5. Register!Settle
    BY <1>1, <1>2, <1>4 DEF Register!Settle, Prior
  <1> QED
    BY <1>5 DEF Register!Next

\* A command decides on an edit.
LEMMA MutateRefines ==
  ASSUME RInv, RInv', NEW p \in Procs, NEW e \in Edits, Mutate(p, e)
  PROVE  [Register!Next]_Register!vars
  <1>1. /\ TypeOK /\ UNCHANGED <<file, disk>>
        /\ outcome[e] = "unused" /\ outcome' = [outcome EXCEPT ![e] = "pending"]
    BY DEF RInv, EInv, IInv, Mutate
  <1>2. Onward(cmd[p], cmd'[p]) /\ \A q \in Procs \ {p} : cmd'[q] = cmd[q]
    BY <1>1, OnwardOutside, OthersStay
  <1>3. cmd[p].pc = "loaded"
    BY DEF Mutate, At
  <1>4. cmd'[p].pc \notin Undoing
    BY <1>2, <1>3 DEF Onward, Placing, Undoing
  <1>5. Prior' = Prior
    <2>1. ASSUME NEW q \in Procs, cmd[q].pc \in Undoing
          PROVE  Prior' = Prior
      <3>1. cmd'[q] = cmd[q]
        BY <1>2, <1>3, <2>1 DEF Undoing, Placing
      <3> QED
        BY <2>1, <3>1, Seen, SeenNext DEF AsMeant
    <2>2. CASE \A q \in Procs : cmd[q].pc \notin Undoing
      BY <1>1, <1>2, <1>4, <2>2, Seen, SeenNext DEF AsMeant
    <2> QED
      BY <2>1, <2>2
  <1>6. /\ Meaning(file)' = Meaning(file)
        /\ { Meaning(m) : m \in disk }' = { Meaning(m) : m \in disk }
    BY <1>1, Seen, SeenNext DEF AsMeant
  <1>7. Register!Begin(e)
    BY <1>1, <1>5, <1>6 DEF Register!Begin, Prior
  <1> QED
    BY <1>7 DEF Register!Next

\* What the report of a command promises is so.
LEMMA ReportRefines ==
  ASSUME RInv, RInv', NEW p \in Procs, LockTimeout(p) \/ Unlock(p)
  PROVE  [Register!Next]_Register!vars
  <1> DEFINE j == cmd[p]
             v == IF j.pc = "lock" THEN "failed" ELSE j.verdict
  <1>1. /\ TypeOK /\ UNCHANGED <<file, disk>> /\ Reported(j, v) /\ EditPhase(j)
        /\ j.pc \in {"lock", "unlock"} /\ j \in Commands /\ Phase(j)
    BY DEF RInv, EInv, IInv, TypeOK, LockTimeout, Unlock, At
  <1>2. Onward(cmd[p], cmd'[p]) /\ \A q \in Procs \ {p} : cmd'[q] = cmd[q]
    BY <1>1, OnwardOutside, OthersStay DEF Continue
  <1>3. Prior' \in {Prior, Plain(file')}
    BY <1>1, <1>2, PriorKept
  <1>4. CASE j.edit = NoEdit
    <2>1. UNCHANGED outcome
      BY <1>1, <1>4 DEF Reported
    <2> QED
      BY <1>1, <1>3, <2>1, Unnoticed
  <1>5. CASE j.edit # NoEdit
    <2>1. j.edit \in Edits /\ outcome[j.edit] = "pending"
      BY <1>5, EditTypes DEF RInv, EInv, IInv, Owned
    <2>2. v \in {"ok", "failed", "undurable", "retained"}
      BY <1>1 DEF Commands, Verdicts, Phase
    <2>3. /\ v = "ok" => \A m \in disk : j.edit \in EditsOf(m)
          /\ v = "failed" => \A m \in disk : j.edit \notin EditsOf(m)
      BY <1>1, <1>5 DEF EditPhase, Unseen
    <2>4. /\ v = "ok" => \A m \in { Plain(m) : m \in disk } : j.edit \in Register!EditsOf(m)
          /\ v = "failed" => \A m \in { Plain(m) : m \in disk } : j.edit \notin Register!EditsOf(m)
      BY <1>1, <2>3, SameEdits DEF TypeOK
    <2>5. /\ Meaning(file)' = Meaning(file)
          /\ { Meaning(m) : m \in disk }' = { Meaning(m) : m \in disk }
          /\ { Meaning(m) : m \in disk } = { Plain(m) : m \in disk }
          /\ Prior' \in {Prior, Meaning(file)}
      BY <1>1, <1>3, Seen, SeenNext DEF AsMeant
    <2>6. outcome' = [outcome EXCEPT ![j.edit] = v]
      BY <1>1, <1>5 DEF Reported
    <2> HIDE DEF v
    <2>7. Register!Report(j.edit, v)
      BY <2>1, <2>4, <2>5, <2>6 DEF Register!Report, Prior
    <2> QED
      BY <2>1, <2>2, <2>7 DEF Register!Next
  <1> QED
    BY <1>4, <1>5

\* A power loss leaves one of the documents it may leave.
LEMMA PowerLossRefines ==
  ASSUME RInv, RInv', PowerLoss
  PROVE  [Register!Next]_Register!vars
  <1>1. file' \in disk /\ disk' = {file'} /\ UNCHANGED outcome
    BY DEF PowerLoss
  <1>2. \A p \in Procs : cmd'[p].pc = "idle"
    BY DEF PowerLoss, NoCommand
  <1>3. Prior' = Plain(file')
    BY <1>2, SeenNext DEF AsMeant, Undoing, Placing
  <1>4. { Plain(m) : m \in disk' } = {Plain(file')} /\ Plain(file') \in { Plain(m) : m \in disk }
    BY <1>1
  <1>5. /\ Meaning(file)' \in { Meaning(m) : m \in disk }
        /\ { Meaning(m) : m \in disk }' = {Meaning(file)'}
        /\ Prior' = Meaning(file)'
    BY <1>3, <1>4, Seen, SeenNext DEF AsMeant
  <1>6. Register!PowerLoss
    BY <1>1, <1>5 DEF Register!PowerLoss, Prior
  <1> QED
    BY <1>6 DEF Register!Next

\* Every other step is one that no reader notices.
LEMMA OthersRefine ==
  ASSUME RInv, RInv', NEW p \in Procs,
         \/ Load(p) \/ FinishLoad(p) \/ Quit(p) \/ Refresh(p) \/ Crash(p) \/ Acquire(p)
         \/ Validate(p) \/ StageDone(p) \/ Preflight(p) \/ WriteFails(p) \/ SyncFails(p)
         \/ CommitDone(p) \/ RestoreKeysDone(p) \/ RestoreFails(p) \/ RollbackDone(p)
         \/ \E c \in Creds : \/ Resolve(p, c) \/ ResolveFails(p, c) \/ Stage(p, c)
                             \/ StagePlaintext(p, c) \/ StageFails(p, c)
         \/ \E a \in Accounts : \/ DeleteOld(p, a) \/ DeleteFails(p, a) \/ RestoreKey(p, a)
                                \/ RestoreKeyFails(p, a) \/ Rollback(p, a)
                                \/ RollbackFails(p, a)
  PROVE  [Register!Next]_Register!vars
  <1>1. TypeOK
    BY DEF RInv, EInv, IInv
  <1>2. Onward(cmd[p], cmd'[p])
    BY <1>1, OnwardOutside, OnwardInside
  <1>3. \A q \in Procs \ {p} : cmd'[q] = cmd[q]
    BY <1>1, OthersStay DEF Continue, Disturb
  <1>4. UNCHANGED <<file, disk, outcome>>
    <2>1. CASE \/ Load(p) \/ FinishLoad(p) \/ Quit(p) \/ Refresh(p) \/ Crash(p) \/ Acquire(p)
               \/ StageDone(p) \/ Preflight(p) \/ WriteFails(p)
      BY <2>1 DEF Load, FinishLoad, Quit, Refresh, Crash, Acquire, StageDone, Preflight, WriteFails
    <2>2. CASE \/ Validate(p) \/ SyncFails(p) \/ CommitDone(p) \/ RestoreKeysDone(p)
               \/ RestoreFails(p) \/ RollbackDone(p)
      BY <2>2 DEF Validate, SyncFails, CommitDone, RestoreKeysDone, RestoreFails, RollbackDone
    <2>3. ASSUME NEW c \in Creds, \/ Resolve(p, c) \/ ResolveFails(p, c) \/ Stage(p, c)
                                  \/ StagePlaintext(p, c) \/ StageFails(p, c)
          PROVE  UNCHANGED <<file, disk, outcome>>
      BY <2>3 DEF Resolve, ResolveFails, Stage, StagePlaintext, StageFails
    <2>4. ASSUME NEW a \in Accounts, \/ DeleteOld(p, a) \/ DeleteFails(p, a) \/ RestoreKey(p, a)
                                     \/ RestoreKeyFails(p, a) \/ Rollback(p, a)
                                     \/ RollbackFails(p, a)
          PROVE  UNCHANGED <<file, disk, outcome>>
      BY <2>4 DEF DeleteOld, DeleteFails, RestoreKey, RestoreKeyFails, Rollback, RollbackFails
    <2> QED
      BY <2>1, <2>2, <2>3, <2>4
  <1>5. Plain(file') = Plain(file)
    BY <1>4
  <1>6. Prior' \in {Prior, Plain(file')}
    BY <1>2, <1>3, <1>5, PriorKept
  <1> QED
    BY <1>4, <1>5, <1>6, Unnoticed

\* The first document is a value of the register, alone on the disk.
LEMMA InitRefines == Init => RInv /\ Register!Init
  <1> SUFFICES ASSUME Init
               PROVE  RInv /\ Register!Init
    OBVIOUS
  <1>1. \A p \in Procs : cmd[p].pc = "idle" /\ cmd[p].touched = {}
    BY DEF Init, NoCommand
  <1>2. RInv
    BY <1>1, InitEdits DEF RInv, Wanted, InPlace
  <1>3. /\ disk = {file} /\ file \in Contents \cup {NoFile}
        /\ outcome = [e \in Edits |-> IF e \in EditsOf(file) THEN "ok" ELSE "unused"]
    BY <1>2 DEF Init, RInv, EInv, IInv, TypeOK
  <1>4. Prior = Plain(file)
    BY <1>1, <1>2, Seen DEF AsMeant, Undoing, Placing
  <1>5. { Plain(m) : m \in disk } = {Plain(file)}
    BY <1>3
  <1>6. /\ Meaning(file) = Plain(file) /\ Prior = Meaning(file)
        /\ { Meaning(m) : m \in disk } = {Meaning(file)}
    BY <1>2, <1>4, <1>5, Seen DEF AsMeant
  <1>7. Plain(file) \in Register!Meaning \cup {NoFile}
    BY <1>3 DEF Plain, Contents, Register!Meaning
  <1>8. Register!EditsOf(Plain(file)) = EditsOf(file)
    BY <1>3, SameEdits
  <1>9. outcome \in [Edits -> {"unused", "ok"}]
    BY <1>3
  <1>10. \A e \in Edits : outcome[e] = "ok" <=> e \in EditsOf(file)
    BY <1>3
  <1> QED
    BY <1>2, <1>6, <1>7, <1>8, <1>9, <1>10 DEF Register!Init, Prior

LEMMA StepRefines == RInv /\ RInv' /\ [Next]_vars => [Register!Next]_Register!vars
  <1> SUFFICES ASSUME RInv, RInv', [Next]_vars
               PROVE  [Register!Next]_Register!vars
    OBVIOUS
  <1>1. CASE UNCHANGED vars
    <2>1. /\ Prior' = Prior /\ Meaning(file)' = Meaning(file)
          /\ { Meaning(m) : m \in disk }' = { Meaning(m) : m \in disk }
      BY <1>1 DEF vars, Prior, Reversible, Meaning, Secret
    <2> QED
      BY <1>1, <2>1 DEF vars, Register!vars, Prior
  <1>2. CASE PowerLoss
    BY <1>2, PowerLossRefines
  <1>3. ASSUME NEW p \in Procs, Load(p) \/ (\E e \in Edits : Mutate(p, e))
        PROVE  [Register!Next]_Register!vars
    BY <1>3, OthersRefine, MutateRefines
  <1>4. ASSUME NEW p \in Procs, Continue(p)
        PROVE  [Register!Next]_Register!vars
    BY <1>4, OthersRefine, InstallRefines, RestoreFileRefines, SyncRefines, ReportRefines
    DEF Continue
  <1>5. ASSUME NEW p \in Procs, Disturb(p)
        PROVE  [Register!Next]_Register!vars
    BY <1>5, OthersRefine DEF Disturb
  <1> QED
    BY <1>1, <1>2, <1>3, <1>4, <1>5 DEF Next

\* To a reader the configuration document is a register: every command makes
\* its edit at once or not at all, keeps every other edit and credential, takes
\* its edit back exactly if it takes it back, and reports what became of it
\* (writeConfig, from the lock to the report).
THEOREM RefinementHolds == Spec => RefinesRegister
  BY InitRefines, RefineInv, StepRefines, PTL DEF Spec, RefinesRegister, Register!Spec

===============================================================================
