-------------------------- MODULE ResourcePushProofs --------------------------
(***************************************************************************)
(* Safety properties of ResourcePush, for any batch of manifests, any      *)
(* number of pushes, places, replays and failures, and whatever other      *)
(* clients do: the order of folders, the account of the summary, stale     *)
(* updates, dry runs. And, where nobody else interferes, that no object    *)
(* with a natural key is created twice, and that what was pushed is there. *)
(* And that a push only goes on, with verdicts that are final.             *)
(***************************************************************************)
EXTENDS ResourcePush, FiniteSetTheorems, TLAPS

-------------------------------------------------------------------------------
(* The invariant *)

Lists == [Names -> Objects \cup {None}]
Nodes == DOMAIN push.levels

Types ==
  /\ TypeOK
  /\ setting \in Settings
  /\ push \in [pc : {"idle", "folders", "rest", "ended"}, level : Nat, levels : {push.levels},
               stop : BOOLEAN, dry : BOOLEAN, cancelled : BOOLEAN, error : BOOLEAN]
  /\ push.levels \in [Nodes -> Int]
  /\ cache \in [Kinds -> Lists \cup {None}]
  /\ clock \in Nat

\* No version is newer than the last one.
Known(list) == \A n \in Names : list[n] # None => list[n].rv <= clock

Versions ==
  /\ Known(store)
  /\ \A k \in Kinds : cache[k] # None => Known(cache[k])
  /\ \A r \in Batch : /\ task[r].rv <= clock
                      /\ At(r, "fetched") => task[r].list \in Lists /\ Known(task[r].list)

\* Where a request goes.
Addressed ==
  \A r \in Batch :
    /\ At(r, "get") => batch[r].name \in Names
    /\ At(r, "fetched") => r \notin Folders
    /\ At(r, "update") => /\ task[r].to \in Names
                          /\ r \in Folders => task[r].to = batch[r].name

\* The levels of the folders that are being pushed.
Ordered ==
  push.pc \in {"folders", "rest"} =>
    /\ Nodes \in NodeSets
    /\ \A f \in Nodes : push.levels[f] >= 0
    /\ \A f \in Nodes : \A g \in Parents(Nodes, f) : push.levels[f] = push.levels[g] + 1

Past == { f \in Nodes : push.pc = "rest" \/ (push.pc = "folders" /\ push.levels[f] < push.level) }

\* Only the manifests of the phase are under way; the folders of the earlier
\* phases are done, and none of them has failed if that stops the push.
Turns ==
  /\ \A r \in Batch : UnderWay(r) => r \in Phase
  /\ \A f \in Past : At(f, "done") /\ (push.stop => outcome[f] # "failed")
  /\ push.pc \in {"folders", "rest"} /\ push.stop /\ ~push.error =>
       \A r \in Batch : outcome[r] # "failed"

\* What is done has its outcome, what is not has none.
Outcomes ==
  /\ \A r \in Batch :
       IF At(r, "done") THEN \/ outcome[r] \in {"ok", "failed", "skipped"}
                             \/ batch[r].gate = "managed" /\ outcome[r] = "left"
       ELSE outcome[r] = "none"
  /\ push.pc = "ended" /\ ~push.error =>
       /\ Nodes \in NodeSets
       /\ \A r \in Batch : At(r, "done") \/ r \in Folders \ Nodes

\* Folders that were pushed are there.
Stored ==
  \A f \in Folders : outcome[f] = "ok" /\ ~push.dry /\ foreign = 0 =>
    batch[f].name \in Names /\ OnServer(f)

IInv == Types /\ Versions /\ Addressed /\ Ordered /\ Turns /\ Outcomes /\ Stored

\* What the settings are.
LEMMA Given ==
  ASSUME setting \in Settings
  PROVE  /\ Batch \subseteq Manifests /\ IsFiniteSet(Batch)
         /\ \A r \in Batch : batch[r] \in Manifest /\ Kind(r) \in Kinds
         /\ Folders \subseteq Batch
         /\ setting.store \in Lists /\ setting.assignable \subseteq Names /\ setting.dry \in BOOLEAN
         /\ \A n \in Names : setting.store[n] # None => setting.store[n].rv <= 1
         /\ setting.pushes \in Nat /\ setting.faults \in Nat /\ setting.foreign \in Nat
  <1>1. Batch \subseteq Manifests /\ \A r \in Batch : batch[r] \in Manifest
    BY PushConstantsOK DEF Batch, batch
  <1>2. IsFiniteSet(Batch)
    BY <1>1, PushConstantsOK, FS_Subset
  <1> QED
    BY <1>1, <1>2, PushConstantsOK DEF Folders, Kind, Lists, Manifest

LEMMA WaitingOK ==
  /\ Waiting \in Tasks /\ Waiting.pc = "waiting" /\ Waiting.rv = 0
  /\ Done \in Tasks /\ Done.pc = "done" /\ Done.rv = 0
  <1>1. 0 \in 0..Steps - 1
    BY PushConstantsOK
  <1>2. Waiting \in Tasks /\ Waiting.pc = "waiting" /\ Waiting.rv = 0
    BY <1>1 DEF Waiting, Tasks
  <1> QED
    BY <1>2 DEF Done, Tasks

LEMMA InitOK == Init => IInv
  <1> SUFFICES ASSUME Init PROVE IInv
    OBVIOUS
  <1> USE DEF Init
  <1>1. /\ setting \in Settings /\ push = NoPush /\ store = setting.store /\ clock = 1
        /\ pushes = 0 /\ faults = 0 /\ foreign = 0
        /\ task = [r \in Batch |-> Waiting] /\ outcome = [r \in Batch |-> "none"]
        /\ cache = [k \in Kinds |-> None]
    BY DEF NewCache
  <1>2. Nodes = {}
    BY <1>1 DEF NoPush, Nodes
  <1>3. /\ push.pc = "idle"
        /\ push \in [pc : {"idle", "folders", "rest", "ended"}, level : Nat, levels : {push.levels},
                     stop : BOOLEAN, dry : BOOLEAN, cancelled : BOOLEAN, error : BOOLEAN]
        /\ push.levels \in [Nodes -> Int]
    BY <1>1, <1>2 DEF NoPush, Nodes
  <1>4. Types
    BY <1>1, <1>2, <1>3, Given, WaitingOK DEF Types, TypeOK, Lists, Nodes
  <1>5. Versions
    BY <1>1, Given, WaitingOK DEF Versions, Known, At
  <1>6. Addressed /\ Outcomes
    BY <1>1, <1>3, WaitingOK DEF Addressed, Outcomes, At
  <1>7. Ordered /\ Turns
    BY <1>1, <1>2, <1>3, WaitingOK DEF Ordered, Turns, UnderWay, At, Past
  <1>8. Stored
    BY <1>1 DEF Stored, Folders
  <1> QED
    BY <1>4, <1>5, <1>6, <1>7, <1>8 DEF IInv

-------------------------------------------------------------------------------
(* A step of one manifest *)

\* The parts of a push that a step of a manifest leaves alone.
LEMMA PushKept ==
  ASSUME IInv, UNCHANGED setting,
         push' = push \/ push' = [push EXCEPT !.cancelled = TRUE, !.error = TRUE]
  PROVE  /\ push'.pc = push.pc /\ push'.level = push.level /\ push'.levels = push.levels
         /\ push'.stop = push.stop /\ push'.dry = push.dry
         /\ push.error => push'.error
         /\ push' \in [pc : {"idle", "folders", "rest", "ended"}, level : Nat,
                       levels : {push'.levels}, stop : BOOLEAN, dry : BOOLEAN,
                       cancelled : BOOLEAN, error : BOOLEAN]
         /\ Nodes' = Nodes /\ Phase' = Phase /\ Past' = Past
         /\ Batch' = Batch /\ batch' = batch /\ Folders' = Folders
  <1>1. push \in [pc : {"idle", "folders", "rest", "ended"}, level : Nat, levels : {push.levels},
                  stop : BOOLEAN, dry : BOOLEAN, cancelled : BOOLEAN, error : BOOLEAN]
    BY DEF IInv, Types
  <1>2. /\ push'.pc = push.pc /\ push'.level = push.level /\ push'.levels = push.levels
        /\ push'.stop = push.stop /\ push'.dry = push.dry
        /\ push.error => push'.error
    BY <1>1
  <1>3. push' \in [pc : {"idle", "folders", "rest", "ended"}, level : Nat,
                   levels : {push'.levels}, stop : BOOLEAN, dry : BOOLEAN,
                   cancelled : BOOLEAN, error : BOOLEAN]
    BY <1>1
  <1>4. Batch' = Batch /\ batch' = batch /\ Folders' = Folders
    BY DEF Batch, batch, Folders
  <1>5. Nodes' = Nodes
    BY <1>2 DEF Nodes
  <1> QED
    BY <1>2, <1>3, <1>4, <1>5 DEF Phase, Past

LEMMA TaskStep ==
  ASSUME IInv, NEW r \in Batch, r \in Phase, ~At(r, "done"),
         UNCHANGED <<setting, pushes, foreign>>, faults' \in 0..setting.faults,
         push' = push \/ push' = [push EXCEPT !.cancelled = TRUE, !.error = TRUE],
         NEW t \in Tasks, task' = [task EXCEPT ![r] = t], t.pc # "waiting",
         NEW o \in {"none", "ok", "failed", "skipped", "left"},
         outcome' = [outcome EXCEPT ![r] = o],
         push.stop /\ o = "failed" => push'.error,
         cache' \in [Kinds -> Lists \cup {None}],
         \A k \in Kinds : cache'[k] # None => Known(cache'[k]),
         clock' \in Nat, clock' >= clock,
         store' \in Lists, \A n \in Names : store[n] # None => store'[n] # None,
         \A n \in Names : store'[n] # None => store'[n].rv <= clock',
         t.rv <= clock,
         t.pc = "fetched" => r \notin Folders /\ t.list \in Lists /\ Known(t.list),
         t.pc = "get" => batch[r].name \in Names,
         t.pc = "update" => t.to \in Names /\ (r \in Folders => t.to = batch[r].name),
         IF t.pc = "done" THEN \/ o \in {"ok", "failed", "skipped"}
                               \/ batch[r].gate = "managed" /\ o = "left"
         ELSE o = outcome[r],
         r \in Folders /\ o = "ok" /\ ~push.dry /\ foreign = 0 =>
           batch[r].name \in Names /\ store'[batch[r].name] # None
  PROVE  IInv'
  <1>1. /\ push'.pc = push.pc /\ push'.level = push.level /\ push'.levels = push.levels
        /\ push'.stop = push.stop /\ push'.dry = push.dry
        /\ push.error => push'.error
        /\ push' \in [pc : {"idle", "folders", "rest", "ended"}, level : Nat,
                      levels : {push'.levels}, stop : BOOLEAN, dry : BOOLEAN,
                      cancelled : BOOLEAN, error : BOOLEAN]
        /\ Nodes' = Nodes /\ Phase' = Phase /\ Past' = Past
        /\ Batch' = Batch /\ batch' = batch /\ Folders' = Folders
    BY PushKept
  <1>2. /\ TypeOK /\ setting \in Settings /\ clock \in Nat
        /\ task \in [Batch -> Tasks]
        /\ outcome \in [Batch -> {"none", "ok", "failed", "skipped", "left"}]
    BY DEF IInv, Types, TypeOK
  <1>3. /\ task'[r] = t /\ outcome'[r] = o
        /\ \A q \in Batch : q # r => task'[q] = task[q] /\ outcome'[q] = outcome[q]
    BY <1>2
  <1>4. /\ task' \in [Batch -> Tasks]
        /\ outcome' \in [Batch -> {"none", "ok", "failed", "skipped", "left"}]
    BY <1>2
  <1>5. Types'
    <2>1. push'.levels \in [Nodes' -> Int]
      BY <1>1 DEF IInv, Types
    <2> QED
      BY <1>1, <1>2, <1>4, <2>1 DEF Types, TypeOK, Lists, Nodes
  <1>6. Versions'
    <2>2. Known(store)'
      BY DEF Known
    <2>3. \A k \in Kinds : cache'[k] # None => \A n \in Names : cache'[k][n] # None =>
            cache'[k][n].rv <= clock'
      <3> SUFFICES ASSUME NEW k \in Kinds, cache'[k] # None, NEW n \in Names, cache'[k][n] # None
                   PROVE  cache'[k][n].rv <= clock'
        OBVIOUS
      <3>1. cache'[k][n].rv <= clock /\ cache'[k][n].rv \in Nat
        BY DEF Known, Lists, Objects
      <3> QED
        BY <1>2, <3>1
    <2>4. ASSUME NEW q \in Batch
          PROVE  /\ task'[q].rv <= clock'
                 /\ task'[q].pc = "fetched" => task'[q].list \in Lists
                                               /\ \A n \in Names : task'[q].list[n] # None =>
                                                    task'[q].list[n].rv <= clock'
      <3>1. task'[q] \in Tasks /\ task'[q].rv \in Nat
        BY <1>4 DEF Tasks
      <3>2. /\ task'[q].rv <= clock
            /\ task'[q].pc = "fetched" => task'[q].list \in Lists
                                          /\ \A n \in Names : task'[q].list[n] # None =>
                                               task'[q].list[n].rv <= clock
        BY <1>3 DEF IInv, Versions, Known, At
      <3>3. task'[q].rv <= clock'
        BY <1>2, <3>1, <3>2
      <3>4. ASSUME task'[q].pc = "fetched", NEW n \in Names, task'[q].list[n] # None
            PROVE  task'[q].list[n].rv <= clock'
        <4>1. task'[q].list[n].rv \in Nat /\ task'[q].list[n].rv <= clock
          BY <3>2, <3>4 DEF Lists, Objects
        <4> QED
          BY <1>2, <4>1
      <3> QED
        BY <3>2, <3>3, <3>4
    <2> QED
      BY <1>1, <2>2, <2>3, <2>4 DEF Versions, Known, At
  <1>7. Addressed'
    BY <1>1, <1>3 DEF IInv, Addressed, At
  <1>8. Ordered'
    BY <1>1 DEF IInv, Ordered, NodeSets, Parents
  <1>9. r \notin Past
    BY DEF Past, Phase, Nodes, IInv, Types, Turns, TypeOK
  <1>10. Turns'
    <2>1. \A q \in Batch : UnderWay(q)' => q \in Phase
      BY <1>3 DEF IInv, Turns, UnderWay, At
    <2>2. \A f \in Past : At(f, "done")' /\ (push.stop => outcome'[f] # "failed")
      <3>1. Past \subseteq Batch
        BY DEF Past, Nodes, IInv, Types, TypeOK, Folders
      <3> QED
        BY <1>3, <1>9, <3>1 DEF IInv, Turns, At
    <2>3. push.pc \in {"folders", "rest"} /\ push.stop /\ ~push'.error =>
            \A q \in Batch : outcome'[q] # "failed"
      BY <1>1, <1>3 DEF IInv, Turns
    <2> QED
      BY <1>1, <2>1, <2>2, <2>3 DEF Turns
  <1>11. Outcomes'
    <2>1. push.pc # "ended"
      BY DEF Phase
    <2>2. \A q \in Batch :
            IF At(q, "done")' THEN \/ outcome'[q] \in {"ok", "failed", "skipped"}
                                   \/ batch[q].gate = "managed" /\ outcome'[q] = "left"
            ELSE outcome'[q] = "none"
      BY <1>3 DEF IInv, Outcomes, At
    <2> QED
      BY <1>1, <2>1, <2>2 DEF Outcomes
  <1>12. Stored'
    <2> SUFFICES ASSUME NEW f \in Folders, outcome'[f] = "ok", ~push.dry, foreign = 0
                 PROVE  batch[f].name \in Names /\ store'[batch[f].name] # None
      BY <1>1 DEF Stored, OnServer
    <2>1. f \in Batch
      BY DEF Folders
    <2>2. CASE f = r
      BY <1>3, <2>2
    <2>3. CASE f # r
      BY <1>3, <2>1, <2>3 DEF IInv, Stored, OnServer
    <2> QED
      BY <2>2, <2>3
  <1> QED
    BY <1>5, <1>6, <1>7, <1>8, <1>10, <1>11, <1>12 DEF IInv

\* What a request may do to the server.
Grows ==
  /\ clock' \in Nat /\ clock' >= clock /\ store' \in Lists
  /\ \A n \in Names : store[n] # None => store'[n] # None
  /\ \A n \in Names : store'[n] # None => store'[n].rv <= clock'

LEMMA Untouched == ASSUME IInv, UNCHANGED <<store, clock>> PROVE Grows
  BY DEF IInv, Types, TypeOK, Versions, Known, Lists, Grows

\* A manifest whose turn it is.
LEMMA InTurn ==
  ASSUME IInv, NEW r \in Batch, UnderWay(r)
  PROVE  r \in Phase /\ ~At(r, "done") /\ outcome[r] = "none"
  BY DEF IInv, Turns, Outcomes, UnderWay

LEMMA Failing ==
  ASSUME IInv, NEW r \in Batch, r \in Phase, ~At(r, "done"), Fails(r),
         UNCHANGED <<setting, pushes, foreign, cache>>, faults' \in 0..setting.faults, Grows
  PROVE  IInv'
  <1>1. /\ task' = [task EXCEPT ![r] = Done] /\ outcome' = [outcome EXCEPT ![r] = "failed"]
        /\ push' = push \/ push' = [push EXCEPT !.cancelled = TRUE, !.error = TRUE]
    BY DEF Fails, Ends, Goes
  <1>2. push.stop => push'.error
    <2>1. push \in [pc : {"idle", "folders", "rest", "ended"}, level : Nat, levels : {push.levels},
                    stop : BOOLEAN, dry : BOOLEAN, cancelled : BOOLEAN, error : BOOLEAN]
      BY DEF IInv, Types
    <2> QED
      BY <2>1 DEF Fails
  <1>3. cache \in [Kinds -> Lists \cup {None}] /\ \A k \in Kinds : cache[k] # None => Known(cache[k])
    BY DEF IInv, Types, Versions
  <1>4. Done.rv <= clock
    BY WaitingOK DEF IInv, Types
  <1> QED
    BY <1>1, <1>2, <1>3, <1>4, WaitingOK, TaskStep DEF Grows

LEMMA Finishing ==
  ASSUME IInv, NEW r \in Batch, r \in Phase, ~At(r, "done"),
         NEW how \in {"ok", "skipped", "left"}, Finishes(r, how),
         how = "left" => batch[r].gate = "managed",
         UNCHANGED <<setting, pushes, foreign, cache>>, faults' \in 0..setting.faults, Grows,
         r \in Folders /\ how = "ok" /\ ~push.dry =>
           batch[r].name \in Names /\ store'[batch[r].name] # None
  PROVE  IInv'
  <1>1. /\ task' = [task EXCEPT ![r] = Done] /\ outcome' = [outcome EXCEPT ![r] = how]
        /\ push' = push
    BY DEF Finishes, Ends, Goes
  <1>3. cache \in [Kinds -> Lists \cup {None}] /\ \A k \in Kinds : cache[k] # None => Known(cache[k])
    BY DEF IInv, Types, Versions
  <1>4. Done.rv <= clock
    BY WaitingOK DEF IInv, Types
  <1> QED
    BY <1>1, <1>3, <1>4, WaitingOK, TaskStep DEF Grows

\* A step that goes on to another request.
LEMMA GoingOn ==
  ASSUME IInv, NEW r \in Batch, r \in Phase, ~At(r, "done"),
         NEW t \in Tasks, Goes(r, t), t.pc \notin {"waiting", "done"},
         UNCHANGED <<setting, push, outcome, pushes, foreign>>, faults' \in 0..setting.faults,
         cache' \in [Kinds -> Lists \cup {None}],
         \A k \in Kinds : cache'[k] # None => Known(cache'[k]),
         Grows,
         t.rv <= clock,
         t.pc = "fetched" => r \notin Folders /\ t.list \in Lists /\ Known(t.list),
         t.pc = "get" => batch[r].name \in Names,
         t.pc = "update" => t.to \in Names /\ (r \in Folders => t.to = batch[r].name)
  PROVE  IInv'
  <1>1. outcome[r] = "none"
    BY DEF IInv, Outcomes
  <1>2. outcome' = [outcome EXCEPT ![r] = outcome[r]]
    BY DEF IInv, Types, TypeOK
  <1> QED
    BY <1>1, <1>2, TaskStep DEF Goes, Grows

\* Facts that each of the steps below needs.
LEMMA Basics ==
  ASSUME IInv
  PROVE  /\ setting \in Settings /\ clock \in Nat /\ store \in Lists
         /\ faults \in 0..setting.faults /\ setting.faults \in Nat
         /\ task \in [Batch -> Tasks]
         /\ cache \in [Kinds -> Lists \cup {None}]
         /\ \A k \in Kinds : cache[k] # None => Known(cache[k])
         /\ Known(store)
         /\ \A r \in Batch : batch[r] \in Manifest /\ Kind(r) \in Kinds
         /\ Folders \subseteq Batch
  BY Given DEF IInv, Types, TypeOK, Lists, Versions

LEMMA LaunchStep ==
  ASSUME IInv, NEW r \in Batch, Launch(r)
  PROVE  IInv'
  <1>1. /\ r \in Phase /\ At(r, "waiting") /\ ~At(r, "done")
        /\ UNCHANGED <<setting, cache, store, clock, pushes, faults, foreign>>
    BY DEF Launch, At
  <1>2. Grows /\ faults' \in 0..setting.faults
    BY <1>1, Untouched, Basics
  <1>3. CASE batch[r].gate = "readOnly"
    <2>1. Finishes(r, "skipped")
      BY <1>3 DEF Launch
    <2> QED
      BY <1>1, <1>2, <2>1, Finishing
  <1>4. CASE batch[r].gate = "managed"
    <2>1. Finishes(r, "left")
      BY <1>4 DEF Launch
    <2> QED
      BY <1>1, <1>2, <1>4, <2>1, Finishing
  <1>5. CASE batch[r].gate = "ok"
    <2>1. PICK step \in {"match", "get"} :
            /\ Goes(r, [Waiting EXCEPT !.pc = step]) /\ UNCHANGED <<push, outcome>>
            /\ step = "get" => batch[r].name # None
      BY <1>5 DEF Launch
    <2> DEFINE t == [Waiting EXCEPT !.pc = step]
    <2>2. t \in Tasks /\ t.pc = step /\ t.rv = 0
      BY WaitingOK DEF Tasks
    <2> HIDE DEF t
    <2>3. Goes(r, t)
      BY <2>1 DEF t
    <2>4. t.rv <= clock
      BY <2>2, Basics
    <2>5. step = "get" => batch[r].name \in Names
      BY <2>1, Basics DEF Manifest
    <2> QED
      BY <1>1, <1>2, <2>1, <2>2, <2>3, <2>4, <2>5, Basics, GoingOn
  <1>6. CASE batch[r].gate \notin {"readOnly", "managed", "ok"}
    <2>1. Fails(r)
      BY <1>6 DEF Launch
    <2> QED
      BY <1>1, <1>2, <2>1, Failing
  <1> QED
    BY <1>3, <1>4, <1>5, <1>6

\* An update of what is in a list that is not newer than the server.
LEMMA UpdateOK ==
  ASSUME IInv, NEW list \in Lists, Known(list), NEW n \in Names, list[n] # None
  PROVE  LET t == UpdateOf(n, list[n])
         IN  t \in Tasks /\ t.pc = "update" /\ t.to = n /\ t.rv <= clock
  <1>1. list[n].rv \in Nat /\ list[n].rv <= clock
    BY DEF Lists, Objects, Known
  <1> QED
    BY <1>1, WaitingOK DEF UpdateOf, Tasks

LEMMA ToCreate ==
  LET t == [Waiting EXCEPT !.pc = "create"] IN t \in Tasks /\ t.pc = "create" /\ t.rv = 0
  BY WaitingOK DEF Tasks

LEMMA GetStep ==
  ASSUME IInv, NEW r \in Batch, Get(r)
  PROVE  IInv'
  <1>1. /\ At(r, "get")
        /\ UNCHANGED <<setting, cache, pushes, store, clock, faults, foreign>>
    BY DEF Get, Server
  <1>2. r \in Phase /\ ~At(r, "done")
    BY <1>1, InTurn DEF UnderWay, At
  <1>3. Grows /\ faults' \in 0..setting.faults
    BY <1>1, Untouched, Basics
  <1>4. CASE Fails(r)
    BY <1>1, <1>2, <1>3, <1>4, Failing
  <1>5. CASE FoundByName(r) /\ Goes(r, UpdateOf(batch[r].name, store[batch[r].name]))
             /\ UNCHANGED <<push, outcome>>
    <2> DEFINE n == batch[r].name
               t == UpdateOf(n, store[n])
    <2>1. store[n] # None
      BY <1>5 DEF FoundByName
    <2>2. n \in Names
      BY <1>1 DEF IInv, Addressed
    <2>3. t \in Tasks /\ t.pc = "update" /\ t.to = n /\ t.rv <= clock
      BY <2>1, <2>2, Basics, UpdateOK
    <2> HIDE DEF t
    <2>4. Goes(r, t) /\ UNCHANGED <<push, outcome>>
      BY <1>5 DEF t
    <2> QED
      BY <1>1, <1>2, <1>3, <2>2, <2>3, <2>4, Basics, GoingOn
  <1>6. CASE Goes(r, [Waiting EXCEPT !.pc = "match"]) /\ UNCHANGED <<push, outcome>>
    <2> DEFINE t == [Waiting EXCEPT !.pc = "match"]
    <2>1. t \in Tasks /\ t.pc = "match" /\ t.rv = 0
      BY WaitingOK DEF Tasks
    <2> HIDE DEF t
    <2>2. Goes(r, t)
      BY <1>6 DEF t
    <2> QED
      BY <1>1, <1>2, <1>3, <1>6, <2>1, <2>2, Basics, GoingOn
  <1> QED
    BY <1>4, <1>5, <1>6 DEF Get

\* What is found in a list, or that nothing is.
LEMMA MatchesOK ==
  ASSUME IInv, NEW r \in Batch, r \in Phase, ~At(r, "done"), r \notin Folders,
         NEW list \in Lists, Known(list), Matches(r, list),
         UNCHANGED <<setting, pushes, foreign>>, faults' \in 0..setting.faults, Grows,
         UNCHANGED cache \/ cache' = [cache EXCEPT ![Kind(r)] = list]
  PROVE  IInv'
  <1>1. cache' \in [Kinds -> Lists \cup {None}] /\ \A k \in Kinds : cache'[k] # None => Known(cache'[k])
    BY Basics
  <1>2. CASE Fails(r)
    <2> DEFINE t == Done
    <2>1. /\ task' = [task EXCEPT ![r] = t] /\ outcome' = [outcome EXCEPT ![r] = "failed"]
          /\ push' = push \/ push' = [push EXCEPT !.cancelled = TRUE, !.error = TRUE]
      BY <1>2 DEF Fails, Ends, Goes
    <2>2. push.stop => push'.error
      <3>1. push \in [pc : {"idle", "folders", "rest", "ended"}, level : Nat,
                      levels : {push.levels}, stop : BOOLEAN, dry : BOOLEAN,
                      cancelled : BOOLEAN, error : BOOLEAN]
        BY DEF IInv, Types
      <3> QED
        BY <1>2, <3>1 DEF Fails
    <2>3. Done.rv <= clock
      BY WaitingOK, Basics
    <2> QED
      BY <1>1, <2>1, <2>2, <2>3, WaitingOK, TaskStep DEF Grows
  <1>3. CASE Goes(r, [Waiting EXCEPT !.pc = "create"]) /\ UNCHANGED <<push, outcome>>
    <2> DEFINE t == [Waiting EXCEPT !.pc = "create"]
    <2>1. t \in Tasks /\ t.pc = "create" /\ t.rv = 0
      BY ToCreate
    <2> HIDE DEF t
    <2>2. Goes(r, t)
      BY <1>3 DEF t
    <2>3. t.rv <= clock
      BY <2>1, Basics
    <2> QED
      BY <1>1, <1>3, <2>1, <2>2, <2>3, GoingOn
  <1>4. CASE \E n \in Names : /\ list[n] # None
                              /\ Goes(r, UpdateOf(n, list[n])) /\ UNCHANGED <<push, outcome>>
    <2>1. PICK n \in Names : /\ list[n] # None
                             /\ Goes(r, UpdateOf(n, list[n])) /\ UNCHANGED <<push, outcome>>
      BY <1>4
    <2> DEFINE t == UpdateOf(n, list[n])
    <2>2. t \in Tasks /\ t.pc = "update" /\ t.to = n /\ t.rv <= clock
      BY <2>1, UpdateOK
    <2> HIDE DEF t
    <2>3. Goes(r, t)
      BY <2>1 DEF t
    <2> QED
      BY <1>1, <2>1, <2>2, <2>3, GoingOn
  <1> QED
    BY <1>2, <1>3, <1>4 DEF Matches

LEMMA KeyedAreNoFolders ==
  ASSUME NEW r \in Batch, HasKey(Kind(r)) PROVE r \notin Folders
  BY DEF HasKey, Adapter, Kind, Folders

LEMMA MatchStep ==
  ASSUME IInv, NEW r \in Batch, Match(r)
  PROVE  IInv'
  <1>1. /\ At(r, "match")
        /\ UNCHANGED <<setting, cache, pushes, store, clock, faults, foreign>>
    BY DEF Match, Server
  <1>2. r \in Phase /\ ~At(r, "done")
    BY <1>1, InTurn DEF UnderWay, At
  <1>3. Grows /\ faults' \in 0..setting.faults
    BY <1>1, Untouched, Basics
  <1>4. CASE Goes(r, [Waiting EXCEPT !.pc = "create"]) /\ UNCHANGED <<push, outcome>>
    <2> DEFINE t == [Waiting EXCEPT !.pc = "create"]
    <2>1. t \in Tasks /\ t.pc = "create" /\ t.rv = 0
      BY ToCreate
    <2> HIDE DEF t
    <2>2. Goes(r, t)
      BY <1>4 DEF t
    <2>3. t.rv <= clock
      BY <2>1, Basics
    <2> QED
      BY <1>1, <1>2, <1>3, <1>4, <2>1, <2>2, <2>3, Basics, GoingOn
  <1>5. CASE HasKey(Kind(r)) /\ cache[Kind(r)] # None /\ Matches(r, cache[Kind(r)])
    <2> DEFINE list == cache[Kind(r)]
    <2>1. list \in Lists /\ Known(list)
      BY <1>5, Basics
    <2>2. r \notin Folders
      BY <1>5, KeyedAreNoFolders
    <2>3. Matches(r, list)
      BY <1>5
    <2> HIDE DEF list
    <2> QED
      BY <1>1, <1>2, <1>3, <2>1, <2>2, <2>3, MatchesOK
  <1>6. CASE HasKey(Kind(r)) /\ Goes(r, [Waiting EXCEPT !.pc = "fetched", !.list = store])
             /\ UNCHANGED <<push, outcome>>
    <2> DEFINE t == [Waiting EXCEPT !.pc = "fetched", !.list = store]
    <2>1. t \in Tasks /\ t.pc = "fetched" /\ t.rv = 0 /\ t.list = store
      BY WaitingOK, Basics DEF Tasks, Lists
    <2> HIDE DEF t
    <2>2. Goes(r, t)
      BY <1>6 DEF t
    <2>3. t.rv <= clock
      BY <2>1, Basics
    <2>4. r \notin Folders
      BY <1>6, KeyedAreNoFolders
    <2> QED
      BY <1>1, <1>2, <1>3, <1>6, <2>1, <2>2, <2>3, <2>4, Basics, GoingOn
  <1> QED
    BY <1>4, <1>5, <1>6 DEF Match

LEMMA FetchedStep ==
  ASSUME IInv, NEW r \in Batch, Fetched(r)
  PROVE  IInv'
  <1>1. /\ At(r, "fetched")
        /\ UNCHANGED <<setting, pushes, store, clock, faults, foreign>>
    BY DEF Fetched, Server
  <1>2. r \in Phase /\ ~At(r, "done") /\ r \notin Folders
    BY <1>1, InTurn DEF UnderWay, At, IInv, Addressed
  <1>3. Grows /\ faults' \in 0..setting.faults
    BY <1>1, Untouched, Basics
  <1>4. task[r].list \in Lists /\ Known(task[r].list)
    BY <1>1 DEF IInv, Versions
  <1>5. Kind(r) \in Kinds
    BY Basics
  <1> DEFINE list == cache'[Kind(r)]
  <1>6. list \in Lists /\ Known(list)
    BY <1>4, <1>5, Basics DEF Fetched
  <1>7. UNCHANGED cache \/ cache' = [cache EXCEPT ![Kind(r)] = list]
    BY <1>5, Basics DEF Fetched
  <1>8. Matches(r, list)
    BY DEF Fetched
  <1> HIDE DEF list
  <1> QED
    BY <1>1, <1>2, <1>3, <1>6, <1>7, <1>8, MatchesOK

-------------------------------------------------------------------------------
(* Requests *)

\* Nothing disappears from the server, and a folder that was asked for is there.
LEMMA AppliedOK ==
  ASSUME IInv, NEW r \in Batch, Sending(r), NEW n \in Accepted(r), Applied(r, n)
  PROVE  /\ Grows
         /\ r \in Folders /\ ~push.dry => batch[r].name \in Names /\ store'[batch[r].name] # None
  <1>1. n \in Names
    <2>1. CASE At(r, "create")
      BY <2>1, Given, Basics DEF Accepted, NewNames, Manifest
    <2>2. CASE At(r, "update")
      BY <2>2 DEF IInv, Addressed, Accepted, At
    <2> QED
      BY <2>1, <2>2 DEF Sending
  <1>2. r \in Folders => n = batch[r].name
    <2> SUFFICES ASSUME r \in Folders PROVE n = batch[r].name
      OBVIOUS
    <2>1. CASE At(r, "create")
      BY <2>1, KeyedAreNoFolders DEF Accepted, NewNames
    <2>2. CASE At(r, "update")
      BY <2>2 DEF IInv, Addressed, Accepted, At
    <2> QED
      BY <2>1, <2>2 DEF Sending
  <1>3. CASE UNCHANGED <<store, clock>> /\ push.dry
    BY <1>3, Untouched
  <1> DEFINE obj == [kind |-> Kind(r), key |-> batch[r].key, rv |-> clock + 1, by |-> r]
  <1>4. CASE clock' = clock + 1 /\ store' = [store EXCEPT ![n] = obj]
    <2>1. obj \in Objects /\ obj.rv = clock + 1
      BY Basics, Given DEF Objects, Manifest
    <2> HIDE DEF obj
    <2>2. obj # None
      BY <2>1, PushConstantsOK
    <2>3. store' \in Lists
      BY <1>4, <2>1, Basics DEF Lists
    <2>4. clock' \in Nat /\ clock' >= clock
      BY <1>4, Basics
    <2>5. store'[n] # None
      BY <1>1, <1>4, <2>2, Basics DEF Lists
    <2>6. \A m \in Names : store[m] # None => store'[m] # None
      BY <1>4, <2>5, Basics DEF Lists
    <2>7. ASSUME NEW m \in Names, store'[m] # None
          PROVE  store'[m].rv <= clock'
      <3>1. CASE m = n
        BY <1>4, <2>1, <3>1, Basics DEF Lists
      <3>2. CASE m # n
        <4>1. store'[m] = store[m]
          BY <1>4, <3>2, Basics DEF Lists
        <4>2. store[m].rv \in Nat /\ store[m].rv <= clock
          BY <2>7, <4>1, Basics DEF Lists, Objects, Known
        <4> QED
          BY <1>4, <4>1, <4>2, Basics
      <3> QED
        BY <3>1, <3>2
    <2> QED
      BY <1>1, <1>2, <2>3, <2>4, <2>5, <2>6, <2>7 DEF Grows
  <1> QED
    BY <1>3, <1>4 DEF Applied

LEMMA SendingInTurn ==
  ASSUME IInv, NEW r \in Batch, Sending(r)
  PROVE  r \in Phase /\ ~At(r, "done") /\ (At(r, "update") \/ At(r, "create"))
  BY InTurn DEF Sending, UnderWay, At

LEMMA DryRunHereStep ==
  ASSUME IInv, NEW r \in Batch, DryRunHere(r)
  PROVE  IInv'
  <1>1. Sending(r) /\ push.dry /\ UNCHANGED <<setting, cache, pushes, store, clock, faults, foreign>>
    BY DEF DryRunHere, Server
  <1>2. r \in Phase /\ ~At(r, "done")
    BY <1>1, SendingInTurn
  <1>3. Grows /\ faults' \in 0..setting.faults
    BY <1>1, Untouched, Basics
  <1>4. PICK how \in {"ok", "skipped"} : Finishes(r, how)
    BY DEF DryRunHere
  <1> QED
    BY <1>1, <1>2, <1>3, <1>4, Finishing

LEMMA SendStep ==
  ASSUME IInv, NEW r \in Batch, Send(r)
  PROVE  IInv'
  <1>1. Sending(r) /\ Finishes(r, "ok") /\ UNCHANGED <<setting, cache, pushes, faults, foreign>>
    BY DEF Send, Sends
  <1>2. PICK n \in Accepted(r) : Applied(r, n)
    BY DEF Send
  <1>3. r \in Phase /\ ~At(r, "done")
    BY <1>1, SendingInTurn
  <1>4. /\ Grows
        /\ r \in Folders /\ ~push.dry => batch[r].name \in Names /\ store'[batch[r].name] # None
    BY <1>1, <1>2, AppliedOK
  <1>5. faults' \in 0..setting.faults
    BY <1>1, Basics
  <1> QED
    BY <1>1, <1>3, <1>4, <1>5, Finishing

\* The same request again.
LEMMA Again ==
  ASSUME IInv, NEW r \in Batch, Sending(r), NEW t \in Tasks, Goes(r, t),
         t.pc = task[r].pc, t.to = task[r].to, t.rv = task[r].rv,
         UNCHANGED <<setting, push, outcome, cache, pushes, foreign>>,
         faults' \in 0..setting.faults, Grows
  PROVE  IInv'
  <1>1. r \in Phase /\ ~At(r, "done") /\ (At(r, "update") \/ At(r, "create"))
    BY SendingInTurn
  <1>2. t.rv <= clock
    BY DEF IInv, Versions
  <1>3. t.pc = "update" => t.to \in Names /\ (r \in Folders => t.to = batch[r].name)
    BY DEF IInv, Addressed, At
  <1>4. t.pc \in {"update", "create"}
    BY <1>1 DEF At
  <1> QED
    BY <1>1, <1>2, <1>3, <1>4, Basics, GoingOn

LEMMA ReplayStep ==
  ASSUME IInv, NEW r \in Batch, Replay(r)
  PROVE  IInv'
  <1>1. Sending(r) /\ UNCHANGED <<setting, push, outcome, cache, pushes, store, clock, faults, foreign>>
    BY DEF Replay, Sends, Server
  <1> DEFINE t == [task[r] EXCEPT !.tries = @ + 1]
  <1>2. task[r] \in Tasks /\ task[r].tries + 1 < Steps /\ Goes(r, t)
    BY Basics DEF Replay
  <1>3. task[r].tries + 1 \in 0..Steps - 1
    BY <1>2, PushConstantsOK DEF Tasks
  <1>4. t \in Tasks /\ t.pc = task[r].pc /\ t.to = task[r].to /\ t.rv = task[r].rv
    BY <1>2, <1>3 DEF Tasks
  <1> HIDE DEF t
  <1>5. Grows /\ faults' \in 0..setting.faults
    BY <1>1, Untouched, Basics
  <1> QED
    BY <1>1, <1>2, <1>4, <1>5, Again

LEMMA ResendStep ==
  ASSUME IInv, NEW r \in Batch, Resend(r)
  PROVE  IInv'
  <1>1. /\ Sending(r) /\ faults < setting.faults /\ faults' = faults + 1
        /\ UNCHANGED <<setting, push, outcome, cache, pushes, foreign>>
    BY DEF Resend, Sends
  <1>2. PICK n \in Accepted(r) : Applied(r, n)
    BY DEF Resend
  <1> DEFINE t == [task[r] EXCEPT !.resent = TRUE]
  <1>3. task[r] \in Tasks /\ Goes(r, t)
    BY Basics DEF Resend
  <1>4. t \in Tasks /\ t.pc = task[r].pc /\ t.to = task[r].to /\ t.rv = task[r].rv
    BY <1>3 DEF Tasks
  <1> HIDE DEF t
  <1>5. Grows
    BY <1>1, <1>2, AppliedOK
  <1>6. faults' \in 0..setting.faults
    BY <1>1, Basics
  <1> QED
    BY <1>1, <1>3, <1>4, <1>5, <1>6, Again

LEMMA RejectedStep ==
  ASSUME IInv, NEW r \in Batch, Rejected(r)
  PROVE  IInv'
  <1>1. /\ Sending(r) /\ Fails(r)
        /\ UNCHANGED <<setting, cache, pushes, store, clock, faults, foreign>>
    BY DEF Rejected, Sends, Server
  <1>2. Grows /\ faults' \in 0..setting.faults
    BY <1>1, Untouched, Basics
  <1> QED
    BY <1>1, <1>2, SendingInTurn, Failing

LEMMA OneFault ==
  ASSUME IInv, UNCHANGED faults \/ (faults < setting.faults /\ faults' = faults + 1)
  PROVE  faults' \in 0..setting.faults
  BY Basics

LEMMA RequestFailsStep ==
  ASSUME IInv, NEW r \in Batch, RequestFails(r)
  PROVE  IInv'
  <1>1. /\ Fails(r) /\ UNCHANGED <<setting, cache, store, clock, pushes, foreign>>
        /\ UnderWay(r)
    BY DEF RequestFails, Sends, Sending, UnderWay, At
  <1>2. faults' \in 0..setting.faults
    BY OneFault DEF RequestFails
  <1>3. Grows
    BY <1>1, Untouched
  <1> QED
    BY <1>1, <1>2, <1>3, InTurn, Failing

LEMMA AnswerLostStep ==
  ASSUME IInv, NEW r \in Batch, AnswerLost(r)
  PROVE  IInv'
  <1>1. Sending(r) /\ Fails(r) /\ UNCHANGED <<setting, cache, pushes, foreign>>
    BY DEF AnswerLost, Sends
  <1>2. PICK n \in Accepted(r) : Applied(r, n)
    BY DEF AnswerLost
  <1>3. faults' \in 0..setting.faults
    BY OneFault DEF AnswerLost
  <1>4. Grows
    BY <1>1, <1>2, AppliedOK
  <1> QED
    BY <1>1, <1>3, <1>4, SendingInTurn, Failing

-------------------------------------------------------------------------------
(* The push *)

\* A push begins with nothing done, and no outcomes.
LEMMA Fresh ==
  ASSUME IInv, UNCHANGED <<setting, store, clock, foreign>>,
         task' = [r \in Batch |-> Waiting], outcome' = [r \in Batch |-> "none"],
         cache' \in [Kinds -> Lists \cup {None}],
         \A k \in Kinds : cache'[k] # None => Known(cache'[k]),
         pushes' \in 0..setting.pushes, faults' \in 0..setting.faults,
         push' \in [pc : {"idle", "folders", "rest", "ended"}, level : Nat,
                    levels : {push'.levels}, stop : BOOLEAN, dry : BOOLEAN,
                    cancelled : BOOLEAN, error : BOOLEAN],
         push'.levels \in [Nodes' -> Int], Nodes' \subseteq Folders,
         push'.pc # "ended" =>
           /\ Nodes' \in NodeSets
           /\ \A f \in Nodes' : push'.levels[f] >= 0
           /\ \A f \in Nodes' : \A g \in Parents(Nodes', f) :
                push'.levels[f] = push'.levels[g] + 1,
         push'.pc = "folders" => push'.level = 0,
         push'.pc = "rest" => Nodes' = {},
         push'.pc = "ended" => push'.error
  PROVE  IInv'
  <1>1. Batch' = Batch /\ batch' = batch /\ Folders' = Folders
    BY DEF Batch, batch, Folders
  <1>2. /\ TypeOK /\ setting \in Settings /\ clock \in Nat
    BY DEF IInv, Types
  <1>3. \A r \in Batch : task'[r] = Waiting /\ outcome'[r] = "none"
    OBVIOUS
  <1>4. Types'
    <2>1. /\ task' \in [Batch -> Tasks]
          /\ outcome' \in [Batch -> {"none", "ok", "failed", "skipped", "left"}]
      BY WaitingOK
    <2>2. DOMAIN cache' = Kinds
      OBVIOUS
    <2> QED
      BY <1>1, <1>2, <2>1, <2>2 DEF Types, TypeOK, Lists, Nodes
  <1>5. Versions'
    BY <1>1, <1>3, WaitingOK, Basics DEF IInv, Versions, Known, At
  <1>6. Addressed'
    BY <1>1, <1>3, WaitingOK DEF Addressed, At
  <1>7. Ordered'
    <2>1. push'.pc \in {"folders", "rest"} => push'.pc # "ended"
      OBVIOUS
    <2>2. NodeSets' = NodeSets
      BY <1>1 DEF NodeSets
    <2> QED
      BY <1>1, <2>1, <2>2 DEF Ordered, Parents
  <1>8. Past' = {}
    BY DEF Past, Nodes
  <1>9. Turns'
    BY <1>1, <1>3, <1>8, WaitingOK DEF Turns, UnderWay, At
  <1>10. Outcomes'
    BY <1>1, <1>3, WaitingOK DEF Outcomes, At
  <1>11. Stored'
    BY <1>1, <1>3 DEF Stored, Folders
  <1> QED
    BY <1>4, <1>5, <1>6, <1>7, <1>9, <1>10, <1>11 DEF IInv

LEMMA StartPushStep ==
  ASSUME IInv, NEW stop \in BOOLEAN, StartPush(stop)
  PROVE  IInv'
  <1>1. PICK N \in NodeSets : \E L \in Levels(N) :
          push' = [NoPush EXCEPT !.levels = L, !.stop = stop, !.dry = setting.dry,
                                 !.pc = IF \E f \in N : L[f] < 0 THEN "ended"
                                        ELSE IF N = {} THEN "rest" ELSE "folders",
                                 !.error = \E f \in N : L[f] < 0]
    BY DEF StartPush
  <1>2. PICK L \in Levels(N) :
          push' = [NoPush EXCEPT !.levels = L, !.stop = stop, !.dry = setting.dry,
                                 !.pc = IF \E f \in N : L[f] < 0 THEN "ended"
                                        ELSE IF N = {} THEN "rest" ELSE "folders",
                                 !.error = \E f \in N : L[f] < 0]
    BY <1>1
  <1>3. L \in [N -> Int] /\ N \subseteq Folders
    BY DEF Levels, NodeSets
  <1>4. /\ push'.levels = L /\ push'.stop = stop /\ push'.dry = setting.dry /\ push'.level = 0
        /\ push'.pc = IF \E f \in N : L[f] < 0 THEN "ended" ELSE IF N = {} THEN "rest" ELSE "folders"
        /\ push'.error = (\E f \in N : L[f] < 0) /\ push'.cancelled = FALSE
        /\ DOMAIN push' = {"pc", "level", "levels", "stop", "dry", "cancelled", "error"}
    BY <1>2 DEF NoPush
  <1>5. Nodes' = N
    BY <1>3, <1>4 DEF Nodes
  <1>6. push' \in [pc : {"idle", "folders", "rest", "ended"}, level : Nat, levels : {L},
                   stop : BOOLEAN, dry : BOOLEAN, cancelled : BOOLEAN, error : BOOLEAN]
    <2>1. setting.dry \in BOOLEAN
      BY Given, Basics
    <2> QED
      BY <1>2, <2>1 DEF NoPush
  <1>7. ASSUME push'.pc # "ended"
        PROVE  /\ \A f \in N : L[f] >= 0
               /\ \A f \in N : \A g \in Parents(N, f) : L[f] = L[g] + 1
    <2>1. \A f \in N : L[f] >= 0
      BY <1>3, <1>4, <1>7
    <2>2. ASSUME NEW f \in N, NEW g \in Parents(N, f)
          PROVE  L[f] = L[g] + 1
      <3>1. g \in N /\ L[f] = IF L[g] < 0 THEN -1 ELSE L[g] + 1
        BY <2>2 DEF Levels, Parents
      <3> QED
        BY <1>3, <2>1, <3>1
    <2> QED
      BY <2>1, <2>2
  <1>8. cache' \in [Kinds -> Lists \cup {None}] /\ \A k \in Kinds : cache'[k] = None
    BY DEF StartPush, CacheAtStart, NewCache
  <1>9. /\ UNCHANGED <<setting, store, clock, faults, foreign>>
        /\ task' = [r \in Batch |-> Waiting] /\ outcome' = [r \in Batch |-> "none"]
        /\ pushes < setting.pushes /\ pushes' = pushes + 1
    BY DEF StartPush
  <1>10. pushes' \in 0..setting.pushes /\ faults' \in 0..setting.faults
    BY <1>9, Given, Basics DEF IInv, Types, TypeOK
  <1> QED
    BY <1>3, <1>4, <1>5, <1>6, <1>7, <1>8, <1>9, <1>10, Fresh

LEMMA PreflightFailsStep ==
  ASSUME IInv, NEW stop \in BOOLEAN, PreflightFails(stop)
  PROVE  IInv'
  <1>1. /\ UNCHANGED <<setting, cache, store, clock, foreign>>
        /\ task' = [r \in Batch |-> Waiting] /\ outcome' = [r \in Batch |-> "none"]
        /\ pushes < setting.pushes /\ pushes' = pushes + 1
        /\ faults < setting.faults /\ faults' = faults + 1
        /\ push' = [NoPush EXCEPT !.pc = "ended", !.stop = stop, !.error = TRUE]
    BY DEF PreflightFails
  <1>2. pushes' \in 0..setting.pushes /\ faults' \in 0..setting.faults
    BY <1>1, Given, Basics DEF IInv, Types, TypeOK
  <1>3. /\ push'.pc = "ended" /\ push'.error /\ push'.levels = << >>
        /\ push' \in [pc : {"idle", "folders", "rest", "ended"}, level : Nat,
                      levels : {push'.levels}, stop : BOOLEAN, dry : BOOLEAN,
                      cancelled : BOOLEAN, error : BOOLEAN]
    BY <1>1 DEF NoPush
  <1>4. Nodes' = {} /\ push'.levels \in [{} -> Int]
    BY <1>3 DEF Nodes
  <1> QED
    BY <1>1, <1>2, <1>3, <1>4, Basics, Fresh

\* With every manifest counted, all have had their turn.
LEMMA AllDone ==
  ASSUME IInv, AllRecorded
  PROVE  \A r \in Batch : At(r, "done")
  <1>1. IsFiniteSet(Batch)
    BY Given, Basics
  <1>2. Recorded \subseteq Batch
    BY DEF Recorded
  <1>3. IsFiniteSet(Recorded) /\ Cardinality(Recorded) <= Cardinality(Batch)
        /\ (Cardinality(Recorded) = Cardinality(Batch) => Recorded = Batch)
    BY <1>1, <1>2, FS_Subset
  <1>4. Cardinality(Recorded) \in Nat /\ Cardinality(Batch) \in Nat
    BY <1>1, <1>3, FS_CardinalityType
  <1>5. Recorded = Batch
    BY <1>3, <1>4 DEF AllRecorded
  <1> QED
    BY <1>5 DEF Recorded, IInv, Outcomes

\* The next phase begins, or the push ends.
LEMMA EndPhaseStep ==
  ASSUME IInv, EndPhase
  PROVE  IInv'
  <1>1. /\ push.pc \in {"folders", "rest"} /\ \A r \in Phase : At(r, "done")
        /\ UNCHANGED <<setting, task, outcome, cache, store, clock, pushes, faults, foreign>>
    BY DEF EndPhase
  <1>2. /\ Batch' = Batch /\ batch' = batch /\ Folders' = Folders
        /\ \A r \in Batch, s \in STRING : At(r, s)' = At(r, s)
    BY <1>1 DEF Batch, batch, Folders, At
  <1>3. push \in [pc : {"idle", "folders", "rest", "ended"}, level : Nat, levels : {push.levels},
                  stop : BOOLEAN, dry : BOOLEAN, cancelled : BOOLEAN, error : BOOLEAN]
    BY DEF IInv, Types
  <1>4. Nodes \in NodeSets /\ Nodes \subseteq Batch /\ push.levels \in [Nodes -> Int]
    BY <1>1 DEF IInv, Ordered, Types, NodeSets, Folders
  <1>5. \A r \in Batch : ~UnderWay(r)
    BY <1>1 DEF IInv, Turns, UnderWay
  <1> DEFINE last == \A f \in Nodes : push.levels[f] <= push.level
  <1>6. push' = IF push.error \/ push.pc = "rest" THEN [push EXCEPT !.pc = "ended"]
                ELSE IF ~last THEN [push EXCEPT !.level = @ + 1]
                ELSE [push EXCEPT !.pc = IF AllRecorded THEN "ended" ELSE "rest"]
    BY DEF EndPhase, Nodes
  <1>7. /\ push'.levels = push.levels /\ push'.stop = push.stop /\ push'.dry = push.dry
        /\ push'.error = push.error
        /\ push' \in [pc : {"idle", "folders", "rest", "ended"}, level : Nat,
                      levels : {push'.levels}, stop : BOOLEAN, dry : BOOLEAN,
                      cancelled : BOOLEAN, error : BOOLEAN]
    BY <1>3, <1>6
  <1>8. Nodes' = Nodes /\ NodeSets' = NodeSets
    BY <1>2, <1>7 DEF Nodes, NodeSets
  <1>9. Types'
    BY <1>1, <1>2, <1>7, <1>8 DEF IInv, Types, TypeOK, Lists
  <1>10. Versions' /\ Addressed' /\ Stored'
    BY <1>1, <1>2, <1>7 DEF IInv, Versions, Known, Addressed, Stored, OnServer, At
  <1>11. Ordered'
    <2>1. /\ Nodes \in NodeSets
          /\ \A f \in Nodes : push.levels[f] >= 0
          /\ \A f \in Nodes : \A g \in Parents(Nodes, f) : push.levels[f] = push.levels[g] + 1
      BY <1>1 DEF IInv, Ordered
    <2> QED
      BY <1>2, <1>7, <1>8, <2>1 DEF Ordered, Parents
  \* What was past stays so; of the phase that has ended, all are done.
  <1>12. ASSUME NEW f \in Nodes, f \in Past \/ f \in Phase
         PROVE  At(f, "done") /\ (push.stop /\ ~push.error => outcome[f] # "failed")
    BY <1>1, <1>4, <1>12 DEF IInv, Turns
  <1>13. CASE push'.pc = "ended"
    <2>1. Turns'
      <3>1. Past' = {}
        BY <1>13 DEF Past
      <3>2. \A r \in Batch : ~UnderWay(r)'
        BY <1>1, <1>5 DEF UnderWay, At
      <3> QED
        BY <1>2, <1>13, <3>1, <3>2 DEF Turns
    <2>2. ASSUME ~push.error
          PROVE  \A r \in Batch : At(r, "done") \/ r \in Folders \ Nodes
      <3>1. CASE push.pc = "rest"
        <4>1. \A r \in Nodes : At(r, "done")
          BY <1>12, <3>1 DEF Past
        <4>2. \A r \in Batch \ Folders : At(r, "done")
          BY <1>1, <3>1 DEF Phase
        <4> QED
          BY <4>1, <4>2
      <3>2. CASE push.pc = "folders"
        <4>1. AllRecorded
          BY <1>3, <1>6, <1>13, <2>2, <3>2
        <4> QED
          BY <4>1, AllDone
      <3> QED
        BY <1>1, <3>1, <3>2
    <2>3. Outcomes'
      <3>1. \A r \in Batch :
              IF At(r, "done") THEN \/ outcome[r] \in {"ok", "failed", "skipped"}
                                    \/ batch[r].gate = "managed" /\ outcome[r] = "left"
              ELSE outcome[r] = "none"
        BY DEF IInv, Outcomes
      <3> QED
        BY <1>1, <1>2, <1>4, <1>7, <1>8, <2>2, <3>1 DEF Outcomes, At
    <2> QED
      BY <1>9, <1>10, <1>11, <2>1, <2>3 DEF IInv
  <1>14. CASE push'.pc # "ended"
    <2>1. ~push.error /\ push.pc = "folders"
      BY <1>1, <1>3, <1>6, <1>14
    <2>2. \A r \in Batch : push.stop => outcome[r] # "failed"
      BY <2>1 DEF IInv, Turns
    <2>3. ASSUME NEW f \in Past'
          PROVE  f \in Nodes /\ (f \in Past \/ f \in Phase)
      <3>1. f \in Nodes
        BY <1>8, <2>3 DEF Past
      <3>2. push.levels[f] \in Int /\ push.level \in Nat
        BY <1>3, <1>4, <3>1
      <3>3. push.levels[f] <= push.level
        <4>1. CASE ~last
          <5>1. push'.level = push.level + 1 /\ push'.pc = "folders" /\ push'.levels = push.levels
            BY <1>3, <1>6, <2>1, <4>1
          <5>2. push.levels[f] < push.level + 1
            BY <2>3, <5>1 DEF Past
          <5> QED
            BY <3>2, <5>2
        <4>2. CASE last
          BY <3>1, <4>2
        <4> QED
          BY <4>1, <4>2
      <3>4. push.levels[f] < push.level \/ push.levels[f] = push.level
        BY <3>2, <3>3
      <3> QED
        BY <2>1, <3>1, <3>4 DEF Past, Phase, Nodes
    <2>4. Turns'
      <3>1. \A f \in Past' : At(f, "done")' /\ (push'.stop => outcome'[f] # "failed")
        <4> SUFFICES ASSUME NEW f \in Past'
                     PROVE  At(f, "done")' /\ (push'.stop => outcome'[f] # "failed")
          OBVIOUS
        <4>1. f \in Nodes /\ (f \in Past \/ f \in Phase)
          BY <2>3
        <4>2. At(f, "done") /\ (push.stop => outcome[f] # "failed")
          BY <1>12, <2>1, <4>1
        <4> QED
          BY <1>1, <1>7, <4>2 DEF At
      <3>2. \A r \in Batch : ~UnderWay(r)'
        BY <1>1, <1>5 DEF UnderWay, At
      <3>3. \A r \in Batch : push'.stop => outcome'[r] # "failed"
        BY <1>1, <1>7, <2>2
      <3> QED
        BY <1>2, <3>1, <3>2, <3>3 DEF Turns
    <2>5. Outcomes'
      <3>1. \A r \in Batch :
              IF At(r, "done") THEN \/ outcome[r] \in {"ok", "failed", "skipped"}
                                    \/ batch[r].gate = "managed" /\ outcome[r] = "left"
              ELSE outcome[r] = "none"
        BY DEF IInv, Outcomes
      <3> QED
        BY <1>1, <1>2, <1>14, <3>1 DEF Outcomes, At
    <2> QED
      BY <1>9, <1>10, <1>11, <2>4, <2>5 DEF IInv
  <1> QED
    BY <1>13, <1>14

LEMMA InterruptStep ==
  ASSUME IInv, Interrupt
  PROVE  IInv'
  <1>1. /\ push' = [push EXCEPT !.cancelled = TRUE]
        /\ UNCHANGED <<setting, task, outcome, cache, store, clock, pushes, faults, foreign>>
    BY DEF Interrupt
  <1>2. push \in [pc : {"idle", "folders", "rest", "ended"}, level : Nat, levels : {push.levels},
                  stop : BOOLEAN, dry : BOOLEAN, cancelled : BOOLEAN, error : BOOLEAN]
    BY DEF IInv, Types
  <1>3. /\ push'.pc = push.pc /\ push'.level = push.level /\ push'.levels = push.levels
        /\ push'.stop = push.stop /\ push'.dry = push.dry /\ push'.error = push.error
        /\ push' \in [pc : {"idle", "folders", "rest", "ended"}, level : Nat,
                      levels : {push'.levels}, stop : BOOLEAN, dry : BOOLEAN,
                      cancelled : BOOLEAN, error : BOOLEAN]
    BY <1>1, <1>2
  <1>4. /\ Batch' = Batch /\ batch' = batch /\ Folders' = Folders
        /\ Nodes' = Nodes /\ Phase' = Phase /\ Past' = Past /\ NodeSets' = NodeSets
    BY <1>1, <1>3 DEF Batch, batch, Folders, Nodes, Phase, Past, NodeSets
  <1>5. Types'
    BY <1>1, <1>3, <1>4 DEF IInv, Types, TypeOK, Lists
  <1>6. Versions' /\ Addressed' /\ Stored' /\ Outcomes'
    BY <1>1, <1>3, <1>4 DEF IInv, Versions, Known, Addressed, Stored, OnServer, Outcomes, At
  <1>7. Turns'
    BY <1>1, <1>3, <1>4 DEF IInv, Turns, UnderWay, At
  <1>8. Ordered'
    BY <1>1, <1>3, <1>4 DEF IInv, Ordered, Parents
  <1> QED
    BY <1>5, <1>6, <1>7, <1>8 DEF IInv

\* What another client does.
LEMMA ForeignStep ==
  ASSUME IInv, NEW n \in Names, Foreign(n)
  PROVE  IInv'
  <1>1. /\ foreign < setting.foreign /\ foreign' = foreign + 1
        /\ UNCHANGED <<setting, push, task, outcome, cache, pushes, faults>>
    BY DEF Foreign
  <1>2. /\ foreign' \in 0..setting.foreign /\ foreign' # 0
    BY <1>1, Given, Basics DEF IInv, Types, TypeOK
  <1>3. Grows \/ (store' = [store EXCEPT ![n] = None] /\ UNCHANGED clock)
    <2>1. CASE store' = [store EXCEPT ![n] = None] /\ UNCHANGED clock
      BY <2>1
    <2>2. CASE clock' = clock + 1
               /\ \E k \in Kinds, key \in Keys \cup {None} :
                    store' = [store EXCEPT ![n] = [kind |-> k, key |-> key,
                                                   rv |-> clock + 1, by |-> "other"]]
      <3>1. PICK k \in Kinds, key \in Keys \cup {None} :
              store' = [store EXCEPT ![n] = [kind |-> k, key |-> key,
                                             rv |-> clock + 1, by |-> "other"]]
        BY <2>2
      <3> DEFINE obj == [kind |-> k, key |-> key, rv |-> clock + 1, by |-> "other"]
      <3>2. obj \in Objects /\ obj.rv = clock + 1
        BY Basics DEF Objects
      <3>3. store' = [store EXCEPT ![n] = obj]
        BY <3>1
      <3> HIDE DEF obj
      <3>4. obj # None
        BY <3>2, PushConstantsOK
      <3>5. store' \in Lists
        BY <3>2, <3>3, Basics DEF Lists
      <3>6. clock' \in Nat /\ clock' >= clock
        BY <2>2, Basics
      <3>7. \A m \in Names : store[m] # None => store'[m] # None
        BY <3>3, <3>4, Basics DEF Lists
      <3>8. ASSUME NEW m \in Names, store'[m] # None
            PROVE  store'[m].rv <= clock'
        <4>1. CASE m = n
          BY <2>2, <3>2, <3>3, <4>1, Basics DEF Lists
        <4>2. CASE m # n
          <5>1. store'[m] = store[m]
            BY <3>3, <4>2, Basics DEF Lists
          <5>2. store[m].rv \in Nat /\ store[m].rv <= clock
            BY <3>8, <5>1, Basics DEF Lists, Objects, Known
          <5> QED
            BY <2>2, <5>1, <5>2, Basics
        <4> QED
          BY <4>1, <4>2
      <3> QED
        BY <3>5, <3>6, <3>7, <3>8 DEF Grows
    <2>3. \A k \in { Kind(r) : r \in Batch } : k \in Kinds
      BY Basics
    <2> QED
      BY <2>1, <2>2, <2>3 DEF Foreign
  <1>4. store' \in Lists /\ clock' \in Nat /\ clock' >= clock /\ Known(store)'
    <2>1. CASE Grows
      BY <2>1 DEF Grows, Known
    <2>2. CASE store' = [store EXCEPT ![n] = None] /\ UNCHANGED clock
      <3>1. store' \in Lists
        BY <2>2, Basics DEF Lists
      <3>2. \A m \in Names : store'[m] # None => store'[m] = store[m]
        BY <2>2, Basics DEF Lists
      <3> QED
        BY <2>2, <3>1, <3>2, Basics DEF Known
    <2> QED
      BY <1>3, <2>1, <2>2
  <1>5. /\ Batch' = Batch /\ batch' = batch /\ Folders' = Folders
        /\ Nodes' = Nodes /\ Phase' = Phase /\ Past' = Past /\ NodeSets' = NodeSets
    BY <1>1 DEF Batch, batch, Folders, Nodes, Phase, Past, NodeSets
  <1>6. Types'
    BY <1>1, <1>2, <1>4, <1>5 DEF IInv, Types, TypeOK, Lists
  <1>7. Versions'
    <2>1. \A list \in Lists : Known(list) => \A m \in Names : list[m] # None => list[m].rv <= clock'
      <3> SUFFICES ASSUME NEW list \in Lists, Known(list), NEW m \in Names, list[m] # None
                   PROVE  list[m].rv <= clock'
        OBVIOUS
      <3>1. list[m].rv \in Nat /\ list[m].rv <= clock
        BY DEF Lists, Objects, Known
      <3> QED
        BY <1>4, <3>1, Basics
    <2>2. \A k \in Kinds : cache[k] # None => cache[k] \in Lists /\ Known(cache[k])
      BY Basics
    <2>3. \A r \in Batch : /\ task[r].rv \in Nat /\ task[r].rv <= clock
                           /\ At(r, "fetched") => task[r].list \in Lists /\ Known(task[r].list)
      BY Basics DEF IInv, Versions, Tasks
    <2>4. \A r \in Batch : task[r].rv <= clock'
      BY <1>4, <2>3, Basics
    <2> QED
      BY <1>1, <1>4, <1>5, <2>1, <2>2, <2>3, <2>4 DEF Versions, Known, At
  <1>8. Addressed' /\ Outcomes'
    BY <1>1, <1>5 DEF IInv, Addressed, Outcomes, At
  <1>9. Turns'
    BY <1>1, <1>5 DEF IInv, Turns, UnderWay, At
  <1>10. Ordered'
    BY <1>1, <1>5 DEF IInv, Ordered, Parents
  <1>11. Stored'
    BY <1>2 DEF Stored
  <1> QED
    BY <1>6, <1>7, <1>8, <1>9, <1>10, <1>11 DEF IInv

LEMMA NextOK == IInv /\ [Next]_vars => IInv'
  <1> SUFFICES ASSUME IInv, [Next]_vars PROVE IInv'
    OBVIOUS
  <1>1. CASE UNCHANGED vars
    <2>1. /\ UNCHANGED <<setting, push, task, outcome, cache, store, clock, pushes, faults, foreign>>
      BY <1>1 DEF vars
    <2>2. /\ Batch' = Batch /\ batch' = batch /\ Folders' = Folders
          /\ Nodes' = Nodes /\ Phase' = Phase /\ Past' = Past /\ NodeSets' = NodeSets
      BY <2>1 DEF Batch, batch, Folders, Nodes, Phase, Past, NodeSets
    <2>3. Types'
      BY <2>1, <2>2 DEF IInv, Types, TypeOK, Lists
    <2>4. Versions' /\ Addressed' /\ Stored' /\ Outcomes'
      BY <2>1, <2>2 DEF IInv, Versions, Known, Addressed, Stored, OnServer, Outcomes, At
    <2>5. Turns' /\ Ordered'
      BY <2>1, <2>2 DEF IInv, Turns, UnderWay, At, Ordered, Parents
    <2> QED
      BY <2>3, <2>4, <2>5 DEF IInv
  <1>2. ASSUME NEW stop \in BOOLEAN, StartPush(stop) \/ PreflightFails(stop) PROVE IInv'
    BY <1>2, StartPushStep, PreflightFailsStep
  <1>3. CASE EndPhase \/ Interrupt
    BY <1>3, EndPhaseStep, InterruptStep
  <1>4. ASSUME NEW r \in Batch, Step(r) PROVE IInv'
    BY <1>4, LaunchStep, GetStep, MatchStep, FetchedStep, DryRunHereStep, SendStep, ReplayStep,
       RejectedStep, RequestFailsStep, AnswerLostStep, ResendStep DEF Step
  <1>5. ASSUME NEW n \in Names, Foreign(n) PROVE IInv'
    BY <1>5, ForeignStep
  <1> QED
    BY <1>1, <1>2, <1>3, <1>4, <1>5 DEF Next

\* What every property below rests on.
THEOREM Invariance == Spec => []IInv
  <1> QED
    BY InitOK, NextOK, PTL DEF Spec

-------------------------------------------------------------------------------
(* The theorems *)

\* Types, and that there are no more pushes, faults and foreign changes than
\* the bounds allow.
THEOREM TypeCorrect == Spec => []TypeOK
  <1>1. IInv => TypeOK
    BY DEF IInv, Types
  <1> QED
    BY <1>1, Invariance, PTL

\* pushFolders: folders go before what is in them, level by level. With
\* stop-on-error nothing is pushed into a folder that failed.
THEOREM ParentsFirstHolds == Spec => []ParentsFirst
  <1>1. ASSUME IInv PROVE ParentsFirst
    <2> SUFFICES ASSUME NEW r \in Batch, UnderWay(r), NEW f \in Above(r)
                 PROVE  /\ At(f, "done")
                        /\ push.stop => outcome[f] # "failed"
                        /\ outcome[f] = "ok" /\ ~push.dry /\ foreign = 0 => OnServer(f)
      BY DEF ParentsFirst
    <2>1. r \in Phase
      BY <1>1, InTurn
    <2>2. /\ push.pc \in {"folders", "rest"} /\ push.level \in Nat
          /\ push.levels \in [Nodes -> Int] /\ Nodes \subseteq Folders
      BY <1>1, <2>1 DEF Phase, IInv, Types, TypeOK, Nodes
    <2>3. f \in Nodes
      BY DEF Above, Parents, Nodes
    <2>4. f \in Past
      <3>1. CASE push.pc = "rest"
        BY <2>3, <3>1 DEF Past
      <3>2. CASE push.pc = "folders"
        <4>1. r \in Nodes /\ push.levels[r] = push.level
          BY <2>1, <3>2 DEF Phase, Nodes
        <4>2. f \in Parents(Nodes, r)
          BY <2>2, <4>1 DEF Above, Nodes
        <4>3. push.levels[r] = push.levels[f] + 1
          BY <1>1, <2>2, <4>1, <4>2 DEF IInv, Ordered
        <4>4. push.levels[f] < push.level
          BY <2>2, <2>3, <4>1, <4>3
        <4> QED
          BY <2>3, <3>2, <4>4 DEF Past
      <3> QED
        BY <2>2, <3>1, <3>2
    <2> QED
      BY <1>1, <2>2, <2>3, <2>4 DEF IInv, Turns, Stored
  <1> QED
    BY <1>1, Invariance, PTL

\* The summary of a push that returns without an error has an outcome for
\* every manifest that it has to answer for.
THEOREM AccountedHolds == Spec => []Accounted
  <1>1. ASSUME IInv PROVE Accounted
    <2> SUFFICES ASSUME push.pc = "ended", ~push.error, NEW r \in Batch
                 PROVE  \/ batch[r].gate = "managed" /\ outcome[r] \in {"none", "left"}
                        \/ outcome[r] \in {"ok", "failed", "skipped"}
                        \/ r \in Folders /\ \E f \in Folders \ {r} : batch[f].name = batch[r].name
      BY DEF Accounted
    <2>1. At(r, "done") \/ r \in Folders \ Nodes
      BY <1>1 DEF IInv, Outcomes
    <2>2. CASE At(r, "done")
      BY <1>1, <2>2 DEF IInv, Outcomes
    <2>3. CASE r \in Folders \ Nodes
      BY <1>1, <2>3 DEF IInv, Outcomes, NodeSets
    <2> QED
      BY <2>1, <2>2, <2>3
  <1> QED
    BY <1>1, Invariance, PTL

\* What another manifest's request does to an object that has changed already.
LEMMA StaysStale ==
  ASSUME IInv, NEW r \in Batch, NEW q \in Batch, q # r, Stale(r), UNCHANGED setting,
         task'[r] = task[r],
         UNCHANGED store \/ (Sending(q) /\ \E n \in Accepted(q) : Applied(q, n))
  PROVE  Stale(r)'
  <1> DEFINE to == task[r].to
  <1>1. /\ At(r, "update") /\ ~Adapter(Kind(r)) /\ store[to] # None
        /\ store[to].rv # task[r].rv /\ to \in Names
    BY DEF Stale, IInv, Addressed
  <1>2. task[r].rv \in Nat /\ task[r].rv <= clock
    BY Basics DEF IInv, Versions, Tasks
  <1>3. At(r, "update")' /\ Kind(r)' = Kind(r) /\ Batch' = Batch
    BY <1>1 DEF At, Kind, batch, Batch
  <1>4. CASE store' = store
    BY <1>1, <1>3, <1>4 DEF Stale
  <1>5. CASE Sending(q) /\ \E n \in Accepted(q) : Applied(q, n)
    <2>1. PICK n \in Accepted(q) : Applied(q, n)
      BY <1>5
    <2>2. store' = store \/ store' = [store EXCEPT ![n] = [kind |-> Kind(q), key |-> batch[q].key,
                                                            rv |-> clock + 1, by |-> q]]
      BY <2>1 DEF Applied
    <2>3. store'[to] = store[to] \/ store'[to].rv = clock + 1
      BY <1>1, <2>2, Basics DEF Lists
    <2>4. store'[to] # None
      BY <1>1, <1>5, <2>1, AppliedOK DEF Grows
    <2>5. store'[to].rv # task[r].rv
      BY <1>1, <1>2, <2>3, Basics
    <2> QED
      BY <1>1, <1>3, <2>4, <2>5 DEF Stale
  <1> QED
    BY <1>4, <1>5

\* Which manifest a step of one changes, and how it changes the server.
LEMMA StepOfOne ==
  ASSUME IInv, NEW q \in Batch, Step(q)
  PROVE  /\ UNCHANGED <<setting, foreign>>
         /\ \A r \in Batch : r # q => task'[r] = task[r]
         /\ UNCHANGED store \/ (Sends(q) /\ \E n \in Accepted(q) : Applied(q, n))
  <1>1. task \in [Batch -> Tasks]
    BY Basics
  <1>2. /\ UNCHANGED <<setting, foreign>>
        /\ UNCHANGED store \/ (Sends(q) /\ \E n \in Accepted(q) : Applied(q, n))
    BY DEF Step, Launch, Get, Match, Fetched, DryRunHere, Send, Replay, Rejected, RequestFails,
       AnswerLost, Resend, Server
  <1>3. \E t : task' = [task EXCEPT ![q] = t]
    <2>1. CASE Launch(q)
      BY <2>1 DEF Launch, Finishes, Fails, Ends, Goes
    <2>2. CASE Get(q)
      BY <2>2 DEF Get, Fails, Ends, Goes
    <2>3. CASE Match(q) \/ Fetched(q)
      BY <2>3 DEF Match, Fetched, Matches, Fails, Ends, Goes
    <2>4. CASE DryRunHere(q) \/ Send(q)
      BY <2>4 DEF DryRunHere, Send, Finishes, Ends, Goes
    <2>5. CASE Rejected(q) \/ RequestFails(q) \/ AnswerLost(q)
      BY <2>5 DEF Rejected, RequestFails, AnswerLost, Fails, Ends, Goes
    <2>6. CASE Replay(q) \/ Resend(q)
      BY <2>6 DEF Replay, Resend, Goes
    <2> QED
      BY <2>1, <2>2, <2>3, <2>4, <2>5, <2>6 DEF Step
  <1> QED
    BY <1>1, <1>2, <1>3

\* newConflictRetryClient: an update of something that has changed since it was
\* read fails, however often it is sent and whatever the other manifests do.
THEOREM StaleHolds == Spec => StaleNeverSucceeds
  <1>1. ASSUME IInv, [Next]_vars
        PROVE  [\A r \in Batch : Stale(r) => \/ Stale(r)' \/ outcome'[r] \in {"failed", "skipped"}
                                             \/ foreign' # foreign]_vars
    <2> SUFFICES ASSUME Next, NEW r \in Batch, Stale(r)
                 PROVE  Stale(r)' \/ outcome'[r] \in {"failed", "skipped"} \/ foreign' # foreign
      BY <1>1
    <2>1. At(r, "update") /\ UnderWay(r) /\ ~Adapter(Kind(r))
      BY DEF Stale, At, UnderWay
    <2>2. r \in Phase /\ ~At(r, "done")
      BY <1>1, <2>1, InTurn
    <2>3. push.pc \in {"folders", "rest"}
      BY <2>2 DEF Phase
    <2>4. ~EndPhase /\ \A stop \in BOOLEAN : ~StartPush(stop) /\ ~PreflightFails(stop)
      BY <2>2, <2>3 DEF EndPhase, StartPush, PreflightFails
    <2>5. CASE Interrupt
      BY <2>5 DEF Interrupt, Stale, At, Kind, batch
    <2>6. ASSUME NEW n \in Names, Foreign(n) PROVE foreign' # foreign
      BY <1>1, <2>6 DEF Foreign, IInv, Types, TypeOK
    <2>7. ASSUME NEW q \in Batch, q # r, Step(q) PROVE Stale(r)'
      BY <1>1, <2>7, StepOfOne, StaysStale DEF Sends
    <2>8. CASE Step(r)
      <3>1. Accepted(r) = {}
        BY <2>1 DEF Accepted, At
      <3>2. ~Launch(r) /\ ~Get(r) /\ ~Match(r) /\ ~Fetched(r)
        BY <2>1 DEF Launch, Get, Match, Fetched, At
      <3>3. ~Send(r) /\ ~AnswerLost(r) /\ ~Resend(r)
        BY <3>1 DEF Send, AnswerLost, Resend
      <3>4. CASE Replay(r)
        <4>1. task' = [task EXCEPT ![r] = [task[r] EXCEPT !.tries = @ + 1]]
              /\ UNCHANGED <<setting, store>>
          BY <3>4 DEF Replay, Goes, Server
        <4>2. task'[r] = [task[r] EXCEPT !.tries = @ + 1] /\ task[r] \in Tasks
          BY <1>1, <4>1, Basics
        <4>3. task'[r].pc = task[r].pc /\ task'[r].to = task[r].to /\ task'[r].rv = task[r].rv
          BY <4>2 DEF Tasks
        <4> QED
          BY <4>1, <4>3 DEF Stale, At, Kind, batch
      <3>5. CASE DryRunHere(r) \/ Rejected(r) \/ RequestFails(r)
        <4>1. outcome \in [Batch -> {"none", "ok", "failed", "skipped", "left"}]
          BY <1>1 DEF IInv, Types, TypeOK
        <4>2. \E how \in {"failed", "skipped"} : outcome' = [outcome EXCEPT ![r] = how]
          BY <2>1, <3>5 DEF DryRunHere, Rejected, RequestFails, Finishes, Fails, Ends
        <4> QED
          BY <4>1, <4>2
      <3> QED
        BY <2>8, <3>2, <3>3, <3>4, <3>5 DEF Step
    <2> QED
      BY <2>4, <2>5, <2>6, <2>7, <2>8 DEF Next
  <1> QED
    BY <1>1, Invariance, PTL DEF Spec, StaleNeverSucceeds

\* dryRunGuard: in a dry run nothing that is pushed changes the server, if what
\* the user says of it is true.
THEOREM DryRunHolds == Spec => DryRunChangesNothing
  <1>1. ASSUME IInv, [Next]_vars
        PROVE  [push.dry /\ RightlyAssumed /\ store' # store => foreign' # foreign]_vars
    <2> SUFFICES ASSUME Next, push.dry, RightlyAssumed, store' # store
                 PROVE  foreign' # foreign
      BY <1>1
    <2>1. ~EndPhase /\ ~Interrupt /\ \A stop \in BOOLEAN : ~StartPush(stop) /\ ~PreflightFails(stop)
      BY DEF EndPhase, Interrupt, StartPush, PreflightFails
    <2>2. ASSUME NEW q \in Batch, Step(q) PROVE FALSE
      <3>1. Sends(q) /\ \E n \in Accepted(q) : Applied(q, n)
        BY <1>1, <2>2, StepOfOne
      <3>2. {"folder", "plain"} \subseteq setting.honours
        BY <1>1, PushConstantsOK DEF IInv, Types
      <3>3. Kind(q) \in setting.honours
        BY <3>1, <3>2 DEF Sends, Allowlisted, RightlyAssumed
      <3> QED
        BY <3>1, <3>3 DEF Applied
    <2>3. ASSUME NEW n \in Names, Foreign(n) PROVE foreign' # foreign
      BY <1>1, <2>3 DEF Foreign, IInv, Types, TypeOK
    <2> QED
      BY <2>1, <2>2, <2>3 DEF Next
  <1> QED
    BY <1>1, Invariance, PTL DEF Spec, DryRunChangesNothing

-------------------------------------------------------------------------------
(* No second copy of what has a natural key *)

\* A manifest that may have had an effect that lists do not show.
HasActed(t) == t.pc = "done" \/ t.resent

\* Everything of kind k on the server is in the list, or r of this push has put
\* it there.
Covers(list, k, objects, tasks) ==
  \A n \in Names : objects[n] # None /\ objects[n].kind = k =>
    \/ list[n] # None /\ SameKey(list[n], objects[n])
    \/ /\ objects[n].by \in Batch /\ SameKey(batch[objects[n].by], objects[n])
       /\ HasActed(tasks[objects[n].by])

Absent(r) == \A n \in Names : store[n] # None => ~SameKey(store[n], batch[r])

\* The lists of a push are complete but for what the push itself has done;
\* what is about to be created is not there.
KInv ==
  /\ \A r \in Batch : task[r].pc \in {"waiting", "get", "match", "fetched"} => ~task[r].resent
  /\ push.pc \in {"folders", "rest"} => \A r \in Batch : Adapter(Kind(r)) =>
       /\ cache[Kind(r)] # None => Covers(cache[Kind(r)], Kind(r), store, task)
       /\ At(r, "fetched") => Covers(task[r].list, Kind(r), store, task)
       /\ At(r, "create") => task[r].resent \/ Absent(r)

\* What the assumption says of the setting that is used.
LEMMA AloneHere ==
  ASSUME Alone, IInv, NEW r \in Batch, Adapter(Kind(r))
  PROVE  /\ setting.foreign = 0 /\ batch[r].key # None
         /\ \A q \in Batch : SameKey(batch[r], batch[q]) => q = r
  BY Basics DEF Alone, Batch, batch, Kind

\* Nothing of an adapter's kind is changed by others.
LEMMA NobodyElse ==
  ASSUME Alone, IInv, NEW r \in Batch, Adapter(Kind(r)), NEW n \in Names
  PROVE  ~Foreign(n)
  BY AloneHere DEF Foreign, IInv, Types, TypeOK

\* What a step of q does to what r relies on.
LEMMA ListsStayGood ==
  ASSUME IInv, NEW q \in Batch, NEW t \in Tasks, task' = [task EXCEPT ![q] = t],
         UNCHANGED setting,
         HasActed(task[q]) => HasActed(t),
         \/ UNCHANGED store
         \/ /\ HasActed(t)
            /\ \E n \in Names : store' = [store EXCEPT ![n] = [kind |-> Kind(q), key |-> batch[q].key,
                                                              rv |-> clock + 1, by |-> q]],
         NEW list, NEW k, Covers(list, k, store, task)
  PROVE  Covers(list, k, store', task')
  <1>1. Batch' = Batch /\ batch' = batch
    BY DEF Batch, batch
  <1>2. task \in [Batch -> Tasks] /\ store \in Lists
    BY Basics
  <1>3. \A r \in Batch : HasActed(task[r]) => HasActed(task'[r])
    BY <1>2
  <1> SUFFICES ASSUME NEW n \in Names, store'[n] # None, store'[n].kind = k
               PROVE  \/ list[n] # None /\ SameKey(list[n], store'[n])
                      \/ /\ store'[n].by \in Batch /\ SameKey(batch[store'[n].by], store'[n])
                         /\ HasActed(task'[store'[n].by])
    BY <1>1 DEF Covers
  <1>4. CASE store'[n] = store[n]
    BY <1>3, <1>4 DEF Covers
  <1>5. CASE store'[n] # store[n]
    <2>1. HasActed(t)
      BY <1>5
    <2>2. store'[n] = [kind |-> Kind(q), key |-> batch[q].key, rv |-> clock + 1, by |-> q]
      BY <1>2, <1>5 DEF Lists
    <2>3. HasActed(task'[q])
      BY <1>2, <2>1
    <2> QED
      BY <2>2, <2>3 DEF SameKey, Kind
  <1> QED
    BY <1>4, <1>5

\* What a list without r says of the server.
LEMMA MissingMeansAbsent ==
  ASSUME Alone, IInv, KInv, NEW r \in Batch, Adapter(Kind(r)),
         task[r].pc \in {"match", "fetched"},
         NEW list, Covers(list, Kind(r), store, task),
         \A n \in Names : list[n] # None => ~SameKey(list[n], batch[r])
  PROVE  Absent(r)
  <1> SUFFICES ASSUME NEW n \in Names, store[n] # None, SameKey(store[n], batch[r])
               PROVE  FALSE
    BY DEF Absent
  <1>1. store[n].kind = Kind(r)
    BY DEF SameKey, Kind
  <1>2. CASE list[n] # None /\ SameKey(list[n], store[n])
    BY <1>2 DEF SameKey
  <1>3. CASE /\ store[n].by \in Batch /\ SameKey(batch[store[n].by], store[n])
             /\ HasActed(task[store[n].by])
    <2>1. store[n].by = r
      BY <1>3, AloneHere DEF SameKey
    <2> QED
      BY <1>3, <2>1 DEF HasActed, KInv
  <1> QED
    BY <1>1, <1>2, <1>3 DEF Covers

\* A creation follows a list without r.
LEMMA CreatesWhatIsMissing ==
  ASSUME IInv, NEW r \in Batch, NEW list, Matches(r, list), task'[r].pc = "create"
  PROVE  \A n \in Names : list[n] # None => ~SameKey(list[n], batch[r])
  <1> DEFINE M == { n \in Names : /\ list[n] # None /\ list[n].kind = Kind(r)
                                  /\ list[n].key = batch[r].key }
  <1>1. task \in [Batch -> Tasks]
    BY Basics
  <1>2. ~Fails(r)
    BY <1>1, WaitingOK DEF Fails, Ends, Goes
  <1>3. \A n : ~Goes(r, UpdateOf(n, list[n]))
    BY <1>1, WaitingOK DEF Goes, UpdateOf, Waiting
  <1>4. M = {}
    BY <1>2, <1>3 DEF Matches
  <1> QED
    BY <1>4 DEF SameKey, Kind

\* What a step of one manifest does to its task, and to the server.
LEMMA Effect ==
  ASSUME IInv, KInv, NEW q \in Batch, Step(q)
  PROVE  /\ push'.pc = push.pc
         /\ \E t \in Tasks :
              /\ task' = [task EXCEPT ![q] = t]
              /\ HasActed(task[q]) => HasActed(t)
              /\ t.pc \in {"waiting", "get", "match", "fetched"} => ~t.resent
              /\ \/ UNCHANGED store
                 \/ /\ HasActed(t)
                    /\ \E n \in Names :
                         store' = [store EXCEPT ![n] = [kind |-> Kind(q), key |-> batch[q].key,
                                                        rv |-> clock + 1, by |-> q]]
  <1>1. /\ task \in [Batch -> Tasks] /\ store \in Lists /\ task[q] \in Tasks
        /\ push \in [pc : {"idle", "folders", "rest", "ended"}, level : Nat, levels : {push.levels},
                     stop : BOOLEAN, dry : BOOLEAN, cancelled : BOOLEAN, error : BOOLEAN]
    BY Basics DEF IInv, Types
  <1>2. push'.pc = push.pc
    BY <1>1 DEF Step, Launch, Get, Match, Fetched, Matches, DryRunHere, Send, Replay, Rejected,
       RequestFails, AnswerLost, Resend, Finishes, Fails
  <1>3. IInv'
    BY LaunchStep, GetStep, MatchStep, FetchedStep, DryRunHereStep, SendStep, ReplayStep,
       RejectedStep, RequestFailsStep, AnswerLostStep, ResendStep DEF Step
  <1>4. \A t : task' = [task EXCEPT ![q] = t] => t \in Tasks
    <2>1. Batch' = Batch
      BY StepOfOne DEF Batch, batch
    <2> QED
      BY <1>1, <1>3, <2>1 DEF IInv, Types, TypeOK
  <1>5. Waiting.resent = FALSE /\ ~At(q, "done")
    <2>1. At(q, "waiting") \/ UnderWay(q)
      BY DEF Step, Launch, Get, Match, Fetched, DryRunHere, Send, Replay, Rejected, RequestFails,
         AnswerLost, Resend, Sends, Sending, At, UnderWay
    <2> QED
      BY <2>1 DEF UnderWay, At, Waiting
  <1>6. \A n : Sending(q) /\ n \in Accepted(q) /\ Applied(q, n) =>
          \/ UNCHANGED store
          \/ /\ n \in Names
             /\ store' = [store EXCEPT ![n] = [kind |-> Kind(q), key |-> batch[q].key,
                                               rv |-> clock + 1, by |-> q]]
    <2> SUFFICES ASSUME NEW n \in Accepted(q), Sending(q), Applied(q, n), store' # store
                 PROVE  n \in Names
      BY DEF Applied
    <2>1. CASE At(q, "create")
      BY <2>1, Given, Basics DEF Accepted, NewNames, Manifest
    <2>2. CASE At(q, "update")
      BY <2>2 DEF IInv, Addressed, Accepted, At
    <2> QED
      BY <2>1, <2>2 DEF Sending
  <1>7. CASE task' = [task EXCEPT ![q] = Done]
             /\ (UNCHANGED store \/ (Sends(q) /\ \E n \in Accepted(q) : Applied(q, n)))
    <2>1. HasActed(Done) /\ Done \in Tasks /\ Done.pc = "done"
      BY WaitingOK DEF HasActed
    <2> QED
      BY <1>2, <1>6, <1>7, <2>1 DEF Sends
  <1>8. CASE Launch(q) \/ Get(q) \/ Match(q) \/ Fetched(q)
    <2>1. task[q].pc \in {"waiting", "get", "match", "fetched"} /\ UNCHANGED store
      BY <1>8 DEF Launch, Get, Match, Fetched, At, Server
    <2>2. ~HasActed(task[q])
      BY <2>1 DEF HasActed, KInv
    <2>3. \/ task' = [task EXCEPT ![q] = Done]
          \/ \E t : task' = [task EXCEPT ![q] = t] /\ t.resent = FALSE
      <3>1. CASE Launch(q)
        BY <1>5, <3>1 DEF Launch, Finishes, Fails, Ends, Goes, Waiting
      <3>2. ASSUME NEW s, Goes(q, [Waiting EXCEPT !.pc = s])
            PROVE  \E t : task' = [task EXCEPT ![q] = t] /\ t.resent = FALSE
        <4> DEFINE t == [Waiting EXCEPT !.pc = s]
        <4>1. t.resent = FALSE
          BY DEF Waiting
        <4>2. task' = [task EXCEPT ![q] = t]
          BY <3>2 DEF Goes
        <4> QED
          BY <4>1, <4>2
      <3>3. ASSUME Goes(q, [Waiting EXCEPT !.pc = "fetched", !.list = store])
            PROVE  \E t : task' = [task EXCEPT ![q] = t] /\ t.resent = FALSE
        <4> DEFINE t == [Waiting EXCEPT !.pc = "fetched", !.list = store]
        <4>1. t.resent = FALSE
          BY DEF Waiting
        <4>2. task' = [task EXCEPT ![q] = t]
          BY <3>3 DEF Goes
        <4> QED
          BY <4>1, <4>2
      <3>4. ASSUME NEW n, NEW obj, Goes(q, UpdateOf(n, obj))
            PROVE  \E t : task' = [task EXCEPT ![q] = t] /\ t.resent = FALSE
        <4> DEFINE t == UpdateOf(n, obj)
        <4>1. t.resent = FALSE
          BY DEF UpdateOf, Waiting
        <4>2. task' = [task EXCEPT ![q] = t]
          BY <3>4 DEF Goes
        <4> QED
          BY <4>1, <4>2
      <3>5. CASE Get(q)
        <4>1. \/ Goes(q, Done) \/ Goes(q, [Waiting EXCEPT !.pc = "match"])
              \/ \E n, obj : Goes(q, UpdateOf(n, obj))
          BY <3>5 DEF Get, Fails, Ends
        <4>2. CASE Goes(q, Done)
          BY <4>2 DEF Goes
        <4> QED
          BY <3>2, <3>4, <4>1, <4>2
      <3>6. CASE Match(q) \/ Fetched(q)
        <4>1. \/ Goes(q, Done) \/ Goes(q, [Waiting EXCEPT !.pc = "create"])
              \/ Goes(q, [Waiting EXCEPT !.pc = "fetched", !.list = store])
              \/ \E n, obj : Goes(q, UpdateOf(n, obj))
          BY <3>6 DEF Match, Fetched, Matches, Fails, Ends
        <4>2. CASE Goes(q, Done)
          BY <4>2 DEF Goes
        <4> QED
          BY <3>2, <3>3, <3>4, <4>1, <4>2
      <3> QED
        BY <1>8, <3>1, <3>5, <3>6
    <2> QED
      BY <1>2, <1>4, <1>7, <2>1, <2>2, <2>3
  <1>9. CASE DryRunHere(q) \/ Send(q) \/ Rejected(q) \/ RequestFails(q) \/ AnswerLost(q)
    <2>1. task' = [task EXCEPT ![q] = Done]
      BY <1>9 DEF DryRunHere, Send, Rejected, RequestFails, AnswerLost, Finishes, Fails, Ends, Goes
    <2> QED
      BY <1>7, <2>1, StepOfOne
  <1>10. CASE Replay(q) \/ Resend(q)
    <2>1. PICK t : /\ task' = [task EXCEPT ![q] = t] /\ t.pc = task[q].pc
                   /\ task[q].resent => t.resent
                   /\ UNCHANGED store \/ t.resent
      <3>1. CASE Replay(q)
        <4> DEFINE t == [task[q] EXCEPT !.tries = @ + 1]
        <4>1. task' = [task EXCEPT ![q] = t] /\ UNCHANGED store
          BY <3>1 DEF Replay, Goes, Server
        <4>2. t.pc = task[q].pc /\ t.resent = task[q].resent
          BY <1>1 DEF Tasks
        <4> QED
          BY <4>1, <4>2
      <3>2. CASE Resend(q)
        <4> DEFINE t == [task[q] EXCEPT !.resent = TRUE]
        <4>1. task' = [task EXCEPT ![q] = t]
          BY <3>2 DEF Resend, Goes
        <4>2. t.pc = task[q].pc /\ t.resent
          BY <1>1 DEF Tasks
        <4> QED
          BY <4>1, <4>2
      <3> QED
        BY <1>10, <3>1, <3>2
    <2>2. t \in Tasks /\ task[q].pc \in {"update", "create"} /\ Sending(q)
      BY <1>4, <1>10, <2>1 DEF Replay, Resend, Sends, Sending, At
    <2>3. HasActed(task[q]) => HasActed(t)
      BY <2>1 DEF HasActed
    <2>4. UNCHANGED store \/ (HasActed(t) /\ \E n \in Accepted(q) : Applied(q, n))
      BY <2>1, StepOfOne DEF HasActed
    <2> QED
      BY <1>2, <1>6, <2>1, <2>2, <2>3, <2>4
  <1> QED
    BY <1>8, <1>9, <1>10 DEF Step

\* A step of one manifest keeps the lists good, those of the others and its own.
LEMMA KStep ==
  ASSUME Alone, IInv, KInv, NEW q \in Batch, Step(q)
  PROVE  KInv'
  <1>1. PICK t \in Tasks :
          /\ task' = [task EXCEPT ![q] = t]
          /\ HasActed(task[q]) => HasActed(t)
          /\ t.pc \in {"waiting", "get", "match", "fetched"} => ~t.resent
          /\ \/ UNCHANGED store
             \/ /\ HasActed(t)
                /\ \E n \in Names :
                     store' = [store EXCEPT ![n] = [kind |-> Kind(q), key |-> batch[q].key,
                                                    rv |-> clock + 1, by |-> q]]
    BY Effect
  <1>2. UNCHANGED setting /\ push'.pc = push.pc
    BY Effect, StepOfOne
  <1>3. Batch' = Batch /\ batch' = batch /\ \A r \in Batch : Kind(r)' = Kind(r)
    BY <1>2 DEF Batch, batch, Kind
  <1>4. /\ task \in [Batch -> Tasks] /\ store \in Lists
        /\ task'[q] = t /\ \A r \in Batch : r # q => task'[r] = task[r]
        /\ cache \in [Kinds -> Lists \cup {None}] /\ \A r \in Batch : Kind(r) \in Kinds
    BY <1>1, Basics
  <1>5. \A list, k : Covers(list, k, store, task) => Covers(list, k, store', task')
    <2> SUFFICES ASSUME NEW list, NEW k, Covers(list, k, store, task) PROVE Covers(list, k, store', task')
      OBVIOUS
    <2> QED
      BY <1>1, <1>2, ListsStayGood
  <1>6. \A r \in Batch : task'[r].pc \in {"waiting", "get", "match", "fetched"} => ~task'[r].resent
    BY <1>1, <1>4 DEF KInv
  <1>7. ASSUME push.pc \in {"folders", "rest"}, NEW r \in Batch, Adapter(Kind(r))
        PROVE  /\ cache'[Kind(r)] # None => Covers(cache'[Kind(r)], Kind(r), store', task')
               /\ At(r, "fetched")' => Covers(task'[r].list, Kind(r), store', task')
               /\ At(r, "create")' => task'[r].resent \/ Absent(r)'
    <2>1. /\ cache[Kind(r)] # None => Covers(cache[Kind(r)], Kind(r), store, task)
          /\ At(r, "fetched") => Covers(task[r].list, Kind(r), store, task)
          /\ At(r, "create") => task[r].resent \/ Absent(r)
      BY <1>7 DEF KInv
    <2>2. ASSUME cache'[Kind(r)] # None
          PROVE  Covers(cache'[Kind(r)], Kind(r), store, task)
      <3>1. CASE cache'[Kind(r)] = cache[Kind(r)]
        BY <2>1, <2>2, <3>1
      <3>2. CASE cache'[Kind(r)] # cache[Kind(r)]
        <4>1. Fetched(q)
          BY <3>2 DEF Step, Launch, Get, Match, DryRunHere, Send, Replay, Rejected, RequestFails,
             AnswerLost, Resend
        <4>2. At(q, "fetched") /\ Kind(q) = Kind(r) /\ cache'[Kind(r)] = task[q].list
          BY <1>4, <3>2, <4>1 DEF Fetched
        <4>3. Covers(task[q].list, Kind(q), store, task)
          BY <1>7, <4>2 DEF KInv
        <4> QED
          BY <4>2, <4>3
      <3> QED
        BY <3>1, <3>2
    <2>3. ASSUME At(r, "fetched")'
          PROVE  Covers(task'[r].list, Kind(r), store', task')
      <3>1. CASE r # q
        <4>1. task'[r] = task[r]
          BY <1>4, <3>1
        <4>2. Covers(task'[r].list, Kind(r), store, task)
          BY <2>1, <2>3, <4>1 DEF At
        <4> QED
          BY <1>5, <4>2
      <3>2. CASE r = q
        <4>1. task'[r].pc = "fetched"
          BY <2>3 DEF At
        <4>2. Goes(r, [Waiting EXCEPT !.pc = "fetched", !.list = store]) /\ UNCHANGED store
          <5>1. ~Goes(r, Done) /\ \A n, obj : ~Goes(r, UpdateOf(n, obj))
            BY <1>4, <4>1, WaitingOK DEF Goes, UpdateOf, Waiting
          <5>2. \A s : Goes(r, [Waiting EXCEPT !.pc = s]) => s = "fetched"
            BY <1>4, <4>1 DEF Goes, Waiting
          <5>3. ~Fails(r) /\ \A how : ~Finishes(r, how)
            BY <5>1 DEF Fails, Finishes, Ends
          <5>4. ~Launch(r)
            BY <1>7, <5>2, <5>3 DEF Launch
          <5>5. ~Get(r) /\ ~Fetched(r)
            BY <5>1, <5>2, <5>3 DEF Get, Fetched, Matches
          <5>6. ~Replay(r)
            BY <1>7 DEF Replay, Adapter
          <5>7. ~Resend(r)
            <6>1. Resend(r) => task'[r].pc = task[r].pc
              BY <1>4 DEF Resend, Goes, Tasks
            <6> QED
              BY <4>1, <6>1 DEF Resend, Sends, Sending, At
          <5>8. ~DryRunHere(r) /\ ~Send(r) /\ ~Rejected(r) /\ ~RequestFails(r) /\ ~AnswerLost(r)
            BY <5>3 DEF DryRunHere, Send, Rejected, RequestFails, AnswerLost
          <5>9. Match(r)
            BY <3>2, <5>4, <5>5, <5>6, <5>7, <5>8 DEF Step
          <5> QED
            BY <5>2, <5>3, <5>1, <5>9 DEF Match, Matches, Server
        <4>3. task'[r].list = store'
          BY <1>4, <4>2 DEF Goes, Waiting
        <4> QED
          BY <4>3 DEF Covers, SameKey
      <3> QED
        BY <3>1, <3>2
    <2>4. ASSUME At(r, "create")'
          PROVE  task'[r].resent \/ Absent(r)'
      <3>1. CASE r # q
        <4>1. task'[r] = task[r]
          BY <1>4, <3>1
        <4>2. task[r].resent \/ Absent(r)
          BY <2>1, <2>4, <4>1 DEF At
        <4>3. ASSUME Absent(r) PROVE Absent(r)'
          <5> SUFFICES ASSUME NEW n \in Names, store'[n] # None
                       PROVE  ~SameKey(store'[n], batch[r])
            BY <1>3 DEF Absent
          <5>1. CASE store'[n] = store[n]
            BY <4>3, <5>1 DEF Absent
          <5>2. CASE store'[n] # store[n]
            <6>1. store'[n] = [kind |-> Kind(q), key |-> batch[q].key, rv |-> clock + 1, by |-> q]
              BY <1>1, <1>4, <5>2 DEF Lists
            <6>2. SameKey(store'[n], batch[r]) => SameKey(batch[r], batch[q])
              BY <6>1 DEF SameKey, Kind
            <6> QED
              BY <1>7, <3>1, <6>2, AloneHere
          <5> QED
            BY <5>1, <5>2
        <4> QED
          BY <4>1, <4>2, <4>3
      <3>2. CASE r = q
        <4>1. task'[r].pc = "create"
          BY <2>4 DEF At
        <4>2. CASE Resend(r)
          <5>1. task'[r].resent
            BY <1>4, <4>2 DEF Resend, Goes, Tasks
          <5> QED
            BY <5>1
        <4>3. CASE ~Resend(r)
          <5>1. ~Goes(r, Done)
            BY <1>4, <4>1, WaitingOK DEF Goes
          <5>2. \A s : Goes(r, [Waiting EXCEPT !.pc = s]) => s = "create"
            BY <1>4, <4>1 DEF Goes, Waiting
          <5>3. ~Fails(r) /\ \A how : ~Finishes(r, how)
            BY <5>1 DEF Fails, Finishes, Ends
          <5>4. ~Launch(r)
            BY <1>7, <5>2, <5>3 DEF Launch
          <5>5. ~Get(r)
            <6>1. \A n, obj : ~Goes(r, UpdateOf(n, obj))
              BY <1>4, <4>1 DEF Goes, UpdateOf, Waiting
            <6> QED
              BY <5>2, <5>3, <6>1 DEF Get
          <5>6. ~Replay(r)
            BY <1>7 DEF Replay, Adapter
          <5>7. ~DryRunHere(r) /\ ~Send(r) /\ ~Rejected(r) /\ ~RequestFails(r) /\ ~AnswerLost(r)
            BY <5>3 DEF DryRunHere, Send, Rejected, RequestFails, AnswerLost
          <5>8. Match(r) \/ Fetched(r)
            BY <3>2, <4>3, <5>4, <5>5, <5>6, <5>7 DEF Step
          <5>9. /\ task[r].pc \in {"match", "fetched"} /\ UNCHANGED store
            BY <5>8 DEF Match, Fetched, At, Server
          <5>10. PICK list : Matches(r, list) /\ Covers(list, Kind(r), store, task)
            <6>1. CASE Match(r)
              <7>1. HasKey(Kind(r)) /\ batch[r].key # None
                BY <1>7, AloneHere DEF HasKey
              <7>2. ~Goes(r, [Waiting EXCEPT !.pc = "fetched", !.list = store])
                BY <1>4, <4>1 DEF Goes, Waiting
              <7> QED
                BY <2>1, <6>1, <7>1, <7>2 DEF Match
            <6>2. CASE Fetched(r)
              <7>1. Matches(r, cache'[Kind(r)]) /\ At(r, "fetched")
                BY <6>2 DEF Fetched
              <7>2. Covers(cache'[Kind(r)], Kind(r), store, task)
                BY <1>4, <2>1, <6>2, <7>1 DEF Fetched
              <7> QED
                BY <7>1, <7>2
            <6> QED
              BY <5>8, <6>1, <6>2
          <5>11. Absent(r)
            BY <1>7, <4>1, <5>9, <5>10, CreatesWhatIsMissing, MissingMeansAbsent
          <5> QED
            BY <1>3, <5>9, <5>11 DEF Absent
        <4> QED
          BY <4>2, <4>3
      <3> QED
        BY <3>1, <3>2
    <2>5. cache'[Kind(r)] # None => Covers(cache'[Kind(r)], Kind(r), store', task')
      BY <1>5, <2>2
    <2> QED
      BY <2>3, <2>4, <2>5
  <1> QED
    BY <1>2, <1>3, <1>6, <1>7 DEF KInv, At, Covers

LEMMA KInit == Init => KInv
  BY WaitingOK DEF Init, KInv, NoPush, Waiting

LEMMA KNext ==
  ASSUME Alone, IInv, KInv, [Next]_vars
  PROVE  KInv'
  <1>1. CASE UNCHANGED vars
    BY <1>1 DEF vars, KInv, Absent, Covers, At, Kind, Batch, batch
  <1>2. ASSUME NEW stop \in BOOLEAN, StartPush(stop) \/ PreflightFails(stop) PROVE KInv'
    <2>1. /\ task' = [r \in Batch |-> Waiting] /\ UNCHANGED setting
          /\ push'.pc = "ended" \/ cache' = [k \in Kinds |-> None]
      BY <1>2 DEF StartPush, PreflightFails, CacheAtStart, NewCache, NoPush
    <2>2. Batch' = Batch /\ \A r \in Batch : Kind(r)' = Kind(r)
      BY <2>1 DEF Batch, batch, Kind
    <2>3. \A r \in Batch : task'[r].pc = "waiting" /\ task'[r].resent = FALSE
      BY <2>1 DEF Waiting
    <2>4. \A r \in Batch : push'.pc # "ended" => cache'[Kind(r)] = None
      BY <2>1, Basics
    <2> QED
      BY <2>2, <2>3, <2>4 DEF KInv, At
  <1>3. CASE EndPhase \/ Interrupt
    <2>1. /\ UNCHANGED <<setting, task, cache, store>>
          /\ push.pc \in {"folders", "rest"}
      BY <1>3 DEF EndPhase, Interrupt
    <2> QED
      BY <2>1 DEF KInv, Absent, Covers, At, Kind, Batch, batch
  <1>4. ASSUME NEW q \in Batch, Step(q) PROVE KInv'
    BY <1>4, KStep
  <1>5. ASSUME NEW n \in Names, Foreign(n) PROVE KInv'
    <2>1. UNCHANGED <<setting, push, task>>
      BY <1>5 DEF Foreign
    <2>2. \A r \in Batch : ~Adapter(Kind(r))
      BY <1>5, NobodyElse
    <2> QED
      BY <2>1, <2>2 DEF KInv, At, Kind, Batch, batch
  <1> QED
    BY <1>1, <1>2, <1>3, <1>4, <1>5 DEF Next

\* upsertResource: a push creates an object only where the server has none with
\* that natural key, whichever answers were lost in this push or an earlier
\* one, unless the transport has sent the creation twice by itself. Adapters
\* check no version, so this needs manifests with keys of their own and nobody
\* else who creates objects meanwhile; for native kinds it needs nothing.
THEOREM NoSecondCopyHolds ==
  ASSUME Alone
  PROVE  Spec => NoSecondCopy
  <1>1. Spec => [](IInv /\ KInv)
    <2>1. IInv /\ KInv /\ [Next]_vars => (IInv /\ KInv)'
      BY NextOK, KNext
    <2> QED
      BY <2>1, InitOK, KInit, PTL DEF Spec
  <1>2. ASSUME IInv, KInv, [Next]_vars
        PROVE  [\A n \in Names : store[n] = None /\ store'[n] # None /\ HasKey(store'[n].kind)
                                 /\ foreign' = foreign =>
                  \/ \A m \in Names : store[m] # None => ~SameKey(store[m], store'[n])
                  \/ task[store'[n].by].resent]_vars
    <2> SUFFICES ASSUME Next, NEW n \in Names, store[n] = None, store'[n] # None,
                        HasKey(store'[n].kind), foreign' = foreign
                 PROVE  \/ \A m \in Names : store[m] # None => ~SameKey(store[m], store'[n])
                        \/ task[store'[n].by].resent
      BY <1>2
    <2>1. ~EndPhase /\ ~Interrupt /\ \A stop \in BOOLEAN : ~StartPush(stop) /\ ~PreflightFails(stop)
      BY DEF EndPhase, Interrupt, StartPush, PreflightFails
    <2>2. \A m \in Names : ~Foreign(m)
      BY <1>2 DEF Foreign, IInv, Types, TypeOK
    <2>3. PICK q \in Batch : Step(q)
      BY <2>1, <2>2 DEF Next
    <2>4. PICK o \in Accepted(q) : Applied(q, o) /\ Sends(q)
      BY <1>2, <2>3, StepOfOne
    <2>5. store' = [store EXCEPT ![o] = [kind |-> Kind(q), key |-> batch[q].key,
                                         rv |-> clock + 1, by |-> q]]
      BY <2>4 DEF Applied
    <2>6. o = n /\ store'[n] = [kind |-> Kind(q), key |-> batch[q].key,
                                rv |-> clock + 1, by |-> q]
      BY <1>2, <2>5, Basics DEF Lists
    <2>7. At(q, "create") /\ n \in NewNames(q)
      BY <2>4, <2>6 DEF Accepted, Sends, Sending
    <2>8. store'[n].kind = Kind(q) /\ store'[n].key = batch[q].key /\ store'[n].by = q
      BY <2>6
    <2>9. CASE Kind(q) = "native"
      BY <2>7, <2>8, <2>9 DEF NewNames, SameKey, HasKey
    <2>10. CASE Adapter(Kind(q))
      <3>1. push.pc \in {"folders", "rest"}
        BY <1>2, <2>4, SendingInTurn DEF Sends, Phase
      <3>2. task[q].resent \/ Absent(q)
        BY <1>2, <2>7, <2>10, <3>1 DEF KInv
      <3> QED
        BY <2>8, <3>2 DEF Absent, SameKey, Kind
    <2> QED
      BY <2>8, <2>9, <2>10 DEF HasKey
  <1> QED
    BY <1>1, <1>2, PTL DEF Spec, NoSecondCopy

-------------------------------------------------------------------------------
(* What was pushed is there *)

\* Object n is what manifest r is about.
IsOf(r, n) ==
  /\ store[n] # None /\ store[n].kind = Kind(r)
  /\ IF HasKey(Kind(r)) THEN store[n].key = batch[r].key ELSE n = batch[r].name

\* What is in a list is still there, and is still the same object.
Remains(list) ==
  \A n \in Names : list[n] # None =>
    /\ store[n] # None /\ store[n].kind = list[n].kind
    /\ HasKey(list[n].kind) => store[n].key = list[n].key

\* What an adapter has under the name in a manifest is the object of its key.
NameAgrees(r) ==
  LET n == batch[r].name
  IN  n # None => /\ n \notin setting.assignable
                  /\ store[n] # None /\ store[n].kind = Kind(r) => store[n].key = batch[r].key

SInv ==
  /\ push.pc # "idle" => push.dry = setting.dry
  /\ push.dry => setting.dry
  /\ \A f \in Folders : outcome[f] # "none" => f \in Nodes
  /\ ~setting.dry /\ foreign = 0 =>
       /\ \A k \in Kinds : cache[k] # None => Remains(cache[k])
       /\ \A r \in Batch :
            /\ At(r, "fetched") => HasKey(Kind(r)) /\ Remains(task[r].list)
            /\ At(r, "update") => IsOf(r, task[r].to)
            /\ Adapter(Kind(r)) => NameAgrees(r)
            /\ outcome[r] = "ok" => \E n \in Names : IsOf(r, n) /\ store[n].by = r

\* What the assumption says of the setting that is used.
LEMMA DistinctHere ==
  ASSUME Distinct, IInv, ~setting.dry, NEW r \in Batch
  PROVE  /\ \A q \in Batch :
              IF HasKey(Kind(r)) THEN SameKey(batch[r], batch[q]) => q = r
              ELSE r \notin Folders /\ Kind(r) = Kind(q) /\ batch[r].name = batch[q].name => q = r
         /\ Adapter(Kind(r)) /\ batch[r].name # None =>
              /\ batch[r].name \notin setting.assignable
              /\ setting.store[batch[r].name] # None
                 /\ setting.store[batch[r].name].kind = Kind(r) =>
                   setting.store[batch[r].name].key = batch[r].key
  <1>1. setting \in Settings
    BY Basics
  <1> QED
    BY <1>1 DEF Distinct, Batch, batch, Kind, Folders, SameKey

\* Objects stay what they are.
Stays == \A n \in Names : store[n] # None =>
           /\ store'[n] # None /\ store'[n].kind = store[n].kind
           /\ HasKey(store[n].kind) => store'[n].key = store[n].key

\* What is in a list, or is the object of a manifest, after a step.
RemainsNext(list) ==
  \A n \in Names : list[n] # None =>
    /\ store'[n] # None /\ store'[n].kind = list[n].kind
    /\ HasKey(list[n].kind) => store'[n].key = list[n].key

IsOfNext(r, n) ==
  /\ store'[n] # None /\ store'[n].kind = Kind(r)
  /\ IF HasKey(Kind(r)) THEN store'[n].key = batch[r].key ELSE n = batch[r].name

LEMMA StaysOf == ASSUME Stays, NEW r, NEW n \in Names, IsOf(r, n) PROVE IsOfNext(r, n)
  BY DEF Stays, IsOf, IsOfNext

LEMMA StaysRemains == ASSUME Stays, NEW list, Remains(list) PROVE RemainsNext(list)
  BY DEF Stays, Remains, RemainsNext

\* A request of q takes effect on its own object.
LEMMA OwnObject ==
  ASSUME IInv, SInv, ~setting.dry, foreign = 0,
         NEW q \in Batch, Sends(q), NEW n \in Accepted(q), Applied(q, n)
  PROVE  /\ n \in Names /\ q \in Phase /\ Stays
         /\ store' = [store EXCEPT ![n] = [kind |-> Kind(q), key |-> batch[q].key,
                                           rv |-> clock + 1, by |-> q]]
         /\ store'[n].kind = Kind(q) /\ store'[n].key = batch[q].key /\ store'[n].by = q
         /\ store'[n] # None
         /\ ~HasKey(Kind(q)) => n = batch[q].name
         /\ \/ store[n] # None /\ IsOf(q, n)
            \/ store[n] = None /\ (HasKey(Kind(q)) => n \in setting.assignable)
  <1>1. q \in Phase /\ Sending(q) /\ (At(q, "update") \/ At(q, "create"))
    BY SendingInTurn DEF Sends
  <1>2. ~push.dry /\ store \in Lists /\ batch[q] \in Manifest
    BY <1>1, Basics DEF SInv, Phase
  <1>3. /\ n \in Names
        /\ ~HasKey(Kind(q)) => n = batch[q].name
        /\ \/ store[n] # None /\ IsOf(q, n)
           \/ store[n] = None /\ (HasKey(Kind(q)) => n \in setting.assignable)
    <2>1. CASE At(q, "create")
      BY <1>2, <2>1, Given, Basics DEF Accepted, NewNames, Manifest
    <2>2. CASE At(q, "update")
      <3>1. n = task[q].to /\ store[n] # None
        BY <2>2 DEF Accepted, At
      <3>2. IsOf(q, n) /\ n \in Names
        BY <2>2, <3>1 DEF SInv, IInv, Addressed
      <3> QED
        BY <3>1, <3>2 DEF IsOf
    <2> QED
      BY <1>1, <2>1, <2>2
  <1>4. store' = [store EXCEPT ![n] = [kind |-> Kind(q), key |-> batch[q].key,
                                       rv |-> clock + 1, by |-> q]]
    BY <1>2 DEF Applied
  <1>5. store'[n] = [kind |-> Kind(q), key |-> batch[q].key, rv |-> clock + 1, by |-> q]
        /\ \A m \in Names \ {n} : store'[m] = store[m]
    BY <1>2, <1>3, <1>4 DEF Lists
  <1>6. \A m \in Names : store[m] # None => store'[m] # None
    BY <1>1, AppliedOK DEF Grows
  <1>7. store'[n] # None
    <2>1. [kind |-> Kind(q), key |-> batch[q].key, rv |-> clock + 1, by |-> q] \in Objects
      BY Basics, Given DEF Objects, Manifest
    <2> QED
      BY <1>5, <2>1, PushConstantsOK
  <1>8. Stays
    BY <1>3, <1>5, <1>6 DEF Stays, IsOf
  <1> QED
    BY <1>1, <1>3, <1>4, <1>5, <1>7, <1>8

LEMMA StepUnfinished == ASSUME IInv, NEW q \in Batch, Step(q) PROVE ~At(q, "done")
  BY DEF Step, Launch, Get, Match, Fetched, DryRunHere, Send, Replay, Rejected, RequestFails,
     AnswerLost, Resend, Sends, Sending, At

\* A step of a manifest leaves the push what it is.
LEMMA PushOfStep ==
  ASSUME IInv, NEW q \in Batch, Step(q)
  PROVE  /\ push' = push \/ push' = [push EXCEPT !.cancelled = TRUE, !.error = TRUE]
         /\ q \in Phase
         /\ \E o : outcome' = [outcome EXCEPT ![q] = o]
         /\ outcome'[q] = "ok" => Send(q) \/ DryRunHere(q) \/ outcome[q] = "ok"
  <1>1. outcome = [outcome EXCEPT ![q] = outcome[q]] /\ DOMAIN outcome = Batch
    BY DEF IInv, Types, TypeOK
  <1>2. q \in Phase
    <2>1. Launch(q) => q \in Phase
      BY DEF Launch
    <2>2. ~Launch(q) => UnderWay(q)
      BY DEF Step, Get, Match, Fetched, DryRunHere, Send, Replay, Rejected, RequestFails,
         AnswerLost, Resend, Sends, Sending, At, UnderWay
    <2> QED
      BY <2>1, <2>2, InTurn
  <1>3. CASE Fails(q)
    BY <1>1, <1>3, <1>2 DEF Fails, Ends
  <1>4. ASSUME NEW how, Finishes(q, how)
        PROVE  /\ push' = push /\ outcome' = [outcome EXCEPT ![q] = how] /\ outcome'[q] = how
    BY <1>1, <1>4 DEF Finishes, Ends
  <1>5. CASE Launch(q)
    BY <1>1, <1>3, <1>4, <1>2, <1>5 DEF Launch
  <1>6. CASE Get(q) \/ Match(q) \/ Fetched(q)
    <2>1. Fails(q) \/ UNCHANGED <<push, outcome>>
      BY <1>6 DEF Get, Match, Fetched, Matches
    <2> QED
      BY <1>1, <1>3, <1>2, <2>1
  <1>7. CASE Replay(q) \/ Resend(q)
    BY <1>1, <1>2, <1>7 DEF Replay, Resend
  <1>8. CASE Rejected(q) \/ RequestFails(q) \/ AnswerLost(q)
    BY <1>3, <1>2, <1>8 DEF Rejected, RequestFails, AnswerLost
  <1>9. CASE DryRunHere(q) \/ Send(q)
    BY <1>4, <1>2, <1>9 DEF DryRunHere, Send
  <1> QED
    BY <1>5, <1>6, <1>7, <1>8, <1>9 DEF Step

\* What q will update is its own object, in what is there before the step; what
\* it has fetched is what is there.
Aims(q, t) == /\ t.pc = "update" => IsOf(q, t.to)
              /\ t.pc = "fetched" => HasKey(Kind(q)) /\ t.list = store /\ UNCHANGED store

LEMMA MatchesAim ==
  ASSUME IInv, NEW q \in Batch, HasKey(Kind(q)), NEW list \in Lists, Remains(list),
         Matches(q, list)
  PROVE  \E t : Goes(q, t) /\ Aims(q, t)
  <1> DEFINE M == { n \in Names : /\ list[n] # None /\ list[n].kind = Kind(q)
                                  /\ list[n].key = batch[q].key }
  <1>1. CASE Fails(q)
    BY <1>1, WaitingOK DEF Fails, Ends, Aims
  <1>2. CASE Goes(q, [Waiting EXCEPT !.pc = "create"])
    <2>1. [Waiting EXCEPT !.pc = "create"].pc = "create"
      BY ToCreate
    <2> QED
      BY <1>2, <2>1 DEF Aims
  <1>3. CASE \E n \in M : Goes(q, UpdateOf(n, list[n]))
    <2>1. PICK n \in M : Goes(q, UpdateOf(n, list[n]))
      BY <1>3
    <2>2. IsOf(q, n)
      BY <2>1 DEF IsOf, Remains
    <2>3. UpdateOf(n, list[n]).pc = "update" /\ UpdateOf(n, list[n]).to = n
      BY DEF UpdateOf, Waiting
    <2> QED
      BY <2>1, <2>2, <2>3 DEF Aims
  <1> QED
    BY <1>1, <1>2, <1>3 DEF Matches

LEMMA StepAims ==
  ASSUME Distinct, IInv, SInv, ~setting.dry, foreign = 0, NEW q \in Batch, Step(q)
  PROVE  /\ \E t : Goes(q, t) /\ (Aims(q, t) \/ (t.pc = "update" /\ At(q, "update") /\ t.to = task[q].to))
         /\ \A k \in Kinds : cache'[k] # None => Remains(cache'[k])
  <1>1. /\ task \in [Batch -> Tasks] /\ store \in Lists /\ Kind(q) \in Kinds
        /\ cache \in [Kinds -> Lists \cup {None}]
        /\ \A k \in Kinds : cache[k] # None => Remains(cache[k])
    BY Basics DEF SInv
  <1>2. ASSUME NEW s \in {"get", "match", "create"}, Goes(q, [Waiting EXCEPT !.pc = s])
        PROVE  \E t : Goes(q, t) /\ Aims(q, t)
    <2>1. [Waiting EXCEPT !.pc = s].pc = s
      BY DEF Waiting
    <2> QED
      BY <1>2, <2>1 DEF Aims
  <1>3. ASSUME Goes(q, Done)
        PROVE  \E t : Goes(q, t) /\ Aims(q, t)
    BY <1>3, WaitingOK DEF Aims
  <1>4. CASE Launch(q)
    <2>1. UNCHANGED cache
      BY <1>4 DEF Launch
    <2>2. Goes(q, Done) \/ \E s \in {"get", "match"} : Goes(q, [Waiting EXCEPT !.pc = s])
      BY <1>4 DEF Launch, Finishes, Fails, Ends
    <2> QED
      BY <1>1, <1>2, <1>3, <2>1, <2>2
  <1>5. CASE Get(q)
    <2> DEFINE n == batch[q].name
               u == UpdateOf(n, store[n])
    <2>1. UNCHANGED cache /\ At(q, "get") /\ n \in Names
      BY <1>5 DEF Get, IInv, Addressed
    <2>2. CASE FoundByName(q) /\ Goes(q, u)
      <3>1. n # None
        BY <2>1, PushConstantsOK
      <3>2. store[n] # None /\ store[n].kind = Kind(q) /\ (Kind(q) = "native" => store[n].key = batch[q].key)
        BY <2>2 DEF FoundByName
      <3>3. Adapter(Kind(q)) => store[n].key = batch[q].key
        BY <3>1, <3>2 DEF SInv, NameAgrees
      <3>4. IsOf(q, n)
        BY <3>2, <3>3 DEF IsOf, HasKey
      <3>5. u.pc = "update" /\ u.to = n
        BY DEF UpdateOf, Waiting
      <3>6. Aims(q, u)
        BY <3>4, <3>5 DEF Aims
      <3> QED
        BY <1>1, <2>1, <2>2, <3>6
    <2>3. CASE Goes(q, Done) \/ Goes(q, [Waiting EXCEPT !.pc = "match"])
      BY <1>1, <1>2, <1>3, <2>1, <2>3
    <2> QED
      BY <1>5, <2>2, <2>3 DEF Get, Fails, Ends
  <1>6. CASE Match(q)
    <2>1. UNCHANGED cache /\ UNCHANGED store
      BY <1>6 DEF Match, Server
    <2>2. CASE Goes(q, [Waiting EXCEPT !.pc = "create"])
      BY <1>1, <1>2, <2>1, <2>2
    <2>3. CASE HasKey(Kind(q)) /\ cache[Kind(q)] # None /\ Matches(q, cache[Kind(q)])
      <3>1. cache[Kind(q)] \in Lists /\ Remains(cache[Kind(q)])
        BY <1>1, <2>3
      <3> QED
        BY <1>1, <2>1, <2>3, <3>1, MatchesAim
    <2>4. CASE HasKey(Kind(q)) /\ Goes(q, [Waiting EXCEPT !.pc = "fetched", !.list = store])
      <3> DEFINE t == [Waiting EXCEPT !.pc = "fetched", !.list = store]
      <3>1. t.pc = "fetched" /\ t.list = store
        BY DEF Waiting
      <3>2. Aims(q, t)
        BY <2>1, <2>4, <3>1 DEF Aims
      <3> QED
        BY <1>1, <2>1, <2>4, <3>2
    <2> QED
      BY <1>6, <2>2, <2>3, <2>4 DEF Match
  <1>7. CASE Fetched(q)
    <2>1. /\ At(q, "fetched") /\ HasKey(Kind(q)) /\ Remains(task[q].list)
          /\ task[q].list \in Lists
      BY <1>7 DEF Fetched, SInv, IInv, Versions
    <2>2. /\ cache' = IF cache[Kind(q)] # None THEN cache
                      ELSE [cache EXCEPT ![Kind(q)] = task[q].list]
          /\ Matches(q, cache'[Kind(q)])
      BY <1>7 DEF Fetched
    <2>3. \A k \in Kinds : cache'[k] # None => Remains(cache'[k])
      BY <1>1, <2>1, <2>2
    <2>4. cache'[Kind(q)] \in Lists /\ Remains(cache'[Kind(q)])
      BY <1>1, <2>1, <2>2
    <2> QED
      BY <2>1, <2>2, <2>3, <2>4, MatchesAim
  <1>8. CASE DryRunHere(q) \/ Send(q) \/ Rejected(q) \/ RequestFails(q) \/ AnswerLost(q)
    <2>1. UNCHANGED cache /\ Goes(q, Done)
      BY <1>8 DEF DryRunHere, Send, Rejected, RequestFails, AnswerLost, Finishes, Fails, Ends
    <2> QED
      BY <1>1, <1>3, <2>1
  <1>9. CASE Replay(q) \/ Resend(q)
    <2>1. UNCHANGED cache /\ Sending(q)
      BY <1>9 DEF Replay, Resend, Sends
    <2>2. PICK t : Goes(q, t) /\ t.pc = task[q].pc /\ t.to = task[q].to
      <3>1. CASE Replay(q)
        <4> DEFINE t == [task[q] EXCEPT !.tries = @ + 1]
        <4>1. t.pc = task[q].pc /\ t.to = task[q].to
          BY <1>1 DEF Tasks
        <4> QED
          BY <3>1, <4>1 DEF Replay
      <3>2. CASE Resend(q)
        <4> DEFINE t == [task[q] EXCEPT !.resent = TRUE]
        <4>1. t.pc = task[q].pc /\ t.to = task[q].to
          BY <1>1 DEF Tasks
        <4> QED
          BY <3>2, <4>1 DEF Resend
      <3> QED
        BY <1>9, <3>1, <3>2
    <2>3. t.pc = "create" \/ (t.pc = "update" /\ At(q, "update"))
      BY <2>1, <2>2 DEF Sending, At
    <2> QED
      BY <1>1, <2>1, <2>2, <2>3 DEF Aims
  <1> QED
    BY <1>4, <1>5, <1>6, <1>7, <1>8, <1>9 DEF Step

\* A step of one manifest keeps what the others rely on, and what they have stored.
LEMMA SStep ==
  ASSUME Distinct, IInv, SInv, NEW q \in Batch, Step(q)
  PROVE  SInv'
  <1>1. /\ UNCHANGED <<setting, foreign>>
        /\ UNCHANGED store \/ (Sends(q) /\ \E n \in Accepted(q) : Applied(q, n))
        /\ \A r \in Batch : r # q => task'[r] = task[r]
    BY StepOfOne
  <1>2. /\ push'.pc = push.pc /\ push'.dry = push.dry /\ Nodes' = Nodes
        /\ Batch' = Batch /\ batch' = batch /\ Folders' = Folders
        /\ \A r \in Batch : Kind(r)' = Kind(r)
    BY <1>1, PushOfStep, PushKept DEF Kind
  <1>3. /\ task \in [Batch -> Tasks] /\ store \in Lists /\ Folders \subseteq Batch
        /\ \A r \in Batch : r # q => outcome'[r] = outcome[r]
        /\ q \in Phase
    BY Basics, PushOfStep DEF IInv, Types, TypeOK
  <1>4. q \in Folders => q \in Nodes
    BY <1>3 DEF Phase, Nodes
  <1>5. \A f \in Folders : outcome'[f] # "none" => f \in Nodes
    BY <1>3, <1>4 DEF SInv
  <1>6. ASSUME ~setting.dry, foreign = 0
        PROVE  /\ \A k \in Kinds : cache'[k] # None => RemainsNext(cache'[k])
               /\ \A r \in Batch :
                    /\ At(r, "fetched")' => HasKey(Kind(r)) /\ RemainsNext(task'[r].list)
                    /\ At(r, "update")' => IsOfNext(r, task'[r].to)
                    /\ Adapter(Kind(r)) => NameAgrees(r)'
                    /\ outcome'[r] = "ok" => \E n \in Names : IsOfNext(r, n) /\ store'[n].by = r
    <2>1. Stays
      <3>1. UNCHANGED store => Stays
        BY DEF Stays
      <3> QED
        BY <1>1, <1>6, <3>1, OwnObject
    <2>2. \A k \in Kinds : cache'[k] # None => RemainsNext(cache'[k])
      BY <1>6, <2>1, StepAims, StaysRemains
    <2>3. PICK t : /\ Goes(q, t)
                   /\ Aims(q, t) \/ (t.pc = "update" /\ At(q, "update") /\ t.to = task[q].to)
      BY <1>6, StepAims
    <2>4. task'[q] = t /\ IInv'
      BY <1>3, <2>3, NextOK DEF Goes, Next
    <2>5. ASSUME NEW r \in Batch
          PROVE  /\ At(r, "fetched")' => HasKey(Kind(r)) /\ RemainsNext(task'[r].list)
                 /\ At(r, "update")' => IsOfNext(r, task'[r].to)
      <3>1. CASE r # q
        <4>1. task'[r] = task[r]
          BY <1>1, <3>1
        <4>2. At(r, "fetched") => HasKey(Kind(r)) /\ RemainsNext(task[r].list)
          BY <1>6, <2>1, StaysRemains DEF SInv
        <4>3. At(r, "update") => IsOf(r, task[r].to) /\ task[r].to \in Names
          BY <1>6 DEF SInv, IInv, Addressed
        <4>4. At(r, "update") => IsOfNext(r, task[r].to)
          BY <2>1, <4>3, StaysOf
        <4> QED
          BY <4>1, <4>2, <4>4 DEF At
      <3>2. CASE r = q
        <4>1. At(q, "fetched")' => HasKey(Kind(q)) /\ task'[q].list = store'
          BY <2>3, <2>4 DEF At, Aims
        <4>2. At(q, "update")' => IsOf(q, task'[q].to) /\ task'[q].to \in Names
          BY <1>2, <1>6, <2>3, <2>4 DEF At, Aims, SInv, IInv, Addressed
        <4>3. At(q, "update")' => IsOfNext(q, task'[q].to)
          BY <2>1, <4>2, StaysOf
        <4>4. RemainsNext(store')
          BY DEF RemainsNext
        <4> QED
          BY <3>2, <4>1, <4>3, <4>4
      <3> QED
        BY <3>1, <3>2
    <2>6. ASSUME NEW r \in Batch, Adapter(Kind(r))
          PROVE  NameAgrees(r)'
      <3> DEFINE n == batch[r].name
      <3>1. NameAgrees(r)
        BY <1>6, <2>6 DEF SInv
      <3>2. CASE UNCHANGED store
        BY <1>1, <1>2, <3>1, <3>2 DEF NameAgrees
      <3>3. ASSUME NEW o \in Accepted(q), Sends(q), Applied(q, o)
            PROVE  NameAgrees(r)'
        <4>1. CASE o # n
          <5>1. store'[n] = store[n] \/ n \notin Names
            BY <1>3, <1>6, <3>3, <4>1, OwnObject DEF Lists
          <5>2. n = None \/ n \in Names
            BY Basics DEF Manifest
          <5> QED
            BY <1>1, <1>2, <3>1, <5>1, <5>2 DEF NameAgrees
        <4>2. CASE o = n
          <5>1. SUFFICES ASSUME n # None, Kind(q) = Kind(r)
                         PROVE  batch[q].key = batch[r].key
            BY <1>1, <1>2, <1>6, <3>1, <3>3, <4>2, OwnObject DEF NameAgrees
          <5>2. CASE store[n] # None /\ IsOf(q, n)
            BY <2>6, <3>1, <5>1, <5>2 DEF IsOf, NameAgrees, HasKey
          <5>3. CASE store[n] = None /\ (HasKey(Kind(q)) => n \in setting.assignable)
            BY <2>6, <3>1, <5>1, <5>3 DEF NameAgrees, HasKey
          <5> QED
            BY <1>6, <3>3, <4>2, <5>2, <5>3, OwnObject
        <4> QED
          BY <4>1, <4>2
      <3> QED
        BY <1>1, <3>2, <3>3
    <2>7. ASSUME NEW r \in Batch, outcome'[r] = "ok"
          PROVE  \E n \in Names : IsOfNext(r, n) /\ store'[n].by = r
      <3>1. CASE r # q
        <4>1. PICK n \in Names : IsOf(r, n) /\ store[n].by = r /\ outcome[r] = "ok"
          BY <1>3, <1>6, <2>7, <3>1 DEF SInv
        <4>2. IsOfNext(r, n)
          BY <4>1, <2>1, StaysOf
        <4>3. CASE UNCHANGED store
          BY <4>1, <4>2, <4>3
        <4>4. ASSUME NEW o \in Accepted(q), Sends(q), Applied(q, o)
              PROVE  store'[n].by = r
          <5>1. CASE o # n
            <6>1. store'[n] = store[n]
              BY <1>3, <1>6, <4>4, <5>1, OwnObject DEF Lists
            <6> QED
              BY <4>1, <6>1
          <5>2. CASE o = n
            <6>1. IsOf(q, n)
              BY <1>6, <4>1, <4>4, <5>2, OwnObject DEF IsOf
            <6>2. Kind(q) = Kind(r)
              BY <4>1, <6>1 DEF IsOf
            <6>3. IF HasKey(Kind(r)) THEN SameKey(batch[r], batch[q])
                  ELSE batch[r].name = batch[q].name
              BY <4>1, <6>1, <6>2 DEF IsOf, SameKey, Kind
            <6>4. CASE r \in Folders
              <7>1. q \in Folders /\ ~HasKey(Kind(r))
                BY <6>2, <6>4, KeyedAreNoFolders DEF Folders, Kind
              <7>2. r \in Nodes /\ q \in Nodes /\ Nodes \in NodeSets
                BY <1>3, <1>4, <4>1, <6>4, <7>1 DEF SInv, IInv, Ordered, Phase
              <7> QED
                BY <3>1, <6>3, <7>1, <7>2 DEF NodeSets
            <6>5. CASE r \notin Folders
              BY <1>6, <3>1, <6>2, <6>3, <6>5, DistinctHere
            <6> QED
              BY <6>4, <6>5
          <5> QED
            BY <5>1, <5>2
        <4> QED
          BY <1>1, <4>1, <4>2, <4>3, <4>4
      <3>2. CASE r = q
        <4>1. ~push.dry
          BY <1>3, <1>6 DEF SInv
        <4>2. outcome[q] # "ok"
          BY StepUnfinished DEF IInv, Outcomes
        <4>3. Send(q)
          BY <2>7, <3>2, <4>1, <4>2, PushOfStep DEF DryRunHere
        <4>4. PICK o \in Accepted(q) : Applied(q, o) /\ Sends(q)
          BY <4>3 DEF Send
        <4>5. o \in Names /\ store'[o] # None /\ store'[o].kind = Kind(q)
              /\ store'[o].key = batch[q].key /\ store'[o].by = q
              /\ (~HasKey(Kind(q)) => o = batch[q].name)
          BY <1>6, <4>4, OwnObject
        <4>6. IsOfNext(q, o)
          BY <4>5 DEF IsOfNext
        <4> QED
          BY <3>2, <4>5, <4>6
      <3> QED
        BY <3>1, <3>2
    <2> QED
      BY <2>2, <2>5, <2>6, <2>7
  <1>7. ASSUME ~setting'.dry, foreign' = 0
        PROVE  /\ \A k \in Kinds : cache'[k] # None => Remains(cache[k])'
               /\ \A r \in Batch :
                    /\ At(r, "fetched")' => HasKey(Kind(r)) /\ Remains(task[r].list)'
                    /\ At(r, "update")' => IsOf(r, task[r].to)'
                    /\ Adapter(Kind(r)) => NameAgrees(r)'
                    /\ outcome'[r] = "ok" => \E n \in Names : IsOf(r, n)' /\ store'[n].by = r
    <2>1. \A r \in Batch : \A n : IsOfNext(r, n) <=> IsOf(r, n)'
      BY <1>2 DEF IsOf, IsOfNext
    <2>2. \A r \in Batch : IsOfNext(r, task'[r].to) <=> IsOf(r, task[r].to)'
      BY <1>2 DEF IsOf, IsOfNext
    <2>3. \A k \in Kinds : RemainsNext(cache'[k]) <=> Remains(cache[k])'
      BY DEF Remains, RemainsNext
    <2>4. \A r \in Batch : RemainsNext(task'[r].list) <=> Remains(task[r].list)'
      BY DEF Remains, RemainsNext
    <2> QED
      BY <1>1, <1>6, <1>7, <2>1, <2>2, <2>3, <2>4
  <1> QED
    BY <1>1, <1>2, <1>5, <1>7 DEF SInv

LEMMA SInit == ASSUME Distinct PROVE Init => SInv
  <1> SUFFICES ASSUME Init PROVE SInv
    OBVIOUS
  <1>1. IInv
    BY InitOK
  <1>2. /\ push.pc = "idle" /\ push.dry = FALSE /\ cache = NewCache /\ store = setting.store
        /\ task = [r \in Batch |-> Waiting] /\ outcome = [r \in Batch |-> "none"]
    BY DEF Init, NoPush
  <1>3. \A r \in Batch : task[r].pc = "waiting" /\ outcome[r] = "none"
    BY <1>2, WaitingOK
  <1>4. \A k \in Kinds : cache[k] = None
    BY <1>2 DEF NewCache
  <1>5. ~setting.dry => \A r \in Batch : Adapter(Kind(r)) => NameAgrees(r)
    BY <1>1, <1>2, DistinctHere DEF NameAgrees
  <1> QED
    BY <1>2, <1>3, <1>4, <1>5 DEF SInv, At, Folders

LEMMA SNext ==
  ASSUME Distinct, IInv, SInv, [Next]_vars
  PROVE  SInv'
  <1>1. CASE UNCHANGED vars
    BY <1>1 DEF vars, SInv, Nodes, Folders, Batch, batch, Kind, At, Remains, IsOf, NameAgrees
  <1>2. ASSUME NEW stop \in BOOLEAN, StartPush(stop) \/ PreflightFails(stop) PROVE SInv'
    <2>1. /\ task' = [r \in Batch |-> Waiting] /\ outcome' = [r \in Batch |-> "none"]
          /\ UNCHANGED <<setting, store, foreign>>
          /\ push'.dry = setting.dry
          /\ cache' = NewCache \/ cache' = cache
      <3>1. CASE StartPush(stop)
        BY <3>1 DEF StartPush, CacheAtStart, NoPush
      <3>2. CASE PreflightFails(stop)
        BY <3>2, Basics, Given DEF PreflightFails, NoPush
      <3> QED
        BY <1>2, <3>1, <3>2
    <2>2. Batch' = Batch /\ batch' = batch /\ Folders' = Folders /\ \A r \in Batch : Kind(r)' = Kind(r)
      BY <2>1 DEF Batch, batch, Folders, Kind
    <2>3. \A r \in Batch : task'[r].pc = "waiting" /\ outcome'[r] = "none"
      BY <2>1, WaitingOK
    <2>4. \A k \in Kinds : cache'[k] = None \/ cache'[k] = cache[k]
      BY <2>1 DEF NewCache
    <2>5. \A k \in Kinds : Remains(cache[k]) <=> RemainsNext(cache[k])
      BY <2>1 DEF Remains, RemainsNext
    <2>6. \A k \in Kinds : Remains(cache[k])' <=> RemainsNext(cache'[k])
      BY DEF Remains, RemainsNext
    <2>7. \A r \in Batch : NameAgrees(r)' <=> NameAgrees(r)
      BY <2>1, <2>2 DEF NameAgrees
    <2>8. ~setting'.dry /\ foreign' = 0 => ~setting.dry /\ foreign = 0
      BY <2>1
    <2> QED
      BY <2>1, <2>2, <2>3, <2>4, <2>5, <2>6, <2>7, <2>8 DEF SInv, At, Folders
  <1>3. CASE EndPhase \/ Interrupt
    <2>1. UNCHANGED <<setting, task, outcome, cache, store, foreign>> /\ push.pc # "idle"
      BY <1>3 DEF EndPhase, Interrupt
    <2>2. push'.dry = push.dry /\ Nodes' = Nodes /\ push'.pc # "idle"
      <3>1. push \in [pc : {"idle", "folders", "rest", "ended"}, level : Nat,
                      levels : {push.levels}, stop : BOOLEAN, dry : BOOLEAN,
                      cancelled : BOOLEAN, error : BOOLEAN]
        BY DEF IInv, Types
      <3>2. push'.dry = push.dry /\ push'.levels = push.levels /\ push'.pc # "idle"
        BY <1>3, <2>1, <3>1 DEF EndPhase, Interrupt
      <3> QED
        BY <3>2 DEF Nodes
    <2> QED
      BY <2>1, <2>2 DEF SInv, Folders, Batch, batch, Kind, At, Remains, IsOf, NameAgrees
  <1>4. ASSUME NEW q \in Batch, Step(q) PROVE SInv'
    BY <1>4, SStep
  <1>5. ASSUME NEW n \in Names, Foreign(n) PROVE SInv'
    <2>1. UNCHANGED <<setting, push, task, outcome>> /\ foreign' # 0
      BY <1>5 DEF Foreign, IInv, Types, TypeOK
    <2> QED
      BY <2>1 DEF SInv, Nodes, Folders, Batch, batch
  <1> QED
    BY <1>1, <1>2, <1>3, <1>4, <1>5 DEF Next

\* Push: what the summary counts as pushed is on the server when the push ends,
\* with what this manifest says, also where the server derives the names or
\* the lists were fetched long before: no manifest has taken the object of
\* another for its own. It needs manifests that are of different objects, and
\* no one else who changes them.
THEOREM SuccessIsStoredHolds ==
  ASSUME Distinct
  PROVE  Spec => []SuccessIsStored
  <1>1. IInv /\ SInv /\ [Next]_vars => (IInv /\ SInv)'
    BY NextOK, SNext
  <1>2. IInv /\ SInv => SuccessIsStored
    BY DEF SInv, SuccessIsStored, IsOf
  <1> QED
    BY <1>1, <1>2, InitOK, SInit, PTL DEF Spec

-------------------------------------------------------------------------------
(* A push only goes on, and its verdicts are final *)

\* The order of the steps of a manifest and of the phases of a push.
Place(s) == CASE s \in {"waiting", "idle"}    -> 0
              [] s \in {"get", "folders"}     -> 1
              [] s \in {"match", "rest"}      -> 2
              [] s \in {"fetched", "ended"}   -> 3
              [] s \in {"update", "create"}   -> 4
              [] OTHER                        -> 5

\* A manifest has come further, or its request is sent once more.
Further(j, k) ==
  \/ Place(k.pc) > Place(j.pc)
  \/ k.pc = j.pc /\ k.tries > j.tries

\* The push has come to another level or phase.
NextPhase(q) ==
  Place(push'.pc) > Place(q.pc) \/ (push'.pc = q.pc /\ push'.level > q.level)

\* pusher.go: until the next push begins, what the summary says of a manifest
\* stays, and no manifest comes back to a step.
VerdictsAreFinal ==
  [][pushes' = pushes => \A r \in Batch :
       /\ outcome[r] # "none" => outcome'[r] = outcome[r]
       /\ Place(task'[r].pc) >= Place(task[r].pc)]_vars

\* Push, ForEachConcurrently, conflict_retry.go: each step of a push takes a
\* manifest further, is a replay, of which there are fewer than Steps, begins a
\* level or a phase, or is a fault. Nothing is tried for ever.
OnlyGoesOn ==
  [][EndPhase \/ (\E r \in Batch : Step(r)) =>
       \/ NextPhase(push)
       \/ \E r \in Batch : Further(task[r], task'[r])
       \/ faults' > faults]_vars

LEMMA Places ==
  /\ \A s \in {"waiting", "idle"} : Place(s) = 0
  /\ \A s \in {"get", "folders"} : Place(s) = 1
  /\ \A s \in {"match", "rest"} : Place(s) = 2
  /\ \A s \in {"fetched", "ended"} : Place(s) = 3
  /\ \A s \in {"update", "create"} : Place(s) = 4
  /\ Place("done") = 5
  /\ \A s : Place(s) \in 0..5
  BY DEF Place

\* How a step of manifest r ends: it is done, further, replayed, or resent.
EndsWell(r) ==
  \E k : /\ task' = [task EXCEPT ![r] = k]
         /\ \/ k.pc = "done" /\ \E how : outcome' = [outcome EXCEPT ![r] = how]
            \/ UNCHANGED outcome /\ Place(k.pc) > Place(task[r].pc)
            \/ UNCHANGED outcome /\ k.pc = task[r].pc /\ (k.tries > task[r].tries \/ faults' > faults)

LEMMA EndsSo ==
  ASSUME NEW r \in Batch
  PROVE  /\ \A how : Ends(r, how) => EndsWell(r)
         /\ \A how : Finishes(r, how) => EndsWell(r)
         /\ Fails(r) => EndsWell(r)
  <1>1. Done.pc = "done"
    BY DEF Done, Waiting
  <1>2. \A how : Ends(r, how) => EndsWell(r)
    BY <1>1 DEF Ends, Goes, EndsWell
  <1> QED
    BY <1>2 DEF Finishes, Fails

\* A manifest that goes to a later step.
LEMMA GoesFurther ==
  ASSUME NEW r \in Batch, NEW k, Goes(r, k), UNCHANGED outcome, Place(k.pc) > Place(task[r].pc)
  PROVE  EndsWell(r)
  BY DEF Goes, EndsWell

LEMMA GoesTo ==
  ASSUME NEW r \in Batch, NEW s, Goes(r, [Waiting EXCEPT !.pc = s]), UNCHANGED outcome,
         Place(s) > Place(task[r].pc)
  PROVE  EndsWell(r)
  <1> DEFINE k == [Waiting EXCEPT !.pc = s]
  <1>1. k.pc = s
    BY DEF Waiting
  <1>2. Goes(r, k)
    OBVIOUS
  <1> HIDE DEF k
  <1> QED
    BY <1>1, <1>2, GoesFurther

LEMMA MatchesWell ==
  ASSUME NEW r \in Batch, NEW list, Matches(r, list), Place(task[r].pc) < 4
  PROVE  EndsWell(r)
  <1>1. CASE Fails(r)
    BY <1>1, EndsSo
  <1>2. CASE Goes(r, [Waiting EXCEPT !.pc = "create"]) /\ UNCHANGED outcome
    BY <1>2, GoesTo, Places
  <1>3. ASSUME NEW n, Goes(r, UpdateOf(n, list[n])), UNCHANGED outcome
        PROVE  EndsWell(r)
    <2>1. UpdateOf(n, list[n]).pc = "update"
      BY DEF UpdateOf, Waiting
    <2> QED
      BY <1>3, <2>1, GoesFurther, Places
  <1> QED
    BY <1>1, <1>2, <1>3 DEF Matches

LEMMA StepEndsWell ==
  ASSUME IInv, NEW r \in Batch, Step(r)
  PROVE  EndsWell(r) /\ ~At(r, "done")
  <1>0. task \in [Batch -> Tasks] /\ task[r] \in Tasks /\ faults \in Nat
    BY Basics
  <1>1. CASE Launch(r)
    <2>1. task[r].pc = "waiting"
      BY <1>1 DEF Launch, At
    <2>2. CASE \E how : Finishes(r, how) \/ Fails(r)
      BY <2>1, <2>2, EndsSo DEF At
    <2>3. ASSUME NEW s \in {"match", "get"}, Goes(r, [Waiting EXCEPT !.pc = s]), UNCHANGED outcome
          PROVE  EndsWell(r)
      BY <2>1, <2>3, GoesTo, Places
    <2>4. CASE batch[r].gate = "ok"
      BY <1>1, <2>1, <2>3, <2>4 DEF Launch, At
    <2> QED
      BY <1>1, <2>1, <2>2, <2>4 DEF Launch, At
  <1>2. CASE Get(r)
    <2>1. task[r].pc = "get"
      BY <1>2 DEF Get, At
    <2>2. CASE Fails(r)
      BY <2>1, <2>2, EndsSo DEF At
    <2>3. CASE Goes(r, UpdateOf(batch[r].name, store[batch[r].name])) /\ UNCHANGED outcome
      <3>1. UpdateOf(batch[r].name, store[batch[r].name]).pc = "update"
        BY DEF UpdateOf, Waiting
      <3> QED
        BY <2>1, <2>3, <3>1, GoesFurther, Places DEF At
    <2>4. CASE Goes(r, [Waiting EXCEPT !.pc = "match"]) /\ UNCHANGED outcome
      BY <2>1, <2>4, GoesTo, Places DEF At
    <2> QED
      BY <1>2, <2>2, <2>3, <2>4 DEF Get
  <1>3. CASE Match(r)
    <2>1. task[r].pc = "match"
      BY <1>3 DEF Match, At
    <2>2. CASE Goes(r, [Waiting EXCEPT !.pc = "create"]) /\ UNCHANGED outcome
      BY <2>1, <2>2, GoesTo, Places DEF At
    <2>3. CASE Goes(r, [Waiting EXCEPT !.pc = "fetched", !.list = store]) /\ UNCHANGED outcome
      <3> DEFINE k == [Waiting EXCEPT !.pc = "fetched", !.list = store]
      <3>1. k.pc = "fetched"
        BY DEF Waiting
      <3>2. Goes(r, k)
        BY <2>3
      <3> HIDE DEF k
      <3> QED
        BY <2>1, <2>3, <3>1, <3>2, GoesFurther, Places DEF At
    <2>4. CASE Matches(r, cache[Kind(r)])
      BY <2>1, <2>4, MatchesWell, Places DEF At
    <2> QED
      BY <1>3, <2>2, <2>3, <2>4 DEF Match
  <1>4. CASE Fetched(r)
    <2>1. task[r].pc = "fetched"
      BY <1>4 DEF Fetched, At
    <2> QED
      BY <1>4, <2>1, MatchesWell, Places DEF Fetched, At
  <1>5. Sending(r) => ~At(r, "done")
    BY DEF Sending, At
  <1>6. CASE DryRunHere(r)
    BY <1>5, <1>6, EndsSo DEF DryRunHere
  <1>7. CASE Send(r) \/ Rejected(r) \/ RequestFails(r) \/ AnswerLost(r)
    BY <1>5, <1>7, EndsSo DEF Send, Rejected, RequestFails, AnswerLost, Sends, At
  <1>8. CASE Replay(r)
    <2> DEFINE k == [task[r] EXCEPT !.tries = @ + 1]
    <2>1. k.pc = task[r].pc /\ k.tries = task[r].tries + 1 /\ task[r].tries \in Int
      BY <1>0, PushConstantsOK DEF Tasks
    <2>2. task' = [task EXCEPT ![r] = k] /\ UNCHANGED outcome /\ Sending(r)
      BY <1>8 DEF Replay, Goes, Sends
    <2> HIDE DEF k
    <2>3. k.tries > task[r].tries
      BY <2>1
    <2>4. EndsWell(r)
      BY <2>1, <2>2, <2>3 DEF EndsWell
    <2> QED
      BY <1>5, <2>2, <2>4
  <1>9. CASE Resend(r)
    <2> DEFINE k == [task[r] EXCEPT !.resent = TRUE]
    <2>1. k.pc = task[r].pc
      BY <1>0 DEF Tasks
    <2>2. /\ task' = [task EXCEPT ![r] = k] /\ UNCHANGED outcome /\ Sending(r)
          /\ faults' > faults
      BY <1>0, <1>9 DEF Resend, Goes, Sends
    <2> HIDE DEF k
    <2> QED
      BY <1>5, <2>1, <2>2 DEF EndsWell
  <1> QED
    BY <1>1, <1>2, <1>3, <1>4, <1>6, <1>7, <1>8, <1>9 DEF Step

\* One manifest moves; the others keep their steps and outcomes.
LEMMA OneMoves ==
  ASSUME IInv, NEW r \in Batch, Step(r)
  PROVE  /\ \A q \in Batch : /\ outcome[q] # "none" => outcome'[q] = outcome[q]
                             /\ Place(task'[q].pc) >= Place(task[q].pc)
         /\ Further(task[r], task'[r]) \/ faults' > faults
  <1>0. /\ task \in [Batch -> Tasks] /\ outcome[r] = "none" /\ Place("done") = 5
        /\ \A q \in Batch : Place(task[q].pc) \in 0..5
        /\ Place(task[r].pc) < 5
    <2>1. task \in [Batch -> Tasks]
      BY Basics
    <2>2. outcome[r] = "none" /\ ~At(r, "done")
      BY StepEndsWell DEF IInv, Outcomes
    <2> QED
      BY <2>1, <2>2, Places DEF Tasks, At
  <1>1. PICK k : /\ task' = [task EXCEPT ![r] = k]
                 /\ \/ k.pc = "done" /\ \E how : outcome' = [outcome EXCEPT ![r] = how]
                    \/ UNCHANGED outcome /\ Place(k.pc) > Place(task[r].pc)
                    \/ /\ UNCHANGED outcome /\ k.pc = task[r].pc
                       /\ k.tries > task[r].tries \/ faults' > faults
    BY StepEndsWell DEF EndsWell
  <1>2. task'[r] = k /\ \A q \in Batch \ {r} : task'[q] = task[q]
    BY <1>0, <1>1
  <1>3. \A q \in Batch \ {r} : outcome'[q] = outcome[q]
    BY <1>1 DEF IInv, Types, TypeOK
  <1>4. Further(task[r], k) \/ faults' > faults
    BY <1>0, <1>1 DEF Further
  <1>5. Place(k.pc) >= Place(task[r].pc)
    BY <1>0, <1>1, Places
  <1> QED
    BY <1>0, <1>2, <1>3, <1>4, <1>5

\* The group of a level or a phase is followed by another, or by the end.
LEMMA PhaseEnds ==
  ASSUME IInv, EndPhase
  PROVE  NextPhase(push) /\ UNCHANGED <<task, outcome>>
  <1>1. push.pc \in {"folders", "rest"} /\ UNCHANGED <<task, outcome>>
    BY DEF EndPhase
  <1>2. push \in [pc : {"idle", "folders", "rest", "ended"}, level : Nat, levels : {push.levels},
                  stop : BOOLEAN, dry : BOOLEAN, cancelled : BOOLEAN, error : BOOLEAN]
    BY DEF IInv, Types
  <1>3. ASSUME NEW s \in {"ended", "rest"}, push' = [push EXCEPT !.pc = s],
               s = "rest" => push.pc = "folders"
        PROVE  NextPhase(push)
    <2>1. push'.pc = s
      BY <1>2, <1>3
    <2> QED
      BY <1>1, <1>3, <2>1, Places DEF NextPhase
  <1>4. CASE push' = [push EXCEPT !.level = @ + 1]
    <2>1. push'.pc = push.pc /\ push'.level = push.level + 1 /\ push.level \in Nat
      BY <1>2, <1>4
    <2>2. push'.pc = push.pc /\ push'.level > push.level
      BY <2>1
    <2> QED
      BY <1>1, <2>2 DEF NextPhase
  <1> QED
    BY <1>1, <1>3, <1>4 DEF EndPhase

\* Within a push no verdict on a manifest is changed by what happens to others,
\* to its group, or to the server.
THEOREM VerdictsAreFinalHolds == Spec => VerdictsAreFinal
  <1>1. ASSUME IInv, [Next]_vars, pushes' = pushes, NEW r \in Batch
        PROVE  /\ outcome[r] # "none" => outcome'[r] = outcome[r]
               /\ Place(task'[r].pc) >= Place(task[r].pc)
    <2>1. CASE UNCHANGED <<task, outcome>>
      <3>1. Place(task[r].pc) \in Nat
        BY Places
      <3> QED
        BY <2>1, <3>1
    <2>2. CASE \E q \in Batch : Step(q)
      BY <1>1, <2>2, OneMoves
    <2>3. \A stop \in BOOLEAN : ~StartPush(stop) /\ ~PreflightFails(stop)
      <3>1. pushes \in Int
        BY <1>1 DEF IInv, Types, TypeOK
      <3>2. \A stop \in BOOLEAN : StartPush(stop) \/ PreflightFails(stop) => pushes' = pushes + 1
        BY DEF StartPush, PreflightFails
      <3> QED
        BY <1>1, <3>1, <3>2
    <2> QED
      BY <1>1, <2>1, <2>2, <2>3, PhaseEnds DEF Next, Interrupt, Foreign, vars
  <1>2. IInv /\ [Next]_vars =>
          [pushes' = pushes => \A r \in Batch :
             /\ outcome[r] # "none" => outcome'[r] = outcome[r]
             /\ Place(task'[r].pc) >= Place(task[r].pc)]_vars
    BY <1>1
  <1> QED
    BY <1>2, Invariance, PTL DEF Spec, VerdictsAreFinal

\* However requests fail and whatever the other manifests do, a push goes on
\* with each of its steps.
THEOREM OnlyGoesOnHolds == Spec => OnlyGoesOn
  <1>1. ASSUME IInv, EndPhase \/ (\E r \in Batch : Step(r))
        PROVE  \/ NextPhase(push)
               \/ \E r \in Batch : Further(task[r], task'[r])
               \/ faults' > faults
    BY <1>1, PhaseEnds, OneMoves
  <1> QED
    BY <1>1, Invariance, PTL DEF Spec, OnlyGoesOn

===============================================================================
