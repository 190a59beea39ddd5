----------------------------- MODULE ResourcePush ------------------------------
(***************************************************************************)
(* Pushing a batch of manifests to Grafana (internal/resources/remote:     *)
(* pusher.go, folder_hierarchy.go, natural_key_cache.go,                   *)
(* natural_key_match.go, conflict_retry.go, dryrun_guard.go), through      *)
(* internal/retry/transport.go.                                            *)
(*                                                                         *)
(* Folders are pushed level by level, then everything else, a bounded      *)
(* number of manifests at a time. A manifest updates the object of its     *)
(* name, else the object of its natural key in a list that is fetched once *)
(* per push, else it is created.                                           *)
(*                                                                         *)
(* Kinds of resources, by what the code tells apart:                       *)
(*   folder, plain  served by the API; updates check the resourceVersion;  *)
(*                  a dry run is the server's;                             *)
(*   legacy         the same, but it may ignore a dry run and write;       *)
(*   native         TimeInterval, TemplateGroup: the server derives the    *)
(*                  name, the logical identity is the key, conflicts are   *)
(*                  replayed; may ignore a dry run as well;                *)
(*   keyed, unique  a provider's adapter: the server assigns the name, no  *)
(*                  version is checked, a dry run is local; `unique` has   *)
(*                  NaturalKeyPolicy.RequireUnique.                        *)
(* Adapters that upsert whole envelopes (assistant watchers) are left out. *)
(*                                                                         *)
(* A setting is a batch, what the server has at first, the kinds that it   *)
(* `honours` a dry run of and those that the user says it does             *)
(* (`assumed`: --assume-server-dry-run), and the bounds: `pushes` of the   *)
(* batch, `faults`, requests the server refuses or whose answer is lost,   *)
(* `foreign` changes by other clients. Steps bounds tries (10 in the       *)
(* code).                                                                  *)
(***************************************************************************)
EXTENDS Integers, FiniteSets

CONSTANTS Manifests, Names, Keys,
          Settings,
          Concurrency,  \* MaxConcurrency
          Steps, None

Kinds == {"folder", "plain", "legacy", "native", "keyed", "unique"}

\* What stops a manifest before any request is made for it.
Gates == {"ok", "unsupported", "processor", "readOnly", "managed", "noPush", "preflight"}

Manifest == [kind : Kinds, name : Names \cup {None}, key : Keys \cup {None},
             parent : Names \cup {None}, gate : Gates]

Objects == [kind : Kinds, key : Keys \cup {None}, rv : Nat,
            by : Manifests \cup {"other", "provisioned"}]

ASSUME PushConstantsOK ==
  /\ IsFiniteSet(Manifests)
  /\ \A g \in Settings :
       /\ DOMAIN g.batch \subseteq Manifests
       /\ \A r \in DOMAIN g.batch : g.batch[r] \in Manifest
       /\ g.store \in [Names -> Objects \cup {None}]
       /\ \A n \in Names : g.store[n] # None => g.store[n].rv <= 1
       /\ g.assignable \subseteq Names      \* names the server gives to objects itself
       /\ g.dry \in BOOLEAN
       /\ {"folder", "plain"} \subseteq g.honours /\ g.honours \subseteq Kinds
       /\ g.assumed \subseteq Kinds
       /\ {g.pushes, g.faults, g.foreign} \subseteq Nat
  /\ None \notin Objects /\ None \notin Names
  /\ Concurrency \in Nat \ {0} /\ Steps \in Nat \ {0}

VARIABLES setting,
          push,      \* the push that is running, or the last one
          task,      \* of each manifest
          outcome,   \* what the summary of the push says of each manifest
          cache,     \* naturalKeyCache of the push
          store,     \* the objects of the server, by name
          clock,     \* the last resourceVersion
          pushes, faults, foreign

vars == <<setting, push, task, outcome, cache, store, clock, pushes, faults, foreign>>

Tasks == [pc   : {"waiting", "get", "match", "fetched", "update", "create", "done"},
          to   : Names \cup {None},      \* what an update is addressed to,
          rv   : Nat,                    \* and the version it replaces
          tries : 0..Steps - 1,
          resent : BOOLEAN,              \* the transport has sent it before,
          list : [Names -> Objects \cup {None}] \cup {None}]

Waiting == [pc |-> "waiting", to |-> None, rv |-> 0, tries |-> 0, resent |-> FALSE,
            list |-> None]
Done    == [Waiting EXCEPT !.pc = "done"]

\* `level` is the level that is being pushed, `levels` that of every folder.
NoPush == [pc |-> "idle", level |-> 0, levels |-> << >>, stop |-> FALSE, dry |-> FALSE,
           cancelled |-> FALSE, error |-> FALSE]

batch    == setting.batch
Batch    == DOMAIN batch
Folders  == { r \in Batch : batch[r].kind = "folder" }
Kind(r)  == batch[r].kind
At(r, s) == task[r].pc = s
Goes(r, t)   == task' = [task EXCEPT ![r] = t]
Adapter(k)   == k \in {"keyed", "unique"}
HasKey(k)    == Adapter(k) \/ k = "native"
Sending(r)   == At(r, "update") \/ At(r, "create")
Server       == <<store, clock, faults, foreign>>

-------------------------------------------------------------------------------
(* SortFoldersByDependency *)

\* One node for each name. Which of several manifests it is depends on the
\* order of a map.
NodeSets == { N \in SUBSET Folders :
                /\ \A f, g \in N : batch[f].name = batch[g].name => f = g
                /\ \A f \in Folders : \E g \in N : batch[f].name = batch[g].name }

Parents(N, f) == { g \in N : batch[f].parent # None /\ batch[g].name = batch[f].parent }

\* Mutant: the folders are pushed in no order.
AllRoots(N) == { [f \in N |-> 0] }

\* assignLevels: a folder whose parent is not among the nodes is a root; the
\* others are one below their parent; what no root leads to keeps -1.
Levels(N) ==
  { L \in [N -> -1..Cardinality(N)] :
      \A f \in N :
        /\ Parents(N, f) = {} => L[f] = 0
        /\ \A g \in Parents(N, f) : L[f] = IF L[g] < 0 THEN -1 ELSE L[g] + 1 }

-------------------------------------------------------------------------------
(* Push *)

NewCache == [k \in Kinds |-> None]

\* Mutant: the cache of the last push is used again.
KeepsCache == cache

CacheAtStart == NewCache

StartPush(stop) ==
  /\ push.pc \in {"idle", "ended"}
  /\ pushes < setting.pushes
  /\ pushes' = pushes + 1
  /\ \E N \in NodeSets : \E L \in Levels(N) :
       push' = [NoPush EXCEPT !.levels = L, !.stop = stop, !.dry = setting.dry,
                              !.pc = IF \E f \in N : L[f] < 0 THEN "ended"
                                     ELSE IF N = {} THEN "rest" ELSE "folders",
                              !.error = \E f \in N : L[f] < 0]
  /\ task' = [r \in Batch |-> Waiting]
  /\ outcome' = [r \in Batch |-> "none"]
  /\ cache' = CacheAtStart
  /\ UNCHANGED <<setting, store, clock, faults, foreign>>

\* The plans of the adapters cannot be made: nothing is pushed.
PreflightFails(stop) ==
  /\ push.pc \in {"idle", "ended"}
  /\ pushes < setting.pushes /\ faults < setting.faults
  /\ ~setting.dry
  /\ pushes' = pushes + 1 /\ faults' = faults + 1
  /\ push' = [NoPush EXCEPT !.pc = "ended", !.stop = stop, !.error = TRUE]
  /\ task' = [r \in Batch |-> Waiting]
  /\ outcome' = [r \in Batch |-> "none"]
  /\ UNCHANGED <<setting, cache, store, clock, foreign>>

\* What ForEachConcurrently is running over.
Phase == CASE push.pc = "folders" -> { f \in DOMAIN push.levels : push.levels[f] = push.level }
           [] push.pc = "rest"    -> Batch \ Folders
           [] OTHER               -> {}

Recorded == { r \in Batch : outcome[r] \in {"ok", "failed"} }

\* Mutant: a failure is enough to stop after the folders.
EnoughDone == Recorded # {}

AllRecorded == Cardinality(Recorded) >= Cardinality(Batch)

\* The group is waited for; the next one has a context of its own.
EndPhase ==
  /\ push.pc \in {"folders", "rest"}
  /\ \A r \in Phase : At(r, "done")
  /\ LET last == \A f \in DOMAIN push.levels : push.levels[f] <= push.level
     IN  push' = IF push.error \/ push.pc = "rest" THEN [push EXCEPT !.pc = "ended"]
                 ELSE IF ~last THEN [push EXCEPT !.level = @ + 1]
                 ELSE [push EXCEPT !.pc = IF AllRecorded THEN "ended" ELSE "rest"]
  /\ UNCHANGED <<setting, task, outcome, cache, store, clock, pushes, faults, foreign>>

\* The user gives up: the context of every request is cancelled.
Interrupt ==
  /\ push.pc \in {"folders", "rest"} /\ ~push.cancelled
  /\ push' = [push EXCEPT !.cancelled = TRUE]
  /\ UNCHANGED <<setting, task, outcome, cache, store, clock, pushes, faults, foreign>>

-------------------------------------------------------------------------------
(* pushSingleResource *)

Ends(r, how) ==
  /\ Goes(r, Done)
  /\ outcome' = [outcome EXCEPT ![r] = how]

\* The error of the callback cancels the group's context.
Fails(r) ==
  /\ Ends(r, "failed")
  /\ push' = IF push.stop THEN [push EXCEPT !.cancelled = TRUE, !.error = TRUE] ELSE push

Finishes(r, how) == Ends(r, how) /\ UNCHANGED push

\* Mutant: what is done still takes its place.
LeaksPlaces == Cardinality({ q \in Batch : ~At(q, "waiting") }) < Concurrency

APlaceIsFree == Cardinality({ q \in Batch : task[q].pc \notin {"waiting", "done"} }) < Concurrency

\* A manifest that other tools manage is not even counted.
Launch(r) ==
  /\ r \in Phase /\ At(r, "waiting")
  /\ APlaceIsFree
  /\ CASE batch[r].gate = "readOnly" -> Finishes(r, "skipped")
       [] batch[r].gate = "managed"  -> Finishes(r, "left")
       [] batch[r].gate = "ok"       ->
            /\ Goes(r, [Waiting EXCEPT !.pc = IF batch[r].name = None THEN "match" ELSE "get"])
            /\ UNCHANGED <<push, outcome>>
       [] OTHER                      -> Fails(r)
  /\ UNCHANGED <<setting, cache, store, clock, pushes, faults, foreign>>

UpdateOf(n, obj) == [Waiting EXCEPT !.pc = "update", !.to = n, !.rv = obj.rv]

\* Mutant: a native object is taken for the manifest's by its name alone.
NameIsEnough(r) == store[batch[r].name] # None /\ store[batch[r].name].kind = Kind(r)

\* Get by name; a native object with another identity is another object.
FoundByName(r) ==
  LET obj == store[batch[r].name]
  IN  obj # None /\ obj.kind = Kind(r) /\ (Kind(r) = "native" => obj.key = batch[r].key)

Get(r) ==
  /\ At(r, "get") /\ ~push.cancelled
  /\ LET n == batch[r].name
     IN  IF FoundByName(r)
         THEN IF Kind(r) = "native" /\ store[n].by = "provisioned"
              THEN Fails(r)
              ELSE Goes(r, UpdateOf(n, store[n])) /\ UNCHANGED <<push, outcome>>
         ELSE Goes(r, [Waiting EXCEPT !.pc = "match"]) /\ UNCHANGED <<push, outcome>>
  /\ UNCHANGED <<setting, cache, pushes>> /\ UNCHANGED Server

Ambiguous(r, M) == Cardinality(M) > 1 /\ Kind(r) # "keyed"

\* findByNaturalKey in a list.
Matches(r, list) ==
  LET M == { n \in Names : list[n] # None /\ list[n].kind = Kind(r) /\ list[n].key = batch[r].key }
  IN  IF Ambiguous(r, M) THEN Fails(r)
      ELSE IF M = {} THEN Goes(r, [Waiting EXCEPT !.pc = "create"]) /\ UNCHANGED <<push, outcome>>
      ELSE \E n \in M : IF Kind(r) = "native" /\ list[n].by = "provisioned"
                        THEN Fails(r)
                        ELSE Goes(r, UpdateOf(n, list[n])) /\ UNCHANGED <<push, outcome>>

\* The list is fetched outside the lock of the cache: several may fetch it.
Match(r) ==
  /\ At(r, "match") /\ ~push.cancelled
  /\ IF ~HasKey(Kind(r)) \/ batch[r].key = None
     THEN Goes(r, [Waiting EXCEPT !.pc = "create"]) /\ UNCHANGED <<push, outcome>>
     ELSE IF cache[Kind(r)] # None THEN Matches(r, cache[Kind(r)])
     ELSE Goes(r, [Waiting EXCEPT !.pc = "fetched", !.list = store]) /\ UNCHANGED <<push, outcome>>
  /\ UNCHANGED <<setting, cache, pushes>> /\ UNCHANGED Server

\* The first list that arrives is everybody's.
Fetched(r) ==
  /\ At(r, "fetched")
  /\ cache' = IF cache[Kind(r)] # None THEN cache ELSE [cache EXCEPT ![Kind(r)] = task[r].list]
  /\ Matches(r, cache'[Kind(r)])
  /\ UNCHANGED <<setting, pushes>> /\ UNCHANGED Server

-------------------------------------------------------------------------------
(* Update and Create, through the dry-run guard and the conflict replays *)

\* Mutant: no kind is known to ignore a dry run.
TrustsServers(k) == ~Adapter(k)

\* dryRunAllowlist, with the kinds that the user asserts: what is not on it is
\* not sent in a dry run. Adapters do not ask it.
Allowlisted(k) == ~Adapter(k) /\ k \in {"folder", "plain"} \cup setting.assumed

\* What the server does with a request.
Applied(r, n) ==
  IF push.dry /\ Kind(r) \in setting.honours THEN UNCHANGED <<store, clock>>
  ELSE /\ clock' = clock + 1
       /\ store' = [store EXCEPT ![n] = [kind |-> Kind(r), key |-> batch[r].key,
                                         rv |-> clock + 1, by |-> r]]

\* The names a new object may get; a server that derives them has one for each
\* identity.
NewNames(r) ==
  IF ~HasKey(Kind(r)) THEN { n \in {batch[r].name} \ {None} : store[n] = None }
  ELSE IF Kind(r) = "native" /\ \E n \in Names : /\ store[n] # None
                                                 /\ store[n].kind = "native"
                                                 /\ store[n].key = batch[r].key
  THEN {}
  ELSE { n \in setting.assignable : store[n] = None }

\* An update of something that has changed since it was read.
Stale(r) == /\ At(r, "update") /\ ~Adapter(Kind(r))
            /\ store[task[r].to] # None /\ store[task[r].to].rv # task[r].rv

\* Where a request of r takes effect, if the server accepts it.
Accepted(r) ==
  IF At(r, "create") THEN NewNames(r)
  ELSE { n \in {task[r].to} : store[n] # None /\ ~Stale(r) }

\* A dry run that is not sent: adapters check the manifest themselves or not
\* at all, the guard does not.
DryRunHere(r) ==
  /\ Sending(r)
  /\ push.dry /\ ~Allowlisted(Kind(r))
  /\ \E how \in {"ok", "skipped"} :
       /\ how = "ok" => Adapter(Kind(r))
       /\ Finishes(r, how)
  /\ UNCHANGED <<setting, cache, pushes>> /\ UNCHANGED Server

Sends(r) == Sending(r) /\ (push.dry => Allowlisted(Kind(r)))

Send(r) ==
  /\ Sends(r) /\ ~push.cancelled
  /\ \E n \in Accepted(r) : Applied(r, n)
  /\ Finishes(r, "ok")
  /\ UNCHANGED <<setting, cache, pushes, faults, foreign>>

\* Mutant: one attempt too many.
ReplayOnceMore(r) ==
  /\ Sends(r) /\ ~push.cancelled
  /\ Kind(r) = "native" /\ task[r].tries < Steps
  /\ Goes(r, [task[r] EXCEPT !.tries = @ + 1])
  /\ UNCHANGED <<setting, push, outcome, cache, pushes>> /\ UNCHANGED Server

\* Mutant: the version is read again before the request is repeated.
ReplayAfresh(r) ==
  /\ Sends(r) /\ ~push.cancelled
  /\ Kind(r) = "native" /\ task[r].tries + 1 < Steps
  /\ Goes(r, [task[r] EXCEPT !.tries = @ + 1,
                             !.rv = IF Stale(r) THEN store[task[r].to].rv ELSE @])
  /\ UNCHANGED <<setting, push, outcome, cache, pushes>> /\ UNCHANGED Server

\* A conflict of a native kind, its object's own or one of the configuration
\* it is stored in: the same request again.
Replay(r) ==
  /\ Sends(r) /\ ~push.cancelled
  /\ Kind(r) = "native" /\ task[r].tries + 1 < Steps
  /\ Goes(r, [task[r] EXCEPT !.tries = @ + 1])
  /\ UNCHANGED <<setting, push, outcome, cache, pushes>> /\ UNCHANGED Server

Rejected(r) ==
  /\ Sends(r) /\ ~push.cancelled
  /\ Accepted(r) = {}
  /\ Stale(r) /\ Kind(r) = "native" => task[r].tries + 1 = Steps
  /\ Fails(r)
  /\ UNCHANGED <<setting, cache, pushes>> /\ UNCHANGED Server

\* A request fails for a reason of its own, or because it is cancelled.
RequestFails(r) ==
  /\ At(r, "get") \/ At(r, "match") \/ Sends(r) \/ (Sending(r) /\ Adapter(Kind(r)))
  /\ IF push.cancelled THEN UNCHANGED faults
     ELSE faults < setting.faults /\ faults' = faults + 1
  /\ Fails(r)
  /\ UNCHANGED <<setting, cache, store, clock, pushes, foreign>>

\* The server has done it, and nobody hears of it.
AnswerLost(r) ==
  /\ Sends(r)
  /\ IF push.cancelled THEN UNCHANGED faults
     ELSE faults < setting.faults /\ faults' = faults + 1
  /\ \E n \in Accepted(r) : Applied(r, n)
  /\ Fails(r)
  /\ UNCHANGED <<setting, cache, pushes, foreign>>

\* The same, and the transport takes it for a connection that did not come
\* about: it sends the request again, whatever its method. A request that was
\* not executed and is sent again is the same request, only later.
Resend(r) ==
  /\ Sends(r) /\ ~push.cancelled
  /\ faults < setting.faults /\ faults' = faults + 1
  /\ \E n \in Accepted(r) : Applied(r, n)
  /\ Goes(r, [task[r] EXCEPT !.resent = TRUE])
  /\ UNCHANGED <<setting, push, outcome, cache, pushes, foreign>>

\* Another client replaces or deletes an object, or creates one.
Foreign(n) ==
  /\ foreign < setting.foreign
  /\ foreign' = foreign + 1
  /\ \/ store[n] # None /\ store' = [store EXCEPT ![n] = None] /\ UNCHANGED clock
     \/ /\ clock' = clock + 1
        /\ \E k \in { Kind(r) : r \in Batch }, key \in Keys \cup {None} :
             /\ \A r \in Batch : batch[r].name = n => k = Kind(r)
             /\ IF HasKey(k) THEN key # None /\ n \in setting.assignable ELSE key = None
             /\ store[n] # None => store[n].kind = k /\ (k = "native" => store[n].key = key)
             /\ k = "native" => \A m \in Names \ {n} : store[m] # None => store[m].key # key
             /\ store' = [store EXCEPT ![n] = [kind |-> k, key |-> key,
                                               rv |-> clock + 1, by |-> "other"]]
  /\ UNCHANGED <<setting, push, task, outcome, cache, pushes, faults>>

-------------------------------------------------------------------------------

Init ==
  /\ setting \in Settings
  /\ push = NoPush
  /\ task = [r \in Batch |-> Waiting]
  /\ outcome = [r \in Batch |-> "none"]
  /\ cache = NewCache
  /\ store = setting.store
  /\ clock = 1
  /\ pushes = 0 /\ faults = 0 /\ foreign = 0

Step(r) ==
  \/ Launch(r) \/ Get(r) \/ Match(r) \/ Fetched(r)
  \/ DryRunHere(r) \/ Send(r) \/ Replay(r) \/ Rejected(r)
  \/ RequestFails(r) \/ AnswerLost(r) \/ Resend(r)

Next ==
  \/ \E stop \in BOOLEAN : StartPush(stop) \/ PreflightFails(stop)
  \/ EndPhase \/ Interrupt
  \/ \E r \in Batch : Step(r)
  \/ \E n \in Names : Foreign(n)

Spec == Init /\ [][Next]_vars

\* Goroutines go on, requests are answered or time out.
Fairness == WF_vars(EndPhase \/ \E r \in Batch : Step(r))

FairSpec == Spec /\ Fairness

-------------------------------------------------------------------------------
(* Properties *)

\* The types of the variables.
TypeOK ==
  /\ push.pc \in {"idle", "folders", "rest", "ended"} /\ push.level \in Nat
  /\ DOMAIN push.levels \subseteq Folders
  /\ task \in [Batch -> Tasks]
  /\ outcome \in [Batch -> {"none", "ok", "failed", "skipped", "left"}]
  /\ DOMAIN cache = Kinds
  /\ store \in [Names -> Objects \cup {None}]
  /\ pushes \in 0..setting.pushes /\ faults \in 0..setting.faults /\ foreign \in 0..setting.foreign

UnderWay(r) == ~At(r, "waiting") /\ ~At(r, "done")

\* The folders of the batch that have to be there before r.
Above(r) == IF r \in Folders THEN Parents(DOMAIN push.levels, r)
            ELSE DOMAIN push.levels

OnServer(f) == store[batch[f].name] # None

\* Push: no request is made for a manifest before its parent folders, for
\* anything but folders before all of them, have been dealt with. With
\* stop-on-error none of them has failed then, and those that were pushed are
\* on the server, unless another client has deleted them.
ParentsFirst ==
  \A r \in Batch : UnderWay(r) => \A f \in Above(r) :
    /\ At(f, "done")
    /\ push.stop => outcome[f] # "failed"
    /\ outcome[f] = "ok" /\ ~push.dry /\ foreign = 0 => OnServer(f)

\* The summary: when Push returns without an error, every manifest has had
\* its turn and one outcome, but for what is managed elsewhere and for all
\* but one of several folders of a name (other versions of the folder API).
Accounted ==
  push.pc = "ended" /\ ~push.error =>
    \A r \in Batch :
      \/ batch[r].gate = "managed" /\ outcome[r] \in {"none", "left"}
      \/ outcome[r] \in {"ok", "failed", "skipped"}
      \/ r \in Folders /\ \E f \in Folders \ {r} : batch[f].name = batch[r].name

\* newConflictRetryClient: replaying a conflict never turns it into an
\* overwrite. An update of something that has changed since it was read fails
\* in the end, however often it is sent.
StaleNeverSucceeds ==
  [][\A r \in Batch : Stale(r) => \/ Stale(r)' \/ outcome'[r] \in {"failed", "skipped"}
                                  \/ foreign' # foreign]_vars

SameKey(a, b) == a.kind = b.kind /\ a.key = b.key

\* In each setting the manifests of adapters have natural keys, no two the same,
\* and nobody else changes what the server has meanwhile.
Alone ==
  \A g \in Settings : \A r \in DOMAIN g.batch : Adapter(g.batch[r].kind) =>
    /\ g.foreign = 0
    /\ g.batch[r].key # None
    /\ \A q \in DOMAIN g.batch : SameKey(g.batch[r], g.batch[q]) => q = r

\* upsertResource: a push creates an object only where the server has none
\* with that natural key, also when the answer to an earlier creation was
\* lost and the push is run again. The one exception is a creation that the
\* transport repeats by itself (retry/transport.go: "connection errors (where
\* the request likely was not received)").
NoSecondCopy ==
  [][\A n \in Names : store[n] = None /\ store'[n] # None /\ HasKey(store'[n].kind)
                      /\ foreign' = foreign =>
       \/ \A m \in Names : store[m] # None => ~SameKey(store[m], store'[n])
       \/ task[store'[n].by].resent]_vars

\* In each setting that is not a dry run the manifests are of different objects:
\* of different keys, or of different names where the kind has none (folders of
\* one name are told apart by the push). And what an adapter finds by the name
\* in a manifest is what it finds by its key: such names come from no other
\* server, which would have given them to other objects.
Distinct ==
  \A g \in Settings : ~g.dry => \A r \in DOMAIN g.batch :
    LET m == g.batch[r]
    IN  /\ \A q \in DOMAIN g.batch :
             IF HasKey(m.kind) THEN SameKey(m, g.batch[q]) => q = r
             ELSE m.kind # "folder" /\ m.kind = g.batch[q].kind /\ m.name = g.batch[q].name
                    => q = r
        /\ Adapter(m.kind) /\ m.name # None =>
             /\ m.name \notin g.assignable
             /\ g.store[m.name] # None /\ g.store[m.name].kind = m.kind =>
                  SameKey(g.store[m.name], m)

\* Native kinds: what was pushed successfully is on the server when the push
\* ends; no manifest of the batch took the object of another for its own,
\* whatever names the objects have on this server.
SuccessIsStored ==
  push.pc = "ended" /\ ~push.dry /\ foreign = 0 =>
    \A r \in Batch : outcome[r] = "ok" => \E n \in Names : store[n] # None /\ store[n].by = r

\* What the user says of dry runs is true, where anybody asks.
RightlyAssumed == \A k \in setting.assumed : Adapter(k) \/ k \in setting.honours

\* dryRunGuard: a dry run changes nothing, on servers that ignore it either,
\* unless the user says of a kind that it is honoured where it is not.
DryRunChangesNothing ==
  [][push.dry /\ RightlyAssumed /\ store' # store => foreign' # foreign]_vars

\* Every push ends.
PushEnds == push.pc \in {"folders", "rest"} ~> push.pc = "ended"

===============================================================================
