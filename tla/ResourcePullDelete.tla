-------------------------- MODULE ResourcePullDelete ---------------------------
(***************************************************************************)
(* Pulling resources, and deleting what was pulled or what is listed in    *)
(* local files (internal/resources/remote: puller.go, deleter.go,          *)
(* summary.go; cmd/gcx/resources/delete.go, fetch.go).                     *)
(*                                                                         *)
(* A command has several filters. They are read concurrently; then what    *)
(* was read is put into one collection, in order; then, for a deletion,    *)
(* everything in the collection is deleted concurrently. What is not done  *)
(* has to be in the summary, which decides the exit code.                  *)
(*                                                                         *)
(* Bounds: MaxFaults requests that fail or whose answer is lost,           *)
(* MaxForeign deletions by other clients, Concurrency requests at a time.  *)
(* Interrupts: the user may cancel the command.                            *)
(***************************************************************************)
EXTENDS Integers, FiniteSets, FiniteSetsExt

CONSTANTS Filters, Items,
          Requests,      \* what commands may ask
          ReadOnly,      \* items that cannot be written
          Managed,       \* items another tool manages
          Unsupported,   \* items of local files that no API serves
          HonorsDryRun,  \* items of kinds on the dry-run allowlist, which do honour it
          Concurrency, MaxFaults, MaxForeign, Interrupts

\* A filter is for one kind: `all` of it, or the items it names. A kind can be
\* one that cannot be listed (its reads are answered 404 or 405), or whose API
\* this server lacks; `owned` kinds have an adapter that selects what to delete,
\* reports what it could not read item by item, and checks what is pulled.
FilterRecord == [type : {"all", "multiple", "single"}, items : SUBSET Items,
                 kind : {"listable", "unlistable", "unavailable"}, owned : BOOLEAN]

Commands == {"pull", "delete", "deleteFiles"}

Request == [command : Commands, stop : BOOLEAN, dry : BOOLEAN,
            everything : BOOLEAN,          \* no filters were given
            filters : [Filters -> FilterRecord]]

ASSUME PullConstantsOK ==
  /\ IsFiniteSet(Filters) /\ IsFiniteSet(Items)
  /\ Requests \subseteq Request
  /\ ReadOnly \subseteq Items /\ Managed \subseteq Items
  /\ Unsupported \subseteq Items /\ HonorsDryRun \subseteq Items
  /\ Concurrency \in Nat \ {0} /\ {MaxFaults, MaxForeign} \subseteq Nat
  /\ Interrupts \in BOOLEAN

VARIABLES request, pc,
          read,        \* where the read of each filter is
          got,         \* partialRes
          cancelled,   \* "no", by "user", by the "group"
          error,       \* what the group returns
          collection, task,
          failed,      \* of the summary: what failed, and why
          skipped, succeeded,
          server, faults, foreign,
          start, gone  \* history: the items at first, and those deleted

vars == <<request, pc, read, got, cancelled, error, collection, task, failed, skipped,
          succeeded, server, faults, foreign, start, gone>>

summary  == <<failed, skipped, succeeded>>
reading  == <<read, got, error, cancelled>>
deleting == <<collection, task>>
world    == <<server, faults, foreign, start, gone>>

F(f) == request.filters[f]

-------------------------------------------------------------------------------
(* pullFilter *)

\* One more place in the group.
StartRead(f) ==
  /\ pc = "read" /\ read[f] = "waiting"
  /\ Cardinality({ g \in Filters : read[g] = "reading" }) < Concurrency
  /\ read' = [read EXCEPT ![f] = "reading"]
  /\ UNCHANGED <<request, pc, got, cancelled, error, world>> /\ UNCHANGED deleting
  /\ UNCHANGED summary

\* Mutant: the result is the cause of the cancellation, even where there is none.
CauseOfContext(how) ==
  /\ error' = cancelled
  /\ cancelled' = IF cancelled = "no" THEN "group" ELSE cancelled

\* The first error of the group is its result, and cancels the others.
GroupFails(how) ==
  /\ error' = IF error = "none" THEN how ELSE error
  /\ cancelled' = IF cancelled = "no" THEN "group" ELSE cancelled

\* Mutant: without stop-on-error a failed read is only logged.
OnlyLogs(f, why) ==
  IF request.stop THEN GroupFails("failed") /\ UNCHANGED summary
  ELSE UNCHANGED <<failed, skipped, succeeded, error, cancelled>>

\* Without stop-on-error a filter that cannot be read is a failure of the
\* summary, and the others go on.
Problem(f, why) ==
  IF request.stop THEN GroupFails("failed") /\ UNCHANGED summary
  ELSE /\ failed' = failed \cup {[what |-> f, why |-> why]}
       /\ UNCHANGED <<skipped, succeeded, error, cancelled>>

Skips(f) == skipped' = skipped \cup {f} /\ UNCHANGED <<failed, succeeded, error, cancelled>>
NoEntry  == UNCHANGED summary /\ UNCHANGED <<error, cancelled>>

Present(f) == F(f).items \cap server
Missing(f) == IF F(f).type = "all" THEN {} ELSE F(f).items \ server
Selects(f) == request.command = "delete" /\ F(f).owned     \* SelectDelete

Entries(S, why) == { [what |-> i, why |-> why] : i \in S }

\* recordPartialRead: the items that could not be read are failures of their own.
Partial(f, bad) ==
  /\ failed' = failed \cup Entries(bad, "server")
  /\ IF request.stop THEN GroupFails("failed") /\ UNCHANGED got
     ELSE got' = [got EXCEPT ![f] = Present(f) \ bad] /\ UNCHANGED <<error, cancelled>>
  /\ UNCHANGED <<skipped, succeeded>>

\* How a read ends that the server answers. A name that is missing makes the
\* whole of a list of names "not listable", but for an adapter that says which.
Answer(f) ==
  LET here   == F(f).kind # "unavailable"
      tries  == here /\ (F(f).kind = "listable" \/ Selects(f))
      misses == tries /\ Missing(f) # {}
      strict == Selects(f) \/ F(f).type = "single"
  IN  CASE ~here /\ request.everything            -> Skips(f) /\ UNCHANGED got
        [] ~here /\ ~request.everything           -> Problem(f, "server") /\ UNCHANGED got
        [] here /\ ~tries /\ F(f).type = "single" -> Problem(f, "server") /\ UNCHANGED got
        [] here /\ ~tries /\ F(f).type # "single" -> Skips(f) /\ UNCHANGED got
        [] misses /\ strict                       -> Problem(f, "server") /\ UNCHANGED got
        [] misses /\ ~strict /\ ~F(f).owned       -> Skips(f) /\ UNCHANGED got
        [] misses /\ ~strict /\ F(f).owned        -> Partial(f, Missing(f))
        [] OTHER -> got' = [got EXCEPT ![f] = Present(f)] /\ NoEntry

Read(f) ==
  /\ read[f] = "reading" /\ cancelled = "no"
  /\ Answer(f)
  /\ read' = [read EXCEPT ![f] = "done"]
  /\ UNCHANGED <<request, pc, world>> /\ UNCHANGED deleting

ReadFails(f) ==
  /\ read[f] = "reading" /\ cancelled = "no"
  /\ faults < MaxFaults /\ faults' = faults + 1
  /\ Problem(f, "server")
  /\ read' = [read EXCEPT ![f] = "done"]
  /\ UNCHANGED <<request, pc, got, server, foreign, start, gone>> /\ UNCHANGED deleting

\* An adapter returns what it could read, and says what it could not.
ReadPartially(f) ==
  /\ read[f] = "reading" /\ cancelled = "no"
  /\ F(f).owned /\ F(f).type # "single" /\ F(f).kind = "listable" /\ ~Selects(f)
  /\ faults < MaxFaults /\ faults' = faults + 1
  /\ \E bad \in (SUBSET Present(f)) \ {{}} : Partial(f, bad \cup Missing(f))
  /\ read' = [read EXCEPT ![f] = "done"]
  /\ UNCHANGED <<request, pc, server, foreign, start, gone>> /\ UNCHANGED deleting

\* Mutant: a cancelled read is a failure like any other.
RecordsCancelled(f) ==
  /\ read[f] = "reading" /\ cancelled # "no"
  /\ Problem(f, "cancelled")
  /\ read' = [read EXCEPT ![f] = "done"]
  /\ UNCHANGED <<request, pc, got, world>> /\ UNCHANGED deleting

\* isPullCancellation: a read that is cancelled ends the pull.
ReadCancelled(f) ==
  /\ read[f] = "reading" /\ cancelled # "no"
  /\ GroupFails("cancelled")
  /\ read' = [read EXCEPT ![f] = "done"]
  /\ UNCHANGED <<request, pc, got, world>> /\ UNCHANGED deleting /\ UNCHANGED summary

-------------------------------------------------------------------------------
(* Pull, after its reads *)

Ended == pc' = "ended"

GroupFailed == error # "none"

AllRead == pc = "read" /\ \A f \in Filters : read[f] = "done"

\* errg.Wait returns the group's error.
ReadsFailed ==
  /\ AllRead /\ GroupFailed
  /\ Ended
  /\ UNCHANGED <<request, reading, deleting, summary, world>>

Fetched == UNION { got[f] : f \in Filters }

\* What is read-only is left out of a deletion, what others manage out of a pull.
Kept == Fetched \ (IF request.command = "delete" THEN ReadOnly ELSE Managed)

SkipsReadOnly ==
  skipped' = IF request.command = "delete" THEN skipped \cup (Fetched \cap ReadOnly) ELSE skipped

\* In a pull an adapter's preflight, whose one read of the server may fail for
\* all of its items, or a processor may refuse what is kept. Deletions have no
\* processors, and what adapters selected for them is not checked.
Refuses(bad) ==
  /\ bad \subseteq Kept
  /\ bad # {} => request.command = "pull" /\ faults < MaxFaults
  /\ faults' = faults + (IF bad = {} THEN 0 ELSE 1)

Insert ==
  /\ AllRead /\ ~GroupFailed
  /\ SkipsReadOnly
  /\ \E bad \in SUBSET Kept :
       /\ Refuses(bad)
       /\ failed' = failed \cup Entries(bad, "server")
       /\ IF request.stop /\ bad # {}
          THEN Ended /\ error' = "failed" /\ UNCHANGED <<collection, succeeded>>
          ELSE /\ collection' = Kept \ bad
               /\ succeeded' = IF request.command = "pull" THEN Kept \ bad ELSE {}
               /\ pc' = IF request.command = "pull" THEN "ended" ELSE "delete"
               /\ UNCHANGED error
  /\ UNCHANGED <<request, read, got, cancelled, task, server, foreign, start, gone>>

\* A preflight that the user's Ctrl-C ends is recorded as a failure before it is
\* recognised. The pull ends with the error, and its caller drops the summary
\* and what was inserted (fetchResources).
PreflightCancelled ==
  /\ AllRead /\ ~GroupFailed
  /\ cancelled = "user" /\ request.command = "pull"
  /\ \E f \in Filters : F(f).owned /\ \E i \in got[f] \cap Kept : \E bad \in SUBSET (Kept \ {i}) :
       /\ Refuses(bad) /\ (request.stop => bad = {})
       /\ failed' = failed \cup Entries(bad, "server") \cup Entries({i}, "cancelled")
  /\ Ended /\ error' = "cancelled"
  /\ UNCHANGED <<request, read, got, cancelled, deleting, skipped, succeeded,
                 server, foreign, start, gone>>

\* An adapter is not available for its preflight, or an object makes no
\* resource: whatever --on-error says, the pull ends.
InsertFails ==
  /\ AllRead /\ ~GroupFailed /\ Fetched # {}
  /\ Ended
  /\ \/ cancelled = "user" /\ error' = "cancelled" /\ UNCHANGED faults
     \/ faults < MaxFaults /\ faults' = faults + 1 /\ error' = "failed"
  /\ UNCHANGED <<request, read, got, cancelled, server, foreign, start, gone>>
  /\ UNCHANGED deleting /\ UNCHANGED summary

-------------------------------------------------------------------------------
(* Delete *)

\* Mutant: the manifests of a kind whose selection failed are kept.
KeepsUnselected(bad) == {}

Unselected(bad) == UNION { F(f).items : f \in bad }

\* selectLocalIdentities: kind by kind, before anything is deleted. A kind of
\* which one item cannot be selected is left alone, also where the user's
\* Ctrl-C ended its selection (`cut`).
SelectLocal ==
  /\ pc = "select"
  /\ \E bad \in SUBSET { f \in Filters : F(f).owned } : \E cut \in SUBSET bad :
       /\ cut # {} => cancelled = "user"
       /\ \A f \in Filters : F(f).owned /\ Present(f) # F(f).items => f \in bad
       /\ LET own == { f \in bad \ cut : Present(f) = F(f).items }
          IN  Cardinality(own) <= MaxFaults - faults /\ faults' = faults + Cardinality(own)
       /\ LET entries(f) == Entries(F(f).items, IF f \in cut THEN "cancelled" ELSE "server")
          IN  IF request.stop /\ bad # {}
              THEN /\ \E f \in bad : failed' = entries(f)
                                    /\ error' = IF f \in cut THEN "cancelled" ELSE "failed"
                   /\ Ended /\ UNCHANGED collection
              ELSE /\ failed' = UNION { entries(f) : f \in bad }
                   /\ collection' = (UNION { F(f).items : f \in Filters }) \ Unselected(bad)
                   /\ pc' = "delete" /\ UNCHANGED error
  /\ UNCHANGED <<request, read, got, cancelled, task, skipped, succeeded, server, foreign, start, gone>>

Ends(i) == task' = [task EXCEPT ![i] = "done"]

Succeeds(i) == succeeded' = succeeded \cup {i} /\ UNCHANGED <<failed, skipped, error, cancelled>>

Fails(i, why) ==
  /\ failed' = failed \cup {[what |-> i, why |-> why]}
  /\ IF request.stop THEN GroupFails("failed") ELSE UNCHANGED <<error, cancelled>>
  /\ UNCHANGED <<skipped, succeeded>>

Removes(i) == server' = server \ {i} /\ gone' = gone \cup (server \cap {i})

\* Mutant: a deletion that has ended keeps its place.
LeaksPlaces == Cardinality({ j \in collection : task[j] # "waiting" }) < Concurrency

\* ForEachConcurrently: errgroup.SetLimit.
APlaceIsFree == Cardinality({ j \in collection : task[j] = "sending" }) < Concurrency

\* Nothing is recorded of a manifest no API serves.
StartDelete(i) ==
  /\ pc = "delete" /\ i \in collection /\ task[i] = "waiting"
  /\ APlaceIsFree
  /\ IF i \in Unsupported
     THEN /\ Ends(i)
          /\ IF request.stop THEN GroupFails("failed") ELSE UNCHANGED <<error, cancelled>>
          /\ UNCHANGED skipped
     ELSE IF i \in ReadOnly
     THEN Ends(i) /\ skipped' = skipped \cup {i} /\ UNCHANGED <<error, cancelled>>
     ELSE task' = [task EXCEPT ![i] = "sending"] /\ UNCHANGED <<skipped, error, cancelled>>
  /\ UNCHANGED <<request, pc, read, got, collection, failed, succeeded, world>>

\* dryRunGuard.Delete: what is not on the allowlist is not sent.
Sends(i) == request.dry => i \in HonorsDryRun

DeleteUnsent(i) ==
  /\ task[i] = "sending" /\ ~Sends(i)
  /\ Ends(i)
  /\ skipped' = skipped \cup {i}
  /\ UNCHANGED <<request, pc, reading, collection, failed, succeeded, world>>

\* Servers of the other kinds carry out a dry run.
Delete(i) ==
  /\ task[i] = "sending" /\ Sends(i) /\ cancelled = "no"
  /\ Ends(i)
  /\ IF i \in server THEN Succeeds(i) ELSE Fails(i, "server")
  /\ IF request.dry /\ i \in HonorsDryRun THEN UNCHANGED <<server, gone>> ELSE Removes(i)
  /\ UNCHANGED <<request, pc, read, got, collection, faults, foreign, start>>

\* A deletion that is refused, cancelled, or whose answer does not arrive; or, of
\* one that is not sent, the read that looks for its object.
DeleteFails(i) ==
  /\ task[i] = "sending"
  /\ IF cancelled # "no" THEN UNCHANGED faults ELSE faults < MaxFaults /\ faults' = faults + 1
  /\ Ends(i)
  /\ Fails(i, IF cancelled = "user" THEN "cancelled" ELSE "server")
  /\ IF request.dry THEN UNCHANGED <<server, gone>>
     ELSE Removes(i) \/ UNCHANGED <<server, gone>>
  /\ UNCHANGED <<request, pc, read, got, collection, foreign, start>>

Finish ==
  /\ pc = "delete" /\ \A i \in collection : task[i] = "done"
  /\ Ended
  /\ UNCHANGED <<request, reading, collection, task, summary, world>>

-------------------------------------------------------------------------------

\* The user presses Ctrl-C.
Interrupt ==
  /\ Interrupts /\ pc # "ended" /\ cancelled = "no"
  /\ cancelled' = "user"
  /\ UNCHANGED <<request, pc, read, got, error, collection, task, summary, world>>

\* Another client deletes an item.
Foreign(i) ==
  /\ foreign < MaxForeign /\ i \in server
  /\ foreign' = foreign + 1
  /\ server' = server \ {i}
  /\ UNCHANGED <<request, pc, reading, deleting, summary, faults, start, gone>>

Init ==
  /\ request \in Requests
  /\ pc = IF request.command = "deleteFiles" THEN "select" ELSE "read"
  /\ read = [f \in Filters |-> "waiting"]
  /\ got = [f \in Filters |-> {}]
  /\ cancelled = "no" /\ error = "none"
  /\ collection = {}
  /\ task = [i \in Items |-> "waiting"]
  /\ failed = {} /\ skipped = {} /\ succeeded = {}
  /\ server \in SUBSET (Items \ Unsupported)
  /\ faults = 0 /\ foreign = 0
  /\ start = server /\ gone = {}

Step ==
  \/ \E f \in Filters : \/ StartRead(f) \/ Read(f) \/ ReadFails(f)
                        \/ ReadPartially(f) \/ ReadCancelled(f)
  \/ ReadsFailed \/ Insert \/ PreflightCancelled \/ InsertFails \/ SelectLocal
  \/ \E i \in Items : StartDelete(i) \/ DeleteUnsent(i) \/ Delete(i) \/ DeleteFails(i)
  \/ Finish

Next == Step \/ Interrupt \/ \E i \in Items : Foreign(i)

Spec == Init /\ [][Next]_vars

\* Requests are answered, or time out.
FairSpec == Spec /\ WF_vars(Step)

-------------------------------------------------------------------------------
(* Properties *)

\* The types of the variables.
TypeOK ==
  /\ pc \in {"read", "select", "delete", "ended"}
  /\ read \in [Filters -> {"waiting", "reading", "done"}]
  /\ got \in [Filters -> SUBSET Items]
  /\ cancelled \in {"no", "user", "group"} /\ error \in {"none", "failed", "cancelled"}
  /\ collection \subseteq Items
  /\ task \in [Items -> {"waiting", "sending", "done"}]
  /\ failed \subseteq [what : Filters \cup Items, why : {"server", "cancelled"}]
  /\ skipped \subseteq Filters \cup Items /\ succeeded \subseteq Items
  /\ {server, start, gone} \subseteq SUBSET Items
  /\ faults \in 0..MaxFaults /\ foreign \in 0..MaxForeign

Failed == { x.what : x \in failed }

\* The command exits with code 0 (default --on-error).
ExitOK == pc = "ended" /\ error = "none" /\ failed = {}

\* The code skips a whole filter: its kind cannot be listed or is not there.
SkippedWhole(f) == f \in skipped

\* A command that exits 0 has deleted, or pulled, everything it was asked to,
\* except for what its output lists as skipped: no failure of one of several
\* concurrent reads and deletions gets lost on the way to the exit code.
ZeroMeansDone ==
  ExitOK =>
    \A f \in Filters :
      \/ SkippedWhole(f)
      \/ LET asked == F(f).items \cap server
         IN  IF request.command = "pull" THEN asked \ Managed \subseteq collection
             ELSE request.dry \/ asked \subseteq skipped

\* puller.go: "A cancelled invocation must not become a batch failure." What the
\* user's Ctrl-C ends among the reads and the checks of a pull is no failure in a
\* summary that somebody sees: the command ends with the cancellation. Only the
\* deletions that it ends, and the selections before them, are reported.
CancelIsNotAFailure ==
  \A x \in failed : x.why = "cancelled" =>
    \/ pc = "ended" /\ error = "cancelled"
    \/ request.command = "deleteFiles"
    \/ x.what \in Items /\ task[x.what] = "done"

\* A filter of which an item that has to be selected never was on the server.
Unselectable(f) ==
  /\ F(f).owned /\ F(f).kind = "listable" /\ ~(F(f).items \subseteq start)
  /\ \/ request.command = "deleteFiles"
     \/ request.command = "delete" /\ F(f).type # "all"

\* deleter.go: "Selection failures cannot allow any manifest in the failed kind
\* to be deleted." With stop-on-error nothing at all is deleted.
NothingAfterFailedSelection ==
  \A f \in Filters :
    Unselectable(f) => gone \cap (IF request.stop THEN Items ELSE F(f).items) = {}

\* dryRunGuard.Delete: a dry run deletes nothing, on whatever server.
DryRunDeletesNothing == request.dry => gone = {}

\* onerror.go: the mode "fail", the default, "continues processing all
\* resources": an item that was named and is there is deleted, or the summary
\* says of it that it was not.
EveryNamedIsProcessed ==
  pc = "ended" /\ ~request.stop /\ cancelled = "no" /\ request.command = "delete" =>
    \A f \in Filters : F(f).type = "multiple" /\ F(f).kind = "listable" =>
      \A i \in F(f).items \cap server : i \in skipped \cup Failed \/ f \in Failed

\* Every command ends.
CommandEnds == <>(pc = "ended")

===============================================================================
