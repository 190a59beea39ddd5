----------------------- MODULE ResourcePullDeleteProofs -----------------------
(***************************************************************************)
(* The safety properties of ResourcePullDelete, for any number of filters, *)
(* items and places, and for any failures: what exit code 0 means, and     *)
(* what a failed selection and a dry run never delete. And that a command  *)
(* only goes on.                                                           *)
(***************************************************************************)
EXTENDS ResourcePullDelete, FiniteSetTheorems, TLAPS

-------------------------------------------------------------------------------
(* The invariant *)

Types ==
  /\ TypeOK
  /\ request \in Requests
  /\ server \subseteq start /\ start \cap Unsupported = {}

\* Each stage of a command leaves the others alone.
Stages ==
  /\ request.command = "deleteFiles" => pc # "read" /\ \A f \in Filters : read[f] = "waiting"
  /\ request.command # "deleteFiles" => pc # "select"
  /\ request.command = "pull" => pc # "delete"
  /\ pc # "read" => \A f \in Filters : read[f] # "reading"
  /\ pc \in {"read", "select"} => collection = {}
  /\ pc = "select" => failed = {} /\ error = "none"
  /\ \A i \in Items : /\ task[i] = "sending" => pc = "delete"
                      /\ task[i] # "waiting" => i \in collection
  /\ pc = "ended" /\ request.command # "pull" /\ error = "none" =>
       \A i \in collection : task[i] = "done"
  /\ gone \subseteq collection

Clean == error = "none" /\ failed = {}

\* Unless some failure is recorded, what is on the server is in what was read,
\* then in the collection, then deleted.
Complete ==
  /\ \A f \in Filters :
       /\ got[f] \subseteq F(f).items
       /\ read[f] = "done" /\ Clean => f \in skipped \/ Present(f) \subseteq got[f]
       /\ pc \in {"delete", "ended"} /\ Clean =>
            \/ f \in skipped
            \/ IF request.command = "pull" THEN Present(f) \ Managed \subseteq collection
               ELSE Present(f) \subseteq collection \cup skipped
  /\ Clean /\ ~request.dry =>
       \A i \in collection : task[i] = "done" => i \notin server \/ i \in skipped

\* What could not be selected is not read, and stops everything if asked to.
Selection ==
  \A f \in Filters : Unselectable(f) =>
    /\ request.command = "delete" => got[f] = {}
    /\ request.stop => /\ gone = {} /\ pc # "delete"
                       /\ read[f] = "done" => error # "none"

IInv ==
  /\ Types
  /\ Stages
  /\ Complete
  /\ Selection
  /\ DryRunDeletesNothing
  /\ CancelIsNotAFailure

LEMMA Requested ==
  ASSUME request \in Requests
  PROVE  /\ request \in Request
         /\ \A f \in Filters : F(f) \in FilterRecord /\ F(f).items \subseteq Items
  BY PullConstantsOK DEF Request, FilterRecord, F

LEMMA InitOK == Init => IInv
  <1> SUFFICES ASSUME Init PROVE IInv
    OBVIOUS
  <1> USE DEF Init
  <1>1. request \in Request
    BY Requested
  <1>2. Types
    BY <1>1, PullConstantsOK DEF Types, TypeOK, Request
  <1>3. Stages
    BY <1>1 DEF Stages, Request
  <1>4. Complete
    BY Requested DEF Complete, Clean, FilterRecord, Present
  <1>5. Selection
    BY <1>1 DEF Selection, Request, Unselectable
  <1> QED
    BY <1>2, <1>3, <1>4, <1>5 DEF IInv, DryRunDeletesNothing, CancelIsNotAFailure

\* What depends on the request alone.
LEMMA Fixed ==
  ASSUME UNCHANGED <<request, start>>
  PROVE  \A f \in Filters : F(f)' = F(f) /\ Unselectable(f)' = Unselectable(f)
                            /\ Selects(f)' = Selects(f)
  BY DEF F, Unselectable, Selects

-------------------------------------------------------------------------------
(* Reading *)

\* What a step leaves alone, in the words of the variables.
Others == <<request, start, foreign, gone>>

\* The entries of a failure, and how the group ends, are of their types.
LEMMA ProblemOK ==
  ASSUME IInv, NEW f \in Filters, Problem(f, "server")
  PROVE  /\ failed' \subseteq [what : Filters \cup Items, why : {"server", "cancelled"}]
         /\ \A x \in failed' : x \in failed \/ x.why = "server"
         /\ cancelled' \in {"no", "user", "group"} /\ error' \in {"none", "failed", "cancelled"}
         /\ ~Clean' /\ (request.stop => error' # "none")
         /\ (error # "none" => error' # "none")
         /\ skipped' = skipped /\ succeeded' = succeeded
  <1>1. TypeOK
    BY DEF IInv, Types
  <1>2. CASE request.stop
    BY <1>1, <1>2 DEF Problem, GroupFails, TypeOK, Clean, summary
  <1>3. CASE ~request.stop
    <2>1. /\ failed' = failed \cup {[what |-> f, why |-> "server"]}
          /\ UNCHANGED <<skipped, succeeded, error, cancelled>>
      BY <1>3 DEF Problem
    <2>2. [what |-> f, why |-> "server"] \in [what : Filters \cup Items, why : {"server", "cancelled"}]
      OBVIOUS
    <2>3. [what |-> f, why |-> "server"] \in failed'
      BY <2>1
    <2>4. failed' # {}
      BY <2>3
    <2>5. \A x \in failed' : x \in failed \/ x.why = "server"
      BY <2>1
    <2>6. failed' \subseteq [what : Filters \cup Items, why : {"server", "cancelled"}]
      BY <1>1, <2>1, <2>2 DEF TypeOK
    <2> QED
      BY <1>1, <1>3, <2>1, <2>4, <2>5, <2>6 DEF TypeOK, Clean
  <1> QED
    BY <1>2, <1>3

LEMMA StartReadStep ==
  ASSUME IInv, NEW f \in Filters, StartRead(f)
  PROVE  IInv'
  <1> USE DEF StartRead, world, deleting, summary
  <1>1. Types' /\ Stages'
    BY DEF IInv, Types, TypeOK, Stages
  <1>2. Complete'
    BY Fixed DEF IInv, Types, TypeOK, Complete, Clean, Present
  <1>3. Selection'
    BY Fixed DEF IInv, Types, TypeOK, Selection
  <1> QED
    BY <1>1, <1>2, <1>3 DEF IInv, DryRunDeletesNothing, CancelIsNotAFailure

\* A read that ends, in whatever way: what it has to leave behind.
LEMMA ReadEnds ==
  ASSUME IInv, NEW f \in Filters,
         read[f] = "reading", read' = [read EXCEPT ![f] = "done"],
         UNCHANGED <<request, pc, server, foreign, start, gone, collection, task, succeeded>>,
         faults' \in 0..MaxFaults,
         failed' \subseteq [what : Filters \cup Items, why : {"server", "cancelled"}],
         \A x \in failed' : x \in failed \/ x.why = "server",
         failed \subseteq failed',
         skipped \subseteq skipped', skipped' \subseteq skipped \cup {f},
         cancelled' \in {"no", "user", "group"}, error' \in {"none", "failed", "cancelled"},
         error # "none" => error' # "none",
         NEW got1 \in SUBSET F(f).items, got' = [got EXCEPT ![f] = got1],
         Clean' => f \in skipped' \/ Present(f) \subseteq got1,
         Unselectable(f) /\ request.command = "delete" =>
           got1 = {} /\ (request.stop => error' # "none")
  PROVE  IInv'
  <1>1. pc = "read" /\ request.command # "deleteFiles"
    BY DEF IInv, Stages
  <1>2. got' \in [Filters -> SUBSET Items]
    BY Requested DEF IInv, Types, TypeOK
  <1>3. Types'
    BY <1>2 DEF IInv, Types, TypeOK
  <1>4. Stages'
    BY <1>1 DEF IInv, Types, TypeOK, Stages
  <1>5. Complete'
    <2>1. Clean' => Clean
      BY DEF IInv, Types, TypeOK, Clean
    <2>2. ASSUME NEW g \in Filters
          PROVE  /\ got'[g] \subseteq F(g).items
                 /\ read'[g] = "done" /\ Clean' => g \in skipped' \/ Present(g) \subseteq got'[g]
      <3>1. CASE g = f
        BY <3>1 DEF IInv, Types, TypeOK
      <3>2. CASE g # f
        BY <2>1, <3>2 DEF IInv, Types, TypeOK, Complete
      <3> QED
        BY <3>1, <3>2
    <2>3. \A g \in Filters : F(g)' = F(g) /\ Present(g)' = Present(g)
      BY Fixed DEF Present
    <2>4. collection' = {}
      BY <1>1 DEF IInv, Stages
    <2> QED
      BY <1>1, <2>2, <2>3, <2>4 DEF Complete
  <1>6. Selection'
    <2> SUFFICES ASSUME NEW g \in Filters, Unselectable(g)
                 PROVE  /\ request.command = "delete" => got'[g] = {}
                        /\ request.stop => /\ gone = {} /\ pc # "delete"
                                           /\ read'[g] = "done" => error' # "none"
      BY Fixed DEF Selection
    <2>1. request.command = "delete"
      BY <1>1 DEF Unselectable
    <2>2. CASE g = f
      BY <1>1, <2>1, <2>2 DEF IInv, Types, TypeOK, Selection
    <2>3. CASE g # f
      BY <1>1, <2>1, <2>3 DEF IInv, Types, TypeOK, Selection
    <2> QED
      BY <2>2, <2>3
  <1>7. DryRunDeletesNothing' /\ CancelIsNotAFailure'
    BY <1>1 DEF IInv, DryRunDeletesNothing, CancelIsNotAFailure
  <1> QED
    BY <1>3, <1>4, <1>5, <1>6, <1>7 DEF IInv

\* An answer that says of some items that they could not be read.
LEMMA PartialStep ==
  ASSUME IInv, NEW f \in Filters, NEW bad \in SUBSET Items, bad # {}, Partial(f, bad),
         read[f] = "reading", read' = [read EXCEPT ![f] = "done"],
         UNCHANGED <<request, pc, server, foreign, start, gone, collection, task>>,
         faults' \in 0..MaxFaults, request.command # "delete"
  PROVE  IInv'
  <1>1. /\ failed' = failed \cup Entries(bad, "server")
        /\ IF request.stop THEN GroupFails("failed") /\ UNCHANGED got
           ELSE got' = [got EXCEPT ![f] = Present(f) \ bad] /\ UNCHANGED <<error, cancelled>>
        /\ UNCHANGED <<skipped, succeeded>>
    BY DEF Partial
  <1>2. TypeOK
    BY DEF IInv, Types
  <1>3. failed' \subseteq [what : Filters \cup Items, why : {"server", "cancelled"}]
    BY <1>1, <1>2 DEF TypeOK, Entries
  <1>4. failed' # {} /\ \A x \in failed' : x \in failed \/ x.why = "server"
    <2>1. PICK i \in bad : TRUE
      OBVIOUS
    <2>2. [what |-> i, why |-> "server"] \in failed'
      BY <1>1, <2>1 DEF Entries
    <2> QED
      BY <1>1, <2>2 DEF Entries
  <1>5. /\ cancelled' \in {"no", "user", "group"} /\ error' \in {"none", "failed", "cancelled"}
        /\ error # "none" => error' # "none"
    BY <1>1, <1>2 DEF GroupFails, TypeOK
  <1>6. \E got1 \in SUBSET F(f).items : got' = [got EXCEPT ![f] = got1]
    <2>1. CASE request.stop
      BY <1>1, <1>2, <2>1 DEF TypeOK, IInv, Complete
    <2>2. CASE ~request.stop
      BY <1>1, <2>2 DEF Present
    <2> QED
      BY <2>1, <2>2
  <1>7. ~Clean'
    BY <1>4 DEF Clean
  <1>8. failed \subseteq failed'
    BY <1>1
  <1> QED
    BY <1>1, <1>3, <1>4, <1>5, <1>6, <1>7, <1>8, ReadEnds

LEMMA ReadStep ==
  ASSUME IInv, NEW f \in Filters, Read(f)
  PROVE  IInv'
  <1> USE DEF Read
  <1>1. UNCHANGED <<request, pc, server, faults, foreign, start, gone, collection, task>>
    BY DEF world, deleting
  <1>2. TypeOK /\ F(f) \in FilterRecord
    BY Requested DEF IInv, Types
  <1> DEFINE here    == F(f).kind # "unavailable"
             tries   == here /\ (F(f).kind = "listable" \/ Selects(f))
             misses  == tries /\ Missing(f) # {}
             strict  == Selects(f) \/ F(f).type = "single"
  <1>3. ASSUME Problem(f, "server"), UNCHANGED got
        PROVE  IInv'
    <2>1. got[f] \subseteq F(f).items /\ got' = [got EXCEPT ![f] = got[f]]
      BY <1>2, <1>3 DEF IInv, Complete, TypeOK
    <2>2. failed \subseteq failed'
      BY <1>3 DEF Problem, summary
    <2>3. Unselectable(f) /\ request.command = "delete" => got[f] = {}
      BY DEF IInv, Selection
    <2> HIDE DEF Read
    <2> QED
      BY <1>1, <1>2, <1>3, <2>1, <2>2, <2>3, ProblemOK, ReadEnds DEF TypeOK, Read
  <1>4. ASSUME Skips(f), UNCHANGED got, ~(Unselectable(f) /\ request.command = "delete")
        PROVE  IInv'
    <2>1. got[f] \subseteq F(f).items /\ got' = [got EXCEPT ![f] = got[f]]
      BY <1>2, <1>4 DEF IInv, Complete, TypeOK
    <2>2. skipped' = skipped \cup {f} /\ UNCHANGED <<failed, succeeded, error, cancelled>>
      BY <1>4 DEF Skips
    <2> QED
      BY <1>1, <1>2, <1>4, <2>1, <2>2, ReadEnds DEF TypeOK
  <1>5. ASSUME got' = [got EXCEPT ![f] = Present(f)], NoEntry,
               ~(Unselectable(f) /\ request.command = "delete")
        PROVE  IInv'
    <2>1. Present(f) \in SUBSET F(f).items
      BY DEF Present
    <2>2. UNCHANGED <<failed, skipped, succeeded, error, cancelled>>
      BY <1>5 DEF NoEntry, summary
    <2> QED
      BY <1>1, <1>2, <1>5, <2>1, <2>2, ReadEnds DEF TypeOK
  <1>6. Unselectable(f) /\ request.command = "delete" => misses /\ strict
    BY DEF Unselectable, Selects, Missing, IInv, Types
  <1>7. Answer(f)
    OBVIOUS
  <1>8. CASE ~here
    BY <1>3, <1>4, <1>6, <1>7, <1>8 DEF Answer
  <1>9. CASE here /\ ~tries
    BY <1>3, <1>4, <1>6, <1>7, <1>9 DEF Answer
  <1>10. CASE misses /\ strict
    BY <1>3, <1>7, <1>10 DEF Answer
  <1>11. CASE misses /\ ~strict /\ F(f).owned
    <2>1. Partial(f, Missing(f)) /\ read[f] = "reading" /\ read' = [read EXCEPT ![f] = "done"]
      BY <1>7, <1>11 DEF Answer
    <2>2. Missing(f) \in SUBSET Items /\ Missing(f) # {} /\ request.command # "delete"
      BY <1>11, Requested DEF Missing, Selects, IInv, Types
    <2> HIDE DEF Read, misses, strict
    <2> QED
      BY <1>1, <1>2, <2>1, <2>2, PartialStep DEF TypeOK
  <1>12. CASE tries /\ ~(misses /\ (strict \/ F(f).owned))
    BY <1>4, <1>5, <1>6, <1>7, <1>12 DEF Answer
  <1> QED
    BY <1>8, <1>9, <1>10, <1>11, <1>12

LEMMA ReadFailsStep ==
  ASSUME IInv, NEW f \in Filters, ReadFails(f)
  PROVE  IInv'
  <1>1. /\ UNCHANGED <<request, pc, got, server, foreign, start, gone, collection, task>>
        /\ read[f] = "reading" /\ read' = [read EXCEPT ![f] = "done"]
        /\ faults' \in 0..MaxFaults
        /\ Problem(f, "server")
    BY PullConstantsOK DEF ReadFails, deleting, IInv, Types, TypeOK
  <1>2. got[f] \subseteq F(f).items /\ got' = [got EXCEPT ![f] = got[f]]
    BY <1>1 DEF IInv, Types, Complete, TypeOK
  <1>3. failed \subseteq failed'
    BY <1>1 DEF Problem, summary
  <1>4. Unselectable(f) /\ request.command = "delete" => got[f] = {}
    BY DEF IInv, Selection
  <1> QED
    BY <1>1, <1>2, <1>3, <1>4, ProblemOK, ReadEnds

LEMMA ReadPartiallyStep ==
  ASSUME IInv, NEW f \in Filters, ReadPartially(f)
  PROVE  IInv'
  <1>1. /\ UNCHANGED <<request, pc, server, foreign, start, gone, collection, task>>
        /\ read[f] = "reading" /\ read' = [read EXCEPT ![f] = "done"]
        /\ faults' \in 0..MaxFaults
        /\ request.command # "delete"
    BY PullConstantsOK DEF ReadPartially, Selects, deleting, IInv, Types, TypeOK
  <1>2. PICK bad \in (SUBSET Present(f)) \ {{}} : Partial(f, bad \cup Missing(f))
    BY DEF ReadPartially
  <1>3. bad \cup Missing(f) \in SUBSET Items /\ bad \cup Missing(f) # {}
    BY <1>2, Requested DEF Present, Missing, IInv, Types
  <1> QED
    BY <1>1, <1>2, <1>3, PartialStep

LEMMA ReadCancelledStep ==
  ASSUME IInv, NEW f \in Filters, ReadCancelled(f)
  PROVE  IInv'
  <1>1. /\ UNCHANGED <<request, pc, got, server, foreign, start, gone, collection, task, faults>>
        /\ UNCHANGED <<failed, skipped, succeeded>>
        /\ read[f] = "reading" /\ read' = [read EXCEPT ![f] = "done"]
        /\ GroupFails("cancelled") /\ TypeOK
    BY DEF ReadCancelled, deleting, world, summary, IInv, Types
  <1>2. got[f] \in SUBSET F(f).items /\ got' = [got EXCEPT ![f] = got[f]]
    BY <1>1 DEF IInv, Complete, TypeOK
  <1>3. /\ cancelled' \in {"no", "user", "group"} /\ error' \in {"failed", "cancelled"}
    BY <1>1 DEF GroupFails, TypeOK
  <1>4. Unselectable(f) /\ request.command = "delete" => got[f] = {}
    BY DEF IInv, Selection
  <1>5. ~Clean'
    BY <1>3 DEF Clean
  <1> QED
    BY <1>1, <1>2, <1>3, <1>4, <1>5, ReadEnds DEF TypeOK

-------------------------------------------------------------------------------
(* Between the reads and the deletions *)

\* A pull, or the reads of a deletion, that end with an error.
LEMMA PullEnds ==
  ASSUME IInv, AllRead, pc' = "ended", error' \in {"failed", "cancelled"},
         UNCHANGED <<request, read, got, collection, task, server, foreign, start, gone>>,
         cancelled' = cancelled, faults' \in 0..MaxFaults,
         failed' \subseteq [what : Filters \cup Items, why : {"server", "cancelled"}],
         \A x \in failed' : x \in failed \/ x.why = "server" \/ error' = "cancelled",
         skipped' \subseteq Filters \cup Items, succeeded' \subseteq Items
  PROVE  IInv'
  <1>1. /\ TypeOK /\ request \in Request /\ gone = {} /\ collection = {} /\ pc = "read"
        /\ \A i \in Items : task[i] = "waiting"
        /\ \A f \in Filters : read[f] = "done"
    BY Requested DEF AllRead, IInv, Types, Stages, TypeOK
  <1>2. Types' /\ Stages'
    BY <1>1 DEF IInv, Types, TypeOK, Stages
  <1>3. Complete'
    BY <1>1, Fixed DEF IInv, Complete, Clean
  <1>4. Selection'
    BY <1>1, Fixed DEF IInv, Selection
  <1>5. CancelIsNotAFailure'
    BY <1>1 DEF IInv, CancelIsNotAFailure
  <1> QED
    BY <1>1, <1>2, <1>3, <1>4, <1>5 DEF IInv, DryRunDeletesNothing

LEMMA ReadsFailedStep ==
  ASSUME IInv, ReadsFailed
  PROVE  IInv'
  <1>1. /\ AllRead /\ pc' = "ended" /\ error # "none"
        /\ UNCHANGED <<request, read, got, error, cancelled, collection, task, failed, skipped,
                       succeeded, server, faults, foreign, start, gone>>
    BY DEF ReadsFailed, Ended, GroupFailed, reading, deleting, summary, world
  <1> QED
    BY <1>1, PullEnds DEF IInv, Types, TypeOK

\* What is left to insert are items, and refusals cost a fault.
LEMMA KeptOK ==
  ASSUME IInv
  PROVE  /\ Fetched \subseteq Items /\ Kept \subseteq Fetched
         /\ \A bad : Refuses(bad) => faults' \in 0..MaxFaults
  <1>1. TypeOK
    BY DEF IInv, Types
  <1>2. Fetched \subseteq Items /\ Kept \subseteq Fetched
    BY <1>1 DEF Fetched, Kept, TypeOK
  <1>3. ASSUME NEW bad, Refuses(bad) PROVE faults' \in 0..MaxFaults
    BY <1>1, <1>3, PullConstantsOK DEF Refuses, TypeOK
  <1> QED
    BY <1>2, <1>3

LEMMA PreflightCancelledStep ==
  ASSUME IInv, PreflightCancelled
  PROVE  IInv'
  <1>1. /\ AllRead /\ pc' = "ended" /\ error' = "cancelled"
        /\ UNCHANGED <<request, read, got, cancelled, collection, task, skipped, succeeded,
                       server, foreign, start, gone>>
    BY DEF PreflightCancelled, Ended, deleting
  <1>2. PICK i \in Kept : \E bad \in SUBSET Kept :
          /\ Refuses(bad)
          /\ failed' = failed \cup Entries(bad, "server") \cup Entries({i}, "cancelled")
    BY DEF PreflightCancelled
  <1>3. /\ failed' \subseteq [what : Filters \cup Items, why : {"server", "cancelled"}]
        /\ faults' \in 0..MaxFaults
    BY <1>2, KeptOK DEF Entries, IInv, Types, TypeOK
  <1> QED
    BY <1>1, <1>3, PullEnds DEF IInv, Types, TypeOK

LEMMA InsertFailsStep ==
  ASSUME IInv, InsertFails
  PROVE  IInv'
  <1>1. /\ AllRead /\ pc' = "ended" /\ error' \in {"failed", "cancelled"}
        /\ UNCHANGED <<request, read, got, cancelled, collection, task, failed, skipped,
                       succeeded, server, foreign, start, gone>>
    BY DEF InsertFails, Ended, deleting, summary
  <1>2. faults' \in 0..MaxFaults
    BY PullConstantsOK DEF InsertFails, IInv, Types, TypeOK
  <1> QED
    BY <1>1, <1>2, PullEnds DEF IInv, Types, TypeOK

LEMMA InsertStep ==
  ASSUME IInv, Insert
  PROVE  IInv'
  <1>1. /\ UNCHANGED <<request, read, got, cancelled, task, server, foreign, start, gone>>
        /\ AllRead /\ pc = "read" /\ \A f \in Filters : read[f] = "done"
        /\ error = "none"
    BY DEF Insert, AllRead, GroupFailed
  <1>2. /\ TypeOK /\ request \in Request /\ gone = {} /\ collection = {}
        /\ \A i \in Items : task[i] = "waiting"
        /\ request.command \in {"pull", "delete"}
        /\ \A f \in Filters : got[f] \subseteq F(f).items
    BY <1>1, Requested DEF IInv, Types, Stages, Complete, TypeOK, Request, Commands
  <1>3. PICK bad \in SUBSET Kept :
          /\ Refuses(bad)
          /\ failed' = failed \cup Entries(bad, "server")
          /\ IF request.stop /\ bad # {}
             THEN Ended /\ error' = "failed" /\ UNCHANGED <<collection, succeeded>>
             ELSE /\ collection' = Kept \ bad
                  /\ succeeded' = IF request.command = "pull" THEN Kept \ bad ELSE {}
                  /\ pc' = IF request.command = "pull" THEN "ended" ELSE "delete"
                  /\ UNCHANGED error
    BY DEF Insert
  <1>4. /\ faults' \in 0..MaxFaults /\ Kept \subseteq Items
        /\ failed' \subseteq [what : Filters \cup Items, why : {"server", "cancelled"}]
        /\ \A x \in failed' : x \in failed \/ x.why = "server"
    BY <1>2, <1>3, KeptOK DEF Entries, TypeOK
  <1>5. /\ skipped \subseteq skipped' /\ skipped' \subseteq Filters \cup Items
        /\ request.command = "delete" => Fetched \cap ReadOnly \subseteq skipped'
    BY <1>2, KeptOK DEF Insert, SkipsReadOnly, TypeOK
  <1>6. CASE request.stop /\ bad # {}
    <2>1. pc' = "ended" /\ error' = "failed" /\ UNCHANGED <<collection, succeeded>>
      BY <1>3, <1>6 DEF Ended
    <2> QED
      BY <1>1, <1>2, <1>4, <1>5, <2>1, PullEnds DEF TypeOK
  <1>7. CASE ~(request.stop /\ bad # {})
    <2>1. /\ collection' = Kept \ bad
          /\ succeeded' = IF request.command = "pull" THEN Kept \ bad ELSE {}
          /\ pc' = IF request.command = "pull" THEN "ended" ELSE "delete"
          /\ UNCHANGED error
      BY <1>3, <1>7
    <2>2. Types' /\ Stages'
      BY <1>1, <1>2, <1>4, <1>5, <2>1 DEF IInv, Types, TypeOK, Stages
    <2>3. Clean' => Clean /\ bad = {}
      <3>1. ASSUME NEW i \in bad PROVE failed' # {}
        <4>1. [what |-> i, why |-> "server"] \in failed'
          BY <1>3 DEF Entries
        <4> QED
          BY <4>1
      <3> QED
        BY <1>3, <2>1, <3>1 DEF Clean
    <2>4. ASSUME NEW f \in Filters, Clean'
          PROVE  \/ f \in skipped'
                 \/ IF request.command = "pull" THEN Present(f) \ Managed \subseteq collection'
                    ELSE Present(f) \subseteq collection' \cup skipped'
      <3>1. f \in skipped \/ Present(f) \subseteq got[f]
        BY <1>1, <2>3, <2>4 DEF IInv, Complete
      <3>2. CASE f \in skipped
        BY <1>5, <3>2
      <3>3. CASE Present(f) \subseteq got[f]
        <4>1. Present(f) \subseteq Fetched
          BY <3>3 DEF Fetched
        <4> QED
          BY <1>2, <1>5, <2>1, <2>3, <2>4, <4>1 DEF Kept
      <3> QED
        BY <3>1, <3>2, <3>3
    <2>5. Complete'
      <3>1. \A f \in Filters : F(f)' = F(f) /\ Present(f)' = Present(f)
        BY <1>1, Fixed DEF Present
      <3>2. \A f \in Filters : read'[f] = "done" /\ Clean' =>
                                 f \in skipped' \/ Present(f) \subseteq got'[f]
        BY <1>1, <1>5, <2>3 DEF IInv, Complete
      <3>3. \A i \in collection' : task'[i] # "done"
        BY <1>1, <1>2, <1>4, <2>1
      <3> QED
        BY <1>1, <1>2, <2>4, <3>1, <3>2, <3>3 DEF Complete
    <2>6. Selection'
      <3> SUFFICES ASSUME NEW f \in Filters, Unselectable(f)
                   PROVE  /\ request.command = "delete" => got[f] = {}
                          /\ request.stop => gone = {} /\ pc' # "delete" /\ error # "none"
        BY <1>1, <2>1, Fixed DEF Selection
      <3>1. request.command = "delete"
        BY <1>2 DEF Unselectable
      <3> QED
        BY <1>1, <3>1 DEF IInv, Selection
    <2>7. CancelIsNotAFailure'
      BY <1>1, <1>2, <1>4, <2>1 DEF IInv, CancelIsNotAFailure
    <2> QED
      BY <1>1, <1>2, <2>2, <2>5, <2>6, <2>7 DEF IInv, DryRunDeletesNothing
  <1> QED
    BY <1>6, <1>7

LEMMA SelectLocalStep ==
  ASSUME IInv, SelectLocal
  PROVE  IInv'
  <1>1. /\ UNCHANGED <<request, read, got, cancelled, task, skipped, succeeded, server, foreign,
                       start, gone>>
        /\ pc = "select"
    BY DEF SelectLocal
  <1>2. /\ TypeOK /\ request \in Request /\ gone = {} /\ collection = {}
        /\ \A i \in Items : task[i] = "waiting"
        /\ request.command = "deleteFiles"
        /\ failed = {} /\ error = "none"
        /\ \A f \in Filters : read[f] = "waiting" /\ F(f).items \subseteq Items
    BY <1>1, Requested DEF IInv, Types, Stages, TypeOK
  <1>3. PICK bad \in SUBSET { f \in Filters : F(f).owned } : \E cut \in SUBSET bad :
          /\ \A f \in Filters : F(f).owned /\ Present(f) # F(f).items => f \in bad
          /\ LET own == { f \in bad \ cut : Present(f) = F(f).items }
             IN  Cardinality(own) <= MaxFaults - faults /\ faults' = faults + Cardinality(own)
          /\ LET entries(f) == Entries(F(f).items, IF f \in cut THEN "cancelled" ELSE "server")
             IN  IF request.stop /\ bad # {}
                 THEN /\ \E f \in bad : failed' = entries(f)
                                       /\ error' = IF f \in cut THEN "cancelled" ELSE "failed"
                      /\ Ended /\ UNCHANGED collection
                 ELSE /\ failed' = UNION { entries(f) : f \in bad }
                      /\ collection' = (UNION { F(f).items : f \in Filters }) \ Unselected(bad)
                      /\ pc' = "delete" /\ UNCHANGED error
    BY DEF SelectLocal
  <1> DEFINE entries(f, cut) ==
               Entries(F(f).items, IF f \in cut THEN "cancelled" ELSE "server")
  <1>4. PICK cut \in SUBSET bad :
          /\ LET own == { f \in bad \ cut : Present(f) = F(f).items }
             IN  Cardinality(own) <= MaxFaults - faults /\ faults' = faults + Cardinality(own)
          /\ IF request.stop /\ bad # {}
             THEN /\ \E f \in bad : failed' = entries(f, cut)
                                   /\ error' = IF f \in cut THEN "cancelled" ELSE "failed"
                  /\ Ended /\ UNCHANGED collection
             ELSE /\ failed' = UNION { entries(f, cut) : f \in bad }
                  /\ collection' = (UNION { F(f).items : f \in Filters }) \ Unselected(bad)
                  /\ pc' = "delete" /\ UNCHANGED error
    BY <1>3
  <1>5. faults' \in 0..MaxFaults
    <2> DEFINE own == { f \in bad \ cut : Present(f) = F(f).items }
    <2>1. own \subseteq Filters
      OBVIOUS
    <2>2. Cardinality(own) \in Nat
      BY <2>1, PullConstantsOK, FS_Subset, FS_CardinalityType
    <2>3. Cardinality(own) <= MaxFaults - faults /\ faults' = faults + Cardinality(own)
      BY <1>4
    <2> HIDE DEF own
    <2> QED
      BY <1>2, <2>2, <2>3, PullConstantsOK DEF TypeOK
  <1>5a. failed' \subseteq [what : Filters \cup Items, why : {"server", "cancelled"}]
    <2>1. \A f \in bad : entries(f, cut) \subseteq
                           [what : Filters \cup Items, why : {"server", "cancelled"}]
      BY <1>2 DEF Entries
    <2> HIDE DEF entries
    <2>2. CASE request.stop /\ bad # {}
      BY <1>4, <2>1, <2>2
    <2>3. CASE ~(request.stop /\ bad # {})
      BY <1>4, <2>1, <2>3
    <2> QED
      BY <2>2, <2>3
  <1>6. \A f \in Filters : Unselectable(f) => f \in bad
    BY <1>2, <1>3 DEF Unselectable, Present, IInv, Types
  <1>7. CASE request.stop /\ bad # {}
    <2>1. pc' = "ended" /\ error' \in {"failed", "cancelled"} /\ UNCHANGED collection
      BY <1>4, <1>7 DEF Ended
    <2>2. Types' /\ Stages'
      BY <1>1, <1>2, <1>5, <1>5a, <2>1 DEF IInv, Types, TypeOK, Stages
    <2>3. Complete'
      BY <1>1, <1>2, <2>1, Fixed DEF IInv, Complete, Clean
    <2>4. Selection'
      BY <1>1, <1>2, <2>1, Fixed DEF IInv, Selection
    <2> QED
      BY <1>1, <1>2, <2>1, <2>2, <2>3, <2>4
      DEF IInv, DryRunDeletesNothing, CancelIsNotAFailure
  <1>8. CASE ~(request.stop /\ bad # {})
    <2>1. /\ failed' = UNION { entries(f, cut) : f \in bad }
          /\ collection' = (UNION { F(f).items : f \in Filters }) \ Unselected(bad)
          /\ pc' = "delete" /\ UNCHANGED error
      BY <1>4, <1>8
    <2>2. collection' \subseteq Items
      BY <1>2, <2>1
    <2>3. Types' /\ Stages'
      BY <1>1, <1>2, <1>5, <1>5a, <2>1, <2>2 DEF IInv, Types, TypeOK, Stages
    <2>4. Clean' => Unselected(bad) = {}
      <3>1. ASSUME NEW i \in Unselected(bad) PROVE failed' # {}
        <4>1. PICK f \in bad : i \in F(f).items
          BY <3>1 DEF Unselected
        <4>2. [what |-> i, why |-> IF f \in cut THEN "cancelled" ELSE "server"] \in entries(f, cut)
          BY <4>1 DEF Entries
        <4> QED
          BY <2>1, <4>2
      <3> QED
        BY <3>1 DEF Clean
    <2>5. Clean' => \A f \in Filters : Present(f) \subseteq collection'
      BY <2>1, <2>4 DEF Present
    <2>6. Complete'
      <3>1. \A f \in Filters : F(f)' = F(f) /\ Present(f)' = Present(f)
        BY <1>1, Fixed DEF Present
      <3>2. \A i \in collection' : task'[i] # "done"
        BY <1>1, <1>2, <2>2
      <3> QED
        BY <1>1, <1>2, <2>5, <3>1, <3>2 DEF IInv, Complete
    <2>7. Selection'
      BY <1>1, <1>2, <1>6, <1>8, Fixed DEF IInv, Selection
    <2> QED
      BY <1>1, <1>2, <2>3, <2>6, <2>7 DEF IInv, DryRunDeletesNothing, CancelIsNotAFailure
  <1> QED
    BY <1>7, <1>8

-------------------------------------------------------------------------------
(* Deleting *)

\* A deletion that ends, in whatever way: what it has to leave behind.
LEMMA DeletionEnds ==
  ASSUME IInv, NEW i \in collection,
         pc = "delete", task' = [task EXCEPT ![i] = "done"],
         UNCHANGED <<request, pc, read, got, collection, foreign, start>>,
         faults' \in 0..MaxFaults,
         failed' \subseteq [what : Filters \cup Items, why : {"server", "cancelled"}],
         failed \subseteq failed', \A x \in failed' : x \in failed \/ x.what = i,
         skipped \subseteq skipped', skipped' \subseteq Filters \cup Items,
         succeeded' \subseteq Items,
         server' \in {server, server \ {i}}, gone' \in {gone, gone \cup (server \cap {i})},
         request.dry => gone' = gone,
         cancelled' \in {"no", "user", "group"}, error' \in {"none", "failed", "cancelled"},
         error # "none" => error' # "none",
         Clean' /\ ~request.dry => i \notin server' \/ i \in skipped'
  PROVE  IInv'
  <1>1. TypeOK /\ i \in Items
    BY DEF IInv, Types, TypeOK
  <1>2. gone' \subseteq Items /\ gone' \subseteq collection
    BY <1>1 DEF TypeOK, IInv, Stages
  <1>3. Types'
    BY <1>1, <1>2 DEF IInv, Types, TypeOK
  <1>4. Stages'
    BY <1>1, <1>2 DEF IInv, TypeOK, Stages
  <1>5. Complete'
    <2>1. Clean' => Clean
      BY <1>1 DEF TypeOK, Clean
    <2>2. \A f \in Filters : F(f)' = F(f) /\ Present(f)' \subseteq Present(f)
      BY Fixed DEF Present
    <2>3. ASSUME NEW f \in Filters
          PROVE  /\ got'[f] \subseteq F(f).items
                 /\ read'[f] = "done" /\ Clean' => f \in skipped' \/ Present(f)' \subseteq got'[f]
                 /\ Clean' =>
                     \/ f \in skipped'
                     \/ IF request.command = "pull" THEN Present(f)' \ Managed \subseteq collection'
                        ELSE Present(f)' \subseteq collection' \cup skipped'
      BY <2>1, <2>2 DEF IInv, Complete
    <2>4. ASSUME Clean', ~request.dry, NEW j \in collection, task'[j] = "done"
          PROVE  j \notin server' \/ j \in skipped'
      <3>1. CASE j = i
        BY <2>4, <3>1
      <3>2. CASE j # i
        BY <1>1, <2>1, <2>4, <3>2 DEF IInv, Complete, TypeOK
      <3> QED
        BY <3>1, <3>2
    <2> QED
      BY <2>2, <2>3, <2>4 DEF Complete
  <1>6. Selection'
    <2>1. \A f \in Filters : Unselectable(f) => ~request.stop
      BY DEF IInv, Selection
    <2> QED
      BY <2>1, Fixed DEF IInv, Selection
  <1>7. DryRunDeletesNothing'
    BY DEF IInv, DryRunDeletesNothing
  <1>8. CancelIsNotAFailure'
    <2>1. \A j \in Items : task[j] = "done" \/ j = i => task'[j] = "done"
      BY <1>1 DEF TypeOK
    <2> SUFFICES ASSUME NEW x \in failed', x.why = "cancelled", request.command # "deleteFiles"
                 PROVE  x.what \in Items /\ task'[x.what] = "done"
      BY DEF CancelIsNotAFailure
    <2>2. CASE x.what = i
      BY <1>1, <2>1, <2>2
    <2>3. CASE x \in failed
      <3>1. CancelIsNotAFailure /\ pc # "ended"
        BY DEF IInv
      <3> QED
        BY <2>1, <2>3, <3>1 DEF CancelIsNotAFailure
    <2> QED
      BY <2>2, <2>3
  <1> QED
    BY <1>3, <1>4, <1>5, <1>6, <1>7, <1>8 DEF IInv

LEMMA StartDeleteStep ==
  ASSUME IInv, NEW i \in Items, StartDelete(i)
  PROVE  IInv'
  <1>1. /\ pc = "delete" /\ i \in collection /\ task[i] = "waiting"
        /\ UNCHANGED <<request, pc, read, got, collection, failed, succeeded,
                       server, faults, foreign, start, gone>>
    BY DEF StartDelete, world
  <1>2. Types /\ TypeOK
    BY DEF IInv, Types
  <1>3. CASE i \in Unsupported
    <2>1. /\ task' = [task EXCEPT ![i] = "done"] /\ UNCHANGED skipped
          /\ IF request.stop THEN GroupFails("failed") ELSE UNCHANGED <<error, cancelled>>
      BY <1>3 DEF StartDelete, Ends
    <2>2. /\ cancelled' \in {"no", "user", "group"} /\ error' \in {"none", "failed", "cancelled"}
          /\ error # "none" => error' # "none"
      BY <1>2, <2>1 DEF GroupFails, TypeOK
    <2>3. i \notin server'
      BY <1>1, <1>2, <1>3 DEF Types
    <2> QED
      BY <1>1, <1>2, <2>1, <2>2, <2>3, DeletionEnds DEF TypeOK
  <1>4. CASE i \notin Unsupported /\ i \in ReadOnly
    <2>1. task' = [task EXCEPT ![i] = "done"] /\ skipped' = skipped \cup {i}
          /\ UNCHANGED <<error, cancelled>>
      BY <1>4 DEF StartDelete, Ends
    <2> QED
      BY <1>1, <1>2, <2>1, DeletionEnds DEF TypeOK
  <1>5. CASE i \notin Unsupported /\ i \notin ReadOnly
    <2>1. task' = [task EXCEPT ![i] = "sending"] /\ UNCHANGED <<skipped, error, cancelled>>
      BY <1>5 DEF StartDelete
    <2>2. Types' /\ Stages'
      BY <1>1, <2>1 DEF IInv, Types, TypeOK, Stages
    <2>3. Complete'
      <3>1. \A f \in Filters : F(f)' = F(f) /\ Present(f)' = Present(f)
        BY <1>1, Fixed DEF Present
      <3> QED
        BY <1>1, <1>2, <2>1, <3>1 DEF IInv, Complete, Clean, TypeOK
    <2>4. Selection'
      BY <1>1, <2>1, Fixed DEF IInv, Selection
    <2>5. \A j \in Items : task[j] = "done" => task'[j] = "done"
      BY <1>1, <1>2, <2>1 DEF TypeOK
    <2>6. CancelIsNotAFailure'
      <3>1. CancelIsNotAFailure
        BY DEF IInv
      <3> QED
        BY <1>1, <2>5, <3>1 DEF CancelIsNotAFailure
    <2>7. DryRunDeletesNothing'
      BY <1>1 DEF IInv, DryRunDeletesNothing
    <2> QED
      BY <2>2, <2>3, <2>4, <2>6, <2>7 DEF IInv
  <1> QED
    BY <1>3, <1>4, <1>5

\* What is being sent is in the collection, and the stage is the deletion.
LEMMA Sending ==
  ASSUME IInv, NEW i \in Items, task[i] = "sending"
  PROVE  i \in collection /\ pc = "delete"
  BY DEF IInv, Stages

LEMMA DeleteUnsentStep ==
  ASSUME IInv, NEW i \in Items, DeleteUnsent(i)
  PROVE  IInv'
  <1>1. /\ task[i] = "sending" /\ task' = [task EXCEPT ![i] = "done"]
        /\ skipped' = skipped \cup {i}
        /\ UNCHANGED <<request, pc, read, got, error, cancelled, collection, failed, succeeded,
                       server, faults, foreign, start, gone>>
    BY DEF DeleteUnsent, Ends, reading, world
  <1>2. i \in collection /\ pc = "delete"
    BY <1>1, Sending
  <1> QED
    BY <1>1, <1>2, DeletionEnds DEF IInv, Types, TypeOK

\* The entry of a deletion that fails.
LEMMA FailureOK ==
  ASSUME IInv, NEW i \in Items, NEW why \in {"server", "cancelled"}, Fails(i, why)
  PROVE  /\ failed' \subseteq [what : Filters \cup Items, why : {"server", "cancelled"}]
         /\ failed \subseteq failed' /\ \A x \in failed' : x \in failed \/ x.what = i
         /\ cancelled' \in {"no", "user", "group"} /\ error' \in {"none", "failed", "cancelled"}
         /\ error # "none" => error' # "none"
         /\ ~Clean' /\ UNCHANGED <<skipped, succeeded>>
  <1>1. TypeOK
    BY DEF IInv, Types
  <1>2. /\ failed' = failed \cup {[what |-> i, why |-> why]}
        /\ IF request.stop THEN GroupFails("failed") ELSE UNCHANGED <<error, cancelled>>
        /\ UNCHANGED <<skipped, succeeded>>
    BY DEF Fails
  <1>3. [what |-> i, why |-> why] \in [what : Filters \cup Items, why : {"server", "cancelled"}]
    OBVIOUS
  <1>4. failed' \subseteq [what : Filters \cup Items, why : {"server", "cancelled"}]
    BY <1>1, <1>2, <1>3 DEF TypeOK
  <1>5. [what |-> i, why |-> why] \in failed'
    BY <1>2
  <1>6. failed' # {}
    BY <1>5
  <1>7. /\ cancelled' \in {"no", "user", "group"} /\ error' \in {"none", "failed", "cancelled"}
        /\ error # "none" => error' # "none"
    BY <1>1, <1>2 DEF GroupFails, TypeOK
  <1> QED
    BY <1>2, <1>4, <1>6, <1>7 DEF Clean

LEMMA DeleteStep ==
  ASSUME IInv, NEW i \in Items, Delete(i)
  PROVE  IInv'
  <1>1. /\ task[i] = "sending" /\ task' = [task EXCEPT ![i] = "done"] /\ Sends(i)
        /\ IF i \in server THEN Succeeds(i) ELSE Fails(i, "server")
        /\ IF request.dry /\ i \in HonorsDryRun THEN UNCHANGED <<server, gone>> ELSE Removes(i)
        /\ UNCHANGED <<request, pc, read, got, collection, faults, foreign, start>>
    BY DEF Delete, Ends
  <1>2. i \in collection /\ pc = "delete" /\ TypeOK
    BY <1>1, Sending DEF IInv, Types
  <1>3. /\ server' \in {server, server \ {i}} /\ gone' \in {gone, gone \cup (server \cap {i})}
        /\ request.dry => gone' = gone
        /\ ~request.dry => i \notin server'
    BY <1>1 DEF Removes, Sends
  <1>4. CASE i \in server
    <2>1. succeeded' = succeeded \cup {i} /\ UNCHANGED <<failed, skipped, error, cancelled>>
      BY <1>1, <1>4 DEF Succeeds
    <2> QED
      BY <1>1, <1>2, <1>3, <2>1, DeletionEnds DEF TypeOK
  <1>5. CASE i \notin server
    <2>1. Fails(i, "server")
      BY <1>1, <1>5
    <2> QED
      BY <1>1, <1>2, <1>3, <2>1, FailureOK, DeletionEnds DEF TypeOK
  <1> QED
    BY <1>4, <1>5

LEMMA DeleteFailsStep ==
  ASSUME IInv, NEW i \in Items, DeleteFails(i)
  PROVE  IInv'
  <1> DEFINE why == IF cancelled = "user" THEN "cancelled" ELSE "server"
  <1>1. /\ task[i] = "sending" /\ task' = [task EXCEPT ![i] = "done"]
        /\ IF cancelled # "no" THEN UNCHANGED faults ELSE faults < MaxFaults /\ faults' = faults + 1
        /\ Fails(i, why)
        /\ IF request.dry THEN UNCHANGED <<server, gone>>
           ELSE Removes(i) \/ UNCHANGED <<server, gone>>
        /\ UNCHANGED <<request, pc, read, got, collection, foreign, start>>
    BY DEF DeleteFails, Ends
  <1>2. i \in collection /\ pc = "delete" /\ TypeOK
    BY <1>1, Sending DEF IInv, Types
  <1>3. /\ server' \in {server, server \ {i}} /\ gone' \in {gone, gone \cup (server \cap {i})}
        /\ request.dry => gone' = gone
    BY <1>1 DEF Removes
  <1>4. faults' \in 0..MaxFaults
    BY <1>1, <1>2, PullConstantsOK DEF TypeOK
  <1>5. why \in {"server", "cancelled"}
    OBVIOUS
  <1> HIDE DEF why
  <1> QED
    BY <1>1, <1>2, <1>3, <1>4, <1>5, FailureOK, DeletionEnds DEF TypeOK

LEMMA FinishStep ==
  ASSUME IInv, Finish
  PROVE  IInv'
  <1>1. /\ pc = "delete" /\ pc' = "ended" /\ \A i \in collection : task[i] = "done"
        /\ UNCHANGED <<request, read, got, error, cancelled, collection, task, failed, skipped,
                       succeeded, server, faults, foreign, start, gone>>
    BY DEF Finish, Ended, reading, summary, world
  <1>2. \A f \in Filters : F(f)' = F(f) /\ Present(f)' = Present(f)
    BY <1>1, Fixed DEF Present
  <1>3. Types' /\ Stages'
    BY <1>1 DEF IInv, Types, TypeOK, Stages
  <1>4. Complete'
    BY <1>1, <1>2 DEF IInv, Complete, Clean
  <1>5. Selection'
    BY <1>1, Fixed DEF IInv, Selection
  <1> QED
    BY <1>1, <1>3, <1>4, <1>5 DEF IInv, Stages, DryRunDeletesNothing, CancelIsNotAFailure

-------------------------------------------------------------------------------
(* The environment *)

\* An interrupt, a deletion by another client, or nothing at all.
LEMMA OutsideStep ==
  ASSUME IInv, server' \subseteq server,
         UNCHANGED <<request, pc, read, got, error, collection, task, failed, skipped, succeeded,
                     faults, start, gone>>,
         cancelled' \in {"no", "user", "group"}, foreign' \in 0..MaxForeign
  PROVE  IInv'
  <1>1. \A f \in Filters : F(f)' = F(f) /\ Present(f)' \subseteq Present(f)
    BY Fixed DEF Present
  <1>2. Types' /\ Stages'
    BY DEF IInv, Types, TypeOK, Stages
  <1>3. Complete'
    BY <1>1 DEF IInv, Complete, Clean
  <1>4. Selection'
    BY Fixed DEF IInv, Selection
  <1> QED
    BY <1>2, <1>3, <1>4 DEF IInv, DryRunDeletesNothing, CancelIsNotAFailure

LEMMA NextOK == IInv /\ [Next]_vars => IInv'
  <1> SUFFICES ASSUME IInv, [Next]_vars PROVE IInv'
    OBVIOUS
  <1>1. TypeOK
    BY DEF IInv, Types
  <1>2. CASE Step
    BY <1>2, StartReadStep, ReadStep, ReadFailsStep, ReadPartiallyStep, ReadCancelledStep,
       ReadsFailedStep, InsertStep, PreflightCancelledStep, InsertFailsStep, SelectLocalStep, StartDeleteStep, DeleteUnsentStep, DeleteStep,
       DeleteFailsStep, FinishStep DEF Step
  <1>3. CASE Interrupt
    BY <1>1, <1>3, OutsideStep DEF Interrupt, summary, world, TypeOK
  <1>4. ASSUME NEW i \in Items, Foreign(i) PROVE IInv'
    BY <1>1, <1>4, OutsideStep, PullConstantsOK DEF Foreign, reading, deleting, summary, TypeOK
  <1>5. CASE UNCHANGED vars
    BY <1>1, <1>5, OutsideStep DEF vars, TypeOK
  <1> QED
    BY <1>2, <1>3, <1>4, <1>5 DEF Next

\* What every property below rests on.
THEOREM Invariance == Spec => []IInv
  BY InitOK, NextOK, PTL DEF Spec

-------------------------------------------------------------------------------
(* The theorems *)

\* Types, and that no more places, faults or deletions by others are used than
\* there are.
THEOREM TypeCorrect == Spec => []TypeOK
  <1>1. IInv => TypeOK
    BY DEF IInv, Types
  <1> QED
    BY <1>1, Invariance, PTL

\* The exit code: a command that exits 0 has done what it was asked to, except
\* for what its output lists as skipped.
THEOREM ZeroMeansDoneHolds == Spec => []ZeroMeansDone
  <1>1. IInv => ZeroMeansDone
    <2> SUFFICES ASSUME IInv, ExitOK, NEW f \in Filters, f \notin skipped
                 PROVE  IF request.command = "pull"
                        THEN (F(f).items \cap server) \ Managed \subseteq collection
                        ELSE request.dry \/ F(f).items \cap server \subseteq skipped
      BY DEF ZeroMeansDone, SkippedWhole
    <2>1. pc = "ended" /\ Clean
      BY DEF ExitOK, Clean
    <2>2. IF request.command = "pull" THEN Present(f) \ Managed \subseteq collection
          ELSE Present(f) \subseteq collection \cup skipped
      BY <2>1 DEF IInv, Complete
    <2>3. request.command # "pull" => \A i \in collection : task[i] = "done"
      BY <2>1 DEF IInv, Stages, Clean
    <2>4. ~request.dry => \A i \in collection : task[i] = "done" => i \notin server \/ i \in skipped
      BY <2>1 DEF IInv, Complete
    <2> QED
      BY <2>2, <2>3, <2>4 DEF Present
  <1> QED
    BY <1>1, Invariance, PTL

\* puller.go: what an interrupt ends among the reads, the preflights and the
\* selections of a pull or of a deletion by filters is a failure of no summary
\* that is reported: where the code records it, as for a preflight, the command
\* has ended with the cancellation.
THEOREM CancelHolds == Spec => []CancelIsNotAFailure
  <1>1. IInv => CancelIsNotAFailure
    BY DEF IInv
  <1> QED
    BY <1>1, Invariance, PTL

\* dryRunGuard.Delete: a dry run deletes nothing.
THEOREM DryRunHolds == Spec => []DryRunDeletesNothing
  <1>1. IInv => DryRunDeletesNothing
    BY DEF IInv
  <1> QED
    BY <1>1, Invariance, PTL

\* Filters of different kinds: no item belongs to two of them.
Disjoint == \A q \in Requests : \A f, g \in Filters :
              f # g => q.filters[f].items \cap q.filters[g].items = {}

\* Nothing of a filter that could not be selected is collected for deletion.
Spared == \A f \in Filters : Unselectable(f) => collection \cap F(f).items = {}

LEMMA SparedStep ==
  ASSUME Disjoint, IInv, Spared, [Next]_vars
  PROVE  Spared'
  <1>1. Types /\ TypeOK
    BY DEF IInv, Types
  <1>2. CASE UNCHANGED <<request, start, collection>>
    BY <1>2, Fixed DEF Spared
  <1>3. CASE Insert
    <2>1. UNCHANGED <<request, start>> /\ pc = "read"
      BY <1>3 DEF Insert, AllRead
    <2>2. collection' \subseteq collection \cup UNION { got[g] : g \in Filters }
      BY <1>3 DEF Insert, Kept, Fetched
    <2> SUFFICES ASSUME NEW f \in Filters, Unselectable(f), NEW i \in collection', i \in F(f).items
                 PROVE  FALSE
      BY <2>1, Fixed DEF Spared
    <2>3. collection = {} /\ request.command = "delete"
      BY <2>1 DEF IInv, Stages, Unselectable
    <2>4. PICK g \in Filters : i \in got[g]
      BY <2>2, <2>3
    <2>5. got[f] = {} /\ i \in F(g).items
      BY <2>3, <2>4 DEF IInv, Selection, Complete
    <2>6. f # g
      BY <2>4, <2>5
    <2> QED
      BY <1>1, <2>5, <2>6 DEF Disjoint, Types, F
  <1>4. CASE SelectLocal
    <2>1. UNCHANGED <<request, start>> /\ pc = "select"
      BY <1>4 DEF SelectLocal
    <2>2. PICK bad \in SUBSET { f \in Filters : F(f).owned } :
            /\ \A f \in Filters : F(f).owned /\ Present(f) # F(f).items => f \in bad
            /\ \/ collection' = collection
               \/ collection' = (UNION { F(f).items : f \in Filters }) \ Unselected(bad)
      BY <1>4 DEF SelectLocal
    <2>3. \A f \in Filters : Unselectable(f) => f \in bad
      BY <1>1, <2>2 DEF Unselectable, Present, Types
    <2>4. collection = {}
      BY <2>1 DEF IInv, Stages
    <2>5. ASSUME NEW f \in Filters, Unselectable(f) PROVE collection' \cap F(f).items = {}
      <3>1. f \in bad
        BY <2>3, <2>5
      <3>2. F(f).items \subseteq Unselected(bad)
        BY <3>1 DEF Unselected
      <3>3. collection' \cap Unselected(bad) = {}
        BY <2>2, <2>4
      <3> QED
        BY <3>2, <3>3
    <2> QED
      BY <2>1, <2>5, Fixed DEF Spared
  <1>5. ASSUME Next, ~Insert, ~SelectLocal PROVE UNCHANGED <<request, start, collection>>
    BY <1>5 DEF Next, Step, StartRead, Read, ReadFails, ReadPartially, ReadCancelled, ReadsFailed,
                PreflightCancelled, InsertFails, reading, StartDelete, DeleteUnsent, Delete, DeleteFails, Finish, Interrupt, Foreign, world, deleting
  <1> QED
    BY <1>2, <1>3, <1>4, <1>5 DEF vars

\* deleter.go: "Selection failures cannot allow any manifest in the failed kind
\* to be deleted", where no item is asked for twice, as part of two kinds.
THEOREM SelectionHolds ==
  ASSUME Disjoint
  PROVE  Spec => []NothingAfterFailedSelection
  <1>1. Init => Spared
    BY DEF Init, Spared
  <1>2. IInv /\ Spared /\ [Next]_vars => Spared'
    BY SparedStep
  <1>3. IInv /\ Spared => NothingAfterFailedSelection
    BY Requested DEF IInv, Types, TypeOK, Stages, Selection, Spared, NothingAfterFailedSelection
  <1> QED
    BY <1>1, <1>2, <1>3, Invariance, PTL DEF Spec

-------------------------------------------------------------------------------
(* A command only goes on *)

\* The order of the stages, and of what is done for a filter or an item.
Place(s) == CASE s \in {"read", "select", "waiting"}   -> 0
              [] s \in {"delete", "reading", "sending"} -> 1
              [] OTHER                                  -> 2

\* puller.go, deleter.go: nothing is read or deleted a second time, no stage
\* comes back, and each step of the command brings one of them further. A
\* command with finitely many filters and items takes a bounded number of steps.
OnlyGoesOn ==
  [][/\ Place(pc') >= Place(pc)
     /\ \A f \in Filters : Place(read'[f]) >= Place(read[f])
     /\ \A i \in Items : Place(task'[i]) >= Place(task[i])
     /\ Step => \/ Place(pc') > Place(pc)
                \/ \E f \in Filters : Place(read'[f]) > Place(read[f])
                \/ \E i \in Items : Place(task'[i]) > Place(task[i])]_vars

LEMMA Places ==
  /\ Place("read") = 0    /\ Place("select") = 0 /\ Place("waiting") = 0
  /\ Place("delete") = 1  /\ Place("reading") = 1 /\ Place("sending") = 1
  /\ Place("ended") = 2   /\ Place("done") = 2
  BY DEF Place

\* A read begins, or ends.
LEMMA ReadGoesOn ==
  ASSUME TypeOK, NEW f \in Filters, NEW s \in {"reading", "done"},
         read' = [read EXCEPT ![f] = s], Place(s) > Place(read[f]),
         pc' = pc, UNCHANGED task
  PROVE  /\ Place(read'[f]) > Place(read[f])
         /\ Place(pc') >= Place(pc)
         /\ \A g \in Filters : Place(read'[g]) >= Place(read[g])
         /\ \A i \in Items : Place(task'[i]) >= Place(task[i])
  <1>1. read'[f] = s /\ \A g \in Filters \ {f} : read'[g] = read[g]
    BY DEF TypeOK
  <1>2. \A x \in {"read", "select", "delete", "ended", "waiting", "reading", "sending", "done"} :
          Place(x) \in Nat
    BY Places
  <1> QED
    BY <1>1, <1>2 DEF TypeOK

\* A deletion begins, or ends.
LEMMA TaskGoesOn ==
  ASSUME TypeOK, NEW i \in Items, NEW s \in {"sending", "done"},
         task' = [task EXCEPT ![i] = s], Place(s) > Place(task[i]),
         pc' = pc, UNCHANGED read
  PROVE  /\ Place(task'[i]) > Place(task[i])
         /\ Place(pc') >= Place(pc)
         /\ \A g \in Filters : Place(read'[g]) >= Place(read[g])
         /\ \A j \in Items : Place(task'[j]) >= Place(task[j])
  <1>1. task'[i] = s /\ \A j \in Items \ {i} : task'[j] = task[j]
    BY DEF TypeOK
  <1>2. \A x \in {"read", "select", "delete", "ended", "waiting", "reading", "sending", "done"} :
          Place(x) \in Nat
    BY Places
  <1> QED
    BY <1>1, <1>2 DEF TypeOK

\* Of the command's own steps each brings something further, and others nothing.
LEMMA GoesOn ==
  ASSUME TypeOK, [Next]_vars
  PROVE  /\ Place(pc') >= Place(pc)
         /\ \A f \in Filters : Place(read'[f]) >= Place(read[f])
         /\ \A i \in Items : Place(task'[i]) >= Place(task[i])
         /\ Step => \/ Place(pc') > Place(pc)
                    \/ \E f \in Filters : Place(read'[f]) > Place(read[f])
                    \/ \E i \in Items : Place(task'[i]) > Place(task[i])
  <1>1. \A x \in {"read", "select", "delete", "ended", "waiting", "reading", "sending", "done"} :
          Place(x) \in Nat
    BY Places
  <1>2. ASSUME NEW f \in Filters,
               StartRead(f) \/ Read(f) \/ ReadFails(f) \/ ReadPartially(f) \/ ReadCancelled(f)
        PROVE  /\ Place(pc') >= Place(pc)
               /\ Place(read'[f]) > Place(read[f])
               /\ \A g \in Filters : Place(read'[g]) >= Place(read[g])
               /\ \A i \in Items : Place(task'[i]) >= Place(task[i])
    <2>1. /\ pc' = pc /\ UNCHANGED task
          /\ \/ read[f] = "waiting" /\ read' = [read EXCEPT ![f] = "reading"]
             \/ read[f] = "reading" /\ read' = [read EXCEPT ![f] = "done"]
      BY <1>2 DEF StartRead, Read, ReadFails, ReadPartially, ReadCancelled, deleting
    <2> QED
      BY <2>1, ReadGoesOn, Places
  <1>3. ASSUME NEW i \in Items, StartDelete(i) \/ DeleteUnsent(i) \/ Delete(i) \/ DeleteFails(i)
        PROVE  /\ Place(pc') >= Place(pc)
               /\ Place(task'[i]) > Place(task[i])
               /\ \A g \in Filters : Place(read'[g]) >= Place(read[g])
               /\ \A j \in Items : Place(task'[j]) >= Place(task[j])
    <2>1. /\ pc' = pc /\ UNCHANGED read
          /\ \E s \in {"sending", "done"} :
               /\ task' = [task EXCEPT ![i] = s]
               /\ task[i] = "waiting" \/ (task[i] = "sending" /\ s = "done")
      <3>1. CASE StartDelete(i)
        BY <3>1 DEF StartDelete, Ends
      <3>2. CASE DeleteUnsent(i) \/ Delete(i) \/ DeleteFails(i)
        BY <3>2 DEF DeleteUnsent, Delete, DeleteFails, Ends, reading
      <3> QED
        BY <1>3, <3>1, <3>2
    <2>2. PICK s \in {"sending", "done"} :
            /\ task' = [task EXCEPT ![i] = s]
            /\ task[i] = "waiting" \/ (task[i] = "sending" /\ s = "done")
      BY <2>1
    <2>3. Place(s) > Place(task[i])
      BY <2>2, Places
    <2> QED
      BY <2>1, <2>2, <2>3, TaskGoesOn
  <1>4. CASE ReadsFailed \/ Insert \/ PreflightCancelled \/ InsertFails \/ SelectLocal \/ Finish
    <2>1. /\ UNCHANGED <<read, task>>
          /\ \/ pc \in {"read", "select"} /\ pc' \in {"delete", "ended"}
             \/ pc = "delete" /\ pc' = "ended"
      BY <1>4 DEF ReadsFailed, Insert, PreflightCancelled, InsertFails, SelectLocal, Finish, Ended,
                  AllRead, reading, deleting
    <2>2. Place(pc') > Place(pc)
      BY <2>1, Places
    <2> QED
      BY <1>1, <2>1, <2>2 DEF TypeOK
  <1>5. ASSUME UNCHANGED <<pc, read, task>>, ~Step
        PROVE  /\ Place(pc') >= Place(pc)
               /\ \A f \in Filters : Place(read'[f]) >= Place(read[f])
               /\ \A i \in Items : Place(task'[i]) >= Place(task[i])
    BY <1>1, <1>5 DEF TypeOK
  <1>6. CASE Step
    BY <1>2, <1>3, <1>4, <1>6 DEF Step
  <1>7. CASE ~Step
    <2>1. UNCHANGED <<pc, read, task>>
      BY <1>7 DEF Next, Interrupt, Foreign, reading, deleting, vars
    <2> QED
      BY <1>5, <1>7, <2>1
  <1> QED
    BY <1>6, <1>7

\* However its requests fail and whoever interferes (puller.go, deleter.go), a
\* command starts no read and no deletion twice, and goes on with every step.
THEOREM OnlyGoesOnHolds == Spec => OnlyGoesOn
  BY GoesOn, TypeCorrect, PTL DEF Spec, OnlyGoesOn

===============================================================================
