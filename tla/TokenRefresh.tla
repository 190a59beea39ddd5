---------------------------- MODULE TokenRefresh ----------------------------
(***************************************************************************)
(* The OAuth token refresh shared by concurrent requests of concurrent gcx *)
(* processes (internal/auth/transport.go), with the persistence that       *)
(* WireTokenPersistence gives it (internal/config/rest.go).                *)
(*                                                                         *)
(* A refresh token is good for one use: presenting it yields an access     *)
(* token and the next refresh token. A request whose access token is about *)
(* to expire joins the refresh of its process or leads one: take the lock  *)
(* that all processes share, adopt what another process has stored, else   *)
(* present the refresh token and store what comes back, by compare and     *)
(* swap. Requests are cancelled, processes die, answers get lost, storing  *)
(* fails, the user logs in again in between.                               *)
(*                                                                         *)
(* An access token and the refresh token issued with it are a generation,  *)
(* a number; 0 stands for an empty string. A refresh runs under t.mu only  *)
(* at its ends, so each step below is one critical section, one call of    *)
(* the persistence, or one end of the exchange with the server.            *)
(*                                                                         *)
(* Bounds: MaxAges generations grow old, MaxLogins logins, MaxFaults       *)
(* failures and crashes; what the server issues follows from these.        *)
(***************************************************************************)
EXTENDS Integers, FiniteSets

CONSTANTS Procs, Requests,      \* processes, and the requests each can run
          MaxAges, MaxLogins, MaxFaults,
          Free

ASSUME BoundsOK ==
  /\ {MaxAges, MaxLogins, MaxFaults} \subseteq Nat
  /\ Free \notin Procs

VARIABLES mem,      \* the RefreshTransport of every process
          flight,   \* the refresh it has in flight
          request,  \* its concurrent requests
          lock,     \* the process that holds the write lock of the config
          disk,     \* the generation stored in the config
          issued,   \* the last generation the server issued
          login,    \* how many logins precede each generation
          unspent,  \* the generations the server still accepts
          aged,     \* the generations whose access token is about to expire
          mislaid,  \* history: spent, and the successor did not reach the disk
          faults

vars == <<mem, flight, request, lock, disk, issued, login, unspent, aged,
          mislaid, faults>>
server == <<issued, login, unspent, aged>>

MaxGen == 1 + MaxAges + MaxLogins + MaxFaults
Gens == 1..MaxGen

-----------------------------------------------------------------------------
\* RefreshTransport. A pending generation is rotated and not yet stored, prev
\* the one it was rotated from, bad an afterPersistErr; answered is history,
\* the generations this process got an answer for.
Transports ==
  [token : 0..MaxGen, refresh : 0..MaxGen, pending : 0..MaxGen,
   prev : 0..MaxGen, bad : BOOLEAN, blocked : BOOLEAN, answered : SUBSET Gens]

\* A command has read the config.
Started(g) ==
  [token |-> g, refresh |-> g, pending |-> 0, prev |-> 0, bad |-> FALSE,
   blocked |-> FALSE, answered |-> {}]

\* refreshFlight and the local variables of refreshAndPersist.
Flights ==
  [step : {"none", "lock", "reload", "adopted", "present", "receive",
           "persist", "release", "finish"},
   retry : BOOLEAN, gen : 0..MaxGen, answer : 0..MaxGen, ok : BOOLEAN]

NoFlight ==
  [step |-> "none", retry |-> FALSE, gen |-> 0, answer |-> 0, ok |-> FALSE]

InFlight(p) == flight[p].step # "none"

Idle == [pc |-> "idle", cancelled |-> FALSE]

Abandoned(p) ==
  \E r \in Requests : request[p][r].pc = "lead" /\ request[p][r].cancelled

Usable(p) == mem[p].token \in Gens \ aged

\* What maybeRefresh does for a request: it fails, uses the token or refreshes.
Refused(p, r) ==
  \/ mem[p].blocked
  \/ /\ mem[p].pending = 0 /\ ~Usable(p)
     /\ mem[p].refresh = 0 \/ request[p][r].cancelled

Ready(p) == ~mem[p].blocked /\ mem[p].pending = 0 /\ Usable(p)

At(p, step) == flight[p].step = step

Goto(p, step) == flight' = [flight EXCEPT ![p].step = step]

Return(p, ok) ==
  flight' = [flight EXCEPT ![p].step = "release", ![p].ok = ok]

Become(p, r, pc) == request' = [request EXCEPT ![p][r].pc = pc]

End(p, r) == request' = [request EXCEPT ![p][r] = Idle]

Fault == faults < MaxFaults /\ faults' = faults + 1

-----------------------------------------------------------------------------
\* The requests of a process.

Request(p, r) ==
  /\ request[p][r].pc = "idle"
  /\ Become(p, r, "check")
  /\ UNCHANGED <<mem, flight, lock, disk, server, mislaid, faults>>

\* The caller gives up; what notices is up to the steps below.
Cancel(p, r) ==
  /\ request[p][r].pc \in {"check", "wait", "lead"}
  /\ request' = [request EXCEPT ![p][r].cancelled = TRUE]
  /\ UNCHANGED <<mem, flight, lock, disk, server, mislaid, faults>>

CheckPasses(p, r) ==
  /\ request[p][r].pc = "check"
  /\ Ready(p)
  /\ Become(p, r, "read")
  /\ UNCHANGED <<mem, flight, lock, disk, server, mislaid, faults>>

CheckFails(p, r) ==
  /\ request[p][r].pc = "check"
  /\ Refused(p, r)
  /\ End(p, r)
  /\ UNCHANGED <<mem, flight, lock, disk, server, mislaid, faults>>

Join(p, r) ==
  /\ request[p][r].pc = "check"
  /\ ~Refused(p, r) /\ ~Ready(p)
  /\ InFlight(p)
  /\ Become(p, r, "wait")
  /\ UNCHANGED <<mem, flight, lock, disk, server, mislaid, faults>>

\* Mutant: a refresh starts over although an earlier one is not stored.
LeadAnew(p, r) ==
  /\ request[p][r].pc = "check"
  /\ ~Refused(p, r) /\ ~Ready(p)
  /\ ~InFlight(p)
  /\ Become(p, r, "lead")
  /\ flight' = [flight EXCEPT ![p] = [NoFlight EXCEPT !.step = "lock"]]
  /\ UNCHANGED <<mem, lock, disk, server, mislaid, faults>>

Lead(p, r) ==
  /\ request[p][r].pc = "check"
  /\ ~Refused(p, r) /\ ~Ready(p)
  /\ ~InFlight(p)
  /\ Become(p, r, "lead")
  /\ flight' = [flight EXCEPT ![p] =
                  [NoFlight EXCEPT !.step = "lock",
                                   !.retry = (mem[p].pending # 0)]]
  /\ UNCHANGED <<mem, lock, disk, server, mislaid, faults>>

WaitCancelled(p, r) ==
  /\ request[p][r] = [pc |-> "wait", cancelled |-> TRUE]
  /\ End(p, r)
  /\ UNCHANGED <<mem, flight, lock, disk, server, mislaid, faults>>

\* t.mu was free since maybeRefresh: this is the token of now.
Send(p, r) ==
  /\ request[p][r].pc = "read"
  /\ End(p, r)
  /\ UNCHANGED <<mem, flight, lock, disk, server, mislaid, faults>>

-----------------------------------------------------------------------------
\* The refresh that one request leads.

Acquire(p) ==
  /\ At(p, "lock")
  /\ lock = Free
  /\ lock' = p
  /\ Goto(p, IF flight[p].retry THEN "persist" ELSE "reload")
  /\ UNCHANGED <<mem, request, disk, server, mislaid, faults>>

\* Mutant: a lock that was not obtained is released all the same.
LockFailsReleasing(p) ==
  /\ At(p, "lock")
  /\ lock # Free \/ (Abandoned(p) /\ ~flight[p].retry)
  /\ Goto(p, "release")
  /\ UNCHANGED <<mem, request, lock, disk, server, mislaid, faults>>

\* Mutant: no time limit on the lock.
LockWaits(p) ==
  /\ At(p, "lock")
  /\ Abandoned(p) /\ ~flight[p].retry
  /\ Goto(p, "finish")
  /\ UNCHANGED <<mem, request, lock, disk, server, mislaid, faults>>

\* 30 seconds have passed, or the caller gave up and nothing is pending.
LockFails(p) ==
  /\ At(p, "lock")
  /\ lock # Free \/ (Abandoned(p) /\ ~flight[p].retry)
  /\ Goto(p, "finish")
  /\ UNCHANGED <<mem, request, lock, disk, server, mislaid, faults>>

\* Mutant: what another process stored meanwhile is not looked at.
ReloadNothing(p) ==
  /\ At(p, "reload")
  /\ ~Abandoned(p)
  /\ Goto(p, "present")
  /\ UNCHANGED <<mem, request, lock, disk, server, mislaid, faults>>

\* adoptFreshStoredTokens: another process may have refreshed.
Reload(p) ==
  /\ At(p, "reload")
  /\ ~Abandoned(p)
  /\ LET differs == disk # mem[p].refresh \/ disk # mem[p].token IN
     /\ mem' = IF differs
               THEN [mem EXCEPT ![p].token = disk, ![p].refresh = disk]
               ELSE mem
     /\ Goto(p, IF differs /\ disk \notin aged THEN "adopted" ELSE "present")
  /\ UNCHANGED <<request, lock, disk, server, mislaid, faults>>

GiveUp(p) ==
  /\ flight[p].step \in {"reload", "adopted", "present"}
  /\ Abandoned(p)
  /\ Return(p, FALSE)
  /\ UNCHANGED <<mem, request, lock, disk, server, mislaid, faults>>

Adopted(p) ==
  /\ At(p, "adopted")
  /\ ~Abandoned(p)
  /\ Return(p, TRUE)
  /\ UNCHANGED <<mem, request, lock, disk, server, mislaid, faults>>

\* The lock file, the reload or CheckPersistence fails.
PrepareFails(p) ==
  /\ Fault
  /\ \/ At(p, "lock") /\ Goto(p, "finish")
     \/ flight[p].step \in {"reload", "present"} /\ Return(p, FALSE)
  /\ UNCHANGED <<mem, request, lock, disk, server, mislaid>>

\* doProxyRefresh reaches the server; 0 answers a token that was used before.
Present(p) ==
  /\ At(p, "present")
  /\ ~Abandoned(p)
  /\ LET g == mem[p].refresh
         n == issued + 1
         good == g \in unspent
     IN
     /\ good => n \in Gens
     /\ flight' = [flight EXCEPT ![p].step = "receive", ![p].gen = g,
                                 ![p].answer = IF good THEN n ELSE 0]
     /\ issued' = IF good THEN n ELSE issued
     /\ unspent' = IF good THEN (unspent \ {g}) \union {n} ELSE unspent
     /\ login' = IF good THEN [login EXCEPT ![n] = login[g]] ELSE login
  /\ UNCHANGED <<mem, request, lock, disk, aged, mislaid, faults>>

RequestLost(p) ==
  /\ Fault
  /\ At(p, "present")
  /\ ~Abandoned(p)
  /\ Return(p, FALSE)
  /\ UNCHANGED <<mem, request, lock, disk, server, mislaid>>

\* The transport takes the answer n, which is pending until it is stored.
Take(p, n, bad) ==
  /\ mem' = [mem EXCEPT ![p].token = n, ![p].refresh = n, ![p].pending = n,
                        ![p].prev = flight[p].gen, ![p].bad = bad,
                        ![p].answered = @ \union {flight[p].gen}]
  /\ Goto(p, "persist")

\* Mutant: the exchange runs under the context of the caller.
ReceiveUnlessAbandoned(p) ==
  /\ At(p, "receive")
  /\ IF flight[p].answer = 0 \/ Abandoned(p)
     THEN Return(p, FALSE) /\ UNCHANGED mem
     ELSE Take(p, flight[p].answer, FALSE)
  /\ UNCHANGED <<request, lock, disk, server, mislaid, faults>>

Receive(p) ==
  /\ At(p, "receive")
  /\ IF flight[p].answer = 0
     THEN Return(p, FALSE) /\ UNCHANGED mem
     ELSE Take(p, flight[p].answer, FALSE)
  /\ UNCHANGED <<request, lock, disk, server, mislaid, faults>>

AnswerLost(p) ==
  /\ Fault
  /\ At(p, "receive") /\ flight[p].answer # 0
  /\ Return(p, FALSE)
  /\ mislaid' = mislaid \union {flight[p].gen}
  /\ UNCHANGED <<mem, request, lock, disk, server>>

\* blockConsumedGeneration: the answer has no refresh token.
AnswerEmpty(p) ==
  /\ Fault
  /\ At(p, "receive") /\ flight[p].answer # 0
  /\ mem' = [mem EXCEPT ![p].token = 0, ![p].refresh = 0,
                        ![p].blocked = TRUE,
                        ![p].answered = @ \union {flight[p].gen}]
  /\ Return(p, FALSE)
  /\ mislaid' = mislaid \union {flight[p].gen}
  /\ UNCHANGED <<request, lock, disk, server>>

\* It has one, and something else is missing: it is kept, expired.
AnswerBad(p) ==
  /\ Fault
  /\ At(p, "receive") /\ flight[p].answer # 0
  /\ Take(p, flight[p].answer, TRUE)
  /\ aged' = aged \union {flight[p].answer}
  /\ UNCHANGED <<request, lock, disk, issued, login, unspent, mislaid>>

\* The pending generation is on the disk: a bad one blocks the transport.
Stored(p) ==
  /\ mem' = [mem EXCEPT ![p].pending = 0, ![p].prev = 0, ![p].bad = FALSE,
                        ![p].blocked = @ \/ mem[p].bad]
  /\ Return(p, ~mem[p].bad)

\* Mutant: a write instead of a compare and swap.
PersistAnyway(p) ==
  /\ At(p, "persist")
  /\ disk' = mem[p].pending
  /\ Stored(p)
  /\ UNCHANGED <<request, lock, server, mislaid, faults>>

\* persistPendingRefresh and the callback given to SetOnRefresh.
Persist(p) ==
  /\ At(p, "persist")
  /\ disk \in {mem[p].pending, mem[p].prev}
  /\ disk' = mem[p].pending
  /\ Stored(p)
  /\ UNCHANGED <<request, lock, server, mislaid, faults>>

\* ErrTokenGenerationChanged: drop the generation and have the next reload.
PersistLoses(p) ==
  /\ At(p, "persist")
  /\ disk \notin {mem[p].pending, mem[p].prev}
  /\ mem' = [mem EXCEPT ![p].token = 0, ![p].pending = 0, ![p].prev = 0,
                        ![p].bad = FALSE]
  /\ Return(p, FALSE)
  /\ UNCHANGED <<request, lock, disk, server, mislaid, faults>>

\* The write fails, or reports a failure after the document is in place.
PersistFails(p) ==
  /\ Fault
  /\ At(p, "persist")
  /\ \/ /\ UNCHANGED disk
        /\ mislaid' = mislaid \union {g \in {disk} : g = mem[p].prev}
     \/ /\ disk = mem[p].prev
        /\ disk' = mem[p].pending
        /\ UNCHANGED mislaid
  /\ Return(p, FALSE)
  /\ UNCHANGED <<mem, request, lock, server>>

Release(p) ==
  /\ At(p, "release")
  /\ lock' = Free
  /\ Goto(p, "finish")
  /\ UNCHANGED <<mem, request, disk, server, mislaid, faults>>

\* Every request of the flight gets its outcome.
Finish(p) ==
  /\ At(p, "finish")
  /\ flight' = [flight EXCEPT ![p] = NoFlight]
  /\ request' = [request EXCEPT ![p] =
                   [r \in Requests |->
                      IF @[r].pc \notin {"wait", "lead"} THEN @[r]
                      ELSE IF flight[p].ok THEN [@[r] EXCEPT !.pc = "read"]
                      ELSE Idle]]
  /\ UNCHANGED <<mem, lock, disk, server, mislaid, faults>>

-----------------------------------------------------------------------------
\* The environment.

\* A process ends and another one starts.
Restart(p) ==
  /\ \A r \in Requests : request[p][r].pc = "idle"
  /\ mem' = [mem EXCEPT ![p] = Started(disk)]
  /\ UNCHANGED <<flight, request, lock, disk, server, mislaid, faults>>

\* It dies with what it holds; the kernel frees its lock.
Crash(p) ==
  /\ Fault
  /\ mislaid' = mislaid
       \union (IF At(p, "receive") /\ flight[p].answer # 0
               THEN {flight[p].gen} ELSE {})
       \union (IF mem[p].pending # 0
               THEN {g \in {disk} : g = mem[p].prev} ELSE {})
  /\ mem' = [mem EXCEPT ![p] = Started(disk)]
  /\ flight' = [flight EXCEPT ![p] = NoFlight]
  /\ request' = [request EXCEPT ![p] = [r \in Requests |-> Idle]]
  /\ lock' = IF lock = p THEN Free ELSE lock
  /\ UNCHANGED <<disk, server>>

\* Less than refreshThreshold is left.
Age ==
  /\ Cardinality(aged) < MaxAges
  /\ \E g \in 1..issued : aged' = aged \union {g}
  /\ UNCHANGED <<mem, flight, request, lock, disk, issued, login, unspent,
                 mislaid, faults>>

\* gcx login stores what the server issues, under the same lock.
Login ==
  /\ lock = Free
  /\ LET n == issued + 1 IN
     /\ login[disk] < MaxLogins
     /\ n \in Gens
     /\ issued' = n
     /\ disk' = n
     /\ unspent' = unspent \union {n}
     /\ login' = [login EXCEPT ![n] = login[disk] + 1]
  /\ UNCHANGED <<mem, flight, request, lock, aged, mislaid, faults>>

-----------------------------------------------------------------------------
Init ==
  /\ mem = [p \in Procs |-> Started(1)]
  /\ flight = [p \in Procs |-> NoFlight]
  /\ request = [p \in Procs |-> [r \in Requests |-> Idle]]
  /\ lock = Free
  /\ disk = 1
  /\ issued = 1
  /\ login = [g \in Gens |-> 0]
  /\ unspent = {1}
  /\ aged = {}
  /\ mislaid = {}
  /\ faults = 0

\* The steps a request takes by itself, and those of the refresh it leads.
RequestStep(p, r) ==
  CheckPasses(p, r) \/ CheckFails(p, r) \/ Join(p, r) \/ Lead(p, r) \/ Send(p, r)

RefreshStep(p) ==
  \/ Acquire(p) \/ LockFails(p) \/ Reload(p) \/ GiveUp(p) \/ Adopted(p)
  \/ Present(p) \/ Receive(p) \/ Persist(p) \/ PersistLoses(p)
  \/ Release(p) \/ Finish(p)

Failure(p) ==
  \/ PrepareFails(p) \/ RequestLost(p) \/ AnswerLost(p) \/ AnswerEmpty(p)
  \/ AnswerBad(p) \/ PersistFails(p) \/ Crash(p)

Next ==
  \/ \E p \in Procs, r \in Requests :
       Request(p, r) \/ Cancel(p, r) \/ WaitCancelled(p, r) \/ RequestStep(p, r)
  \/ \E p \in Procs : RefreshStep(p) \/ Failure(p) \/ Restart(p)
  \/ Age \/ Login

Spec == Init /\ [][Next]_vars

FairSpec ==
  /\ Spec
  /\ \A p \in Procs : WF_vars(RefreshStep(p))
  /\ \A p \in Procs, r \in Requests : WF_vars(RequestStep(p, r))

-----------------------------------------------------------------------------
\* Every variable has its type, the lock is held exactly by the refresh that
\* is between Lock and its release, and a refresh is in flight exactly while
\* one request leads it (RefreshTransport.inflight, the flock of rest.go).
TypeOK ==
  /\ mem \in [Procs -> Transports]
  /\ flight \in [Procs -> Flights]
  /\ request \in [Procs -> [Requests ->
       [pc : {"idle", "check", "wait", "lead", "read"}, cancelled : BOOLEAN]]]
  /\ lock \in Procs \union {Free}
  /\ {disk, issued} \subseteq Gens
  /\ login \in [Gens -> 0..MaxLogins]
  /\ unspent \union aged \union mislaid \subseteq 1..issued
  /\ faults \in 0..MaxFaults
  /\ \A p \in Procs :
       /\ lock = p <=> flight[p].step \notin {"none", "lock", "finish"}
       /\ InFlight(p) <=> \E r \in Requests : request[p][r].pc = "lead"
       /\ \A r, s \in Requests :
            request[p][r].pc = "lead" /\ request[p][s].pc = "lead" => r = s

\* "two processes race to refresh the same rotating refresh token and one gets
\* locked out": the server sees a refresh token a second time only after the
\* answer to its first use was lost, or could not be stored, or died with a
\* process; never because of how requests and processes interleave.
NeverReplayed ==
  \A p \in Procs :
    At(p, "receive") /\ flight[p].answer = 0 => flight[p].gen \in mislaid

\* What a command that starts now finds in the config is a refresh token the
\* server accepts, unless such a failure took it.
LockedOutOnlyByFailure == lock = Free => disk \in unspent \union mislaid

\* A pending generation "must never trigger a second network refresh in this
\* process": no process presents a token it has had an answer for.
NeverPresentedAgain ==
  \A p \in Procs : At(p, "present") => mem[p].refresh \notin mem[p].answered

\* A refresh that began before the user logged in again does not undo the
\* login, however late it is stored (the compare and swap of rest.go).
LoginWins == [][login'[disk'] >= login[disk]]_vars

\* Every request ends: a waiter is woken by the flight it joined, whether this
\* succeeds or fails, and the lock does not hold a refresh for ever.
EveryRequestEnds ==
  \A p \in Procs, r \in Requests :
    request[p][r].pc # "idle" ~> request[p][r].pc = "idle"

\* "It must be retried before the token can be exposed to any caller"
\* (pendingRefresh): no request reads a token that is not stored yet.
UnpersistedNeverSent ==
  [][\A p \in Procs, r \in Requests :
       Send(p, r) => mem[p].pending = 0 \/ mem[p].token # mem[p].pending]_vars

=============================================================================
