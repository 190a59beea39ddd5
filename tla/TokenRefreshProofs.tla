-------------------------- MODULE TokenRefreshProofs --------------------------
(***************************************************************************)
(* The safety properties of TokenRefresh, for any number of processes,     *)
(* requests, generations, logins and failures: no refresh token is used    *)
(* twice but for a failure, none is lost, none twice by one process, and   *)
(* a login is not undone; one exchange for each generation that grows old, *)
(* and that the bound on generations excludes nothing; nobody waits for a  *)
(* refresh that has ended, and requests and refreshes only go on.          *)
(***************************************************************************)
EXTENDS TokenRefresh, FiniteSetTheorems, TLAPS

-------------------------------------------------------------------------------
(* The invariant *)

Callers == [pc : {"idle", "check", "wait", "lead", "read"}, cancelled : BOOLEAN]

Types ==
  /\ mem \in [Procs -> Transports]
  /\ flight \in [Procs -> Flights]
  /\ lock \in Procs \union {Free}
  /\ issued \in Gens /\ disk \in 1..issued
  /\ login \in [Gens -> 0..MaxLogins]
  /\ unspent \union aged \union mislaid \subseteq 1..issued
  /\ faults \in 0..MaxFaults

\* A refresh is in flight exactly while one request leads it.
Led ==
  /\ request \in [Procs -> [Requests -> Callers]]
  /\ \A p \in Procs :
       /\ InFlight(p) <=> \E r \in Requests : request[p][r].pc = "lead"
       /\ \A r, s \in Requests :
            request[p][r].pc = "lead" /\ request[p][s].pc = "lead" => r = s

\* The lock is held by the refresh that is between Lock and its release.
Locks == \A p \in Procs : lock = p <=> flight[p].step \notin {"none", "lock", "finish"}

\* Generation n was issued for g.
Follows(n, g) == g \in 1..disk /\ n \in g+1..issued /\ login[n] = login[g]

\* A generation that is pending follows one that is or was on the disk, and
\* while that is on the disk nobody else can know the pending one.
Pending(m) ==
  m.pending # 0 => /\ Follows(m.pending, m.prev)
                   /\ disk = m.prev => m.pending \in unspent
                   /\ \A g \in m.answered : g <= m.prev

\* A process that is not blocked and has stored what it got finds on the disk
\* something later than all it had an answer for.
Answered(m) ==
  \A g \in m.answered : g <= disk /\ (m.pending = 0 /\ ~m.blocked => g < disk)

\* What a refresh does at each step; while it has the lock, what it presents
\* is what is on the disk.
Flying(m, k) ==
  /\ k.step \in {"reload", "adopted", "present", "receive"} => m.pending = 0
  /\ k.step = "persist" => m.pending # 0
  /\ k.step = "lock" => (k.retry <=> m.pending # 0)
  /\ m.blocked => k.step \in {"none", "release", "finish"}
  /\ k.step = "present" => m.refresh = disk
  /\ k.step = "receive" /\ k.answer = 0 => k.gen \in mislaid
  /\ k.step = "receive" /\ k.answer # 0 => /\ k.gen = disk /\ Follows(k.answer, k.gen)
                                           /\ k.answer \in unspent

Orderly(p) == Pending(mem[p]) /\ Answered(mem[p]) /\ Flying(mem[p], flight[p])

\* The refresh of p has used what is on the disk up.
Uses(p) == \/ At(p, "receive") /\ flight[p].answer # 0
           \/ At(p, "persist") /\ disk = mem[p].prev

Kept == disk \in unspent \union mislaid \/ \E p \in Procs : Uses(p)

\* The inductive invariant.
IInv == Types /\ Led /\ Locks /\ (\A p \in Procs : Orderly(p)) /\ Kept

-------------------------------------------------------------------------------
(* Lemmas about steps *)

LEMMA Bounds == MaxGen \in Nat /\ 1 \in Gens /\ Gens \subseteq Nat \ {0} /\ Free \notin Procs
                /\ MaxFaults \in Nat /\ MaxLogins \in Nat
  BY BoundsOK DEF BoundsOK, MaxGen, Gens

LEMMA StartedOK == ASSUME NEW g \in Gens
                   PROVE  /\ Started(g) \in Transports
                          /\ Started(g).pending = 0 /\ Started(g).answered = {}
                          /\ ~Started(g).blocked
  BY Bounds DEF Started, Transports, Gens

LEMMA NoFlightOK == NoFlight \in Flights /\ NoFlight.step = "none"
  BY Bounds DEF NoFlight, Flights

\* What is known of a process.
LEMMA Known == ASSUME IInv, NEW p \in Procs
               PROVE  /\ mem[p] \in Transports /\ flight[p] \in Flights
                      /\ Pending(mem[p]) /\ Answered(mem[p]) /\ Flying(mem[p], flight[p])
                      /\ lock = p <=> flight[p].step \notin {"none", "lock", "finish"}
  BY DEF IInv, Types, Orderly, Locks

\* The generations are on the disk in the order they were issued in, and only
\* the one on the disk can be used up.
Onwards ==
  /\ disk <= disk' /\ disk' \in Gens /\ issued <= issued' /\ issued' \in Gens
  /\ mislaid \subseteq mislaid'
  /\ \A g \in 1..issued : login'[g] = login[g]
  /\ \A g \in unspent : g = disk \/ g \in unspent'

\* A process whose transport and refresh do not change is as orderly as before,
\* whatever the holder of the lock does to the disk and the server.
LEMMA Others ==
  ASSUME IInv, Onwards, NEW q \in Procs, mem'[q] = mem[q], flight'[q] = flight[q],
         lock = q => disk' = disk /\ unspent' = unspent
  PROVE  Orderly(q)'
  <1> DEFINE m == mem[q]
             k == flight[q]
  <1>1. /\ m \in Transports /\ k \in Flights
        /\ Pending(m) /\ Answered(m) /\ Flying(m, k)
        /\ lock = q <=> k.step \notin {"none", "lock", "finish"}
    BY Known
  <1>2. disk \in Nat /\ disk' \in Nat /\ issued \in Nat /\ issued' \in Nat
        /\ m.pending \in Nat /\ m.prev \in Nat /\ k.answer \in Nat /\ k.gen \in Nat
        /\ m.answered \subseteq Nat
    BY <1>1, Bounds DEF IInv, Types, Onwards, Transports, Flights, Gens
  <1>3. \A n, g \in Nat : Follows(n, g) => Follows(n, g)'
    BY <1>2 DEF Follows, Onwards
  <1> HIDE DEF m, k
  <1>4. Pending(m)'
    <2>1. SUFFICES ASSUME m.pending # 0
                   PROVE  /\ Follows(m.pending, m.prev)'
                          /\ disk' = m.prev => m.pending \in unspent'
                          /\ \A g \in m.answered : g <= m.prev
      BY DEF Pending, m
    <2>2. Follows(m.pending, m.prev) /\ \A g \in m.answered : g <= m.prev
      BY <1>1, <2>1 DEF Pending
    <2>3. disk' = m.prev => disk = m.prev /\ m.pending # disk /\ m.pending \in unspent
      BY <1>1, <1>2, <2>1, <2>2 DEF Pending, Follows, Onwards
    <2>4. m' = m
      BY DEF m
    <2>5. Follows(m.pending, m.prev)'
      <3>1. ASSUME NEW n \in Nat, NEW g \in Nat, Follows(n, g)
            PROVE  g \in 1..disk' /\ n \in g+1..issued' /\ login'[n] = login'[g]
        BY <1>3, <3>1 DEF Follows
      <3> QED
        BY <1>2, <2>2, <2>4, <3>1 DEF Follows
    <2> QED
      BY <1>2, <2>2, <2>3, <2>4, <2>5 DEF Onwards
  <1>5. Answered(m)'
    BY <1>1, <1>2 DEF Answered, Onwards, m
  <1>6. Flying(m, k)'
    <2>1. k.step \in {"present", "receive"} => disk' = disk /\ unspent' = unspent
      BY <1>1
    <2> QED
      BY <1>1, <1>2, <1>3, <2>1 DEF Flying, Onwards, m, k
  <1> QED
    BY <1>4, <1>5, <1>6 DEF Orderly, m, k

\* A step of one process.
LEMMA OneStep ==
  ASSUME IInv, Onwards, NEW p \in Procs,
         mem' \in [Procs -> Transports], flight' \in [Procs -> Flights],
         \A q \in Procs \ {p} : mem'[q] = mem[q] /\ flight'[q] = flight[q],
         lock' \in Procs \union {Free}, disk' \in 1..issued',
         login' \in [Gens -> 0..MaxLogins],
         unspent' \union aged' \union mislaid' \subseteq 1..issued',
         faults' \in 0..MaxFaults,
         Led',
         lock' = p <=> flight'[p].step \notin {"none", "lock", "finish"},
         \A q \in Procs \ {p} : lock' = q <=> lock = q,
         disk' # disk \/ unspent' # unspent => lock \in {p, Free},
         Orderly(p)', Kept'
  PROVE  IInv'
  <1>1. Types'
    BY DEF Types, Onwards
  <1>2. Locks'
    BY DEF Locks, IInv
  <1>3. ASSUME NEW q \in Procs
        PROVE  Orderly(q)'
    <2>1. CASE q = p
      BY <2>1
    <2>2. CASE q # p
      <3>1. lock = q => disk' = disk /\ unspent' = unspent
        BY <2>2, Bounds
      <3> QED
        BY <2>2, <3>1, Others
    <2> QED
      BY <2>1, <2>2
  <1> QED
    BY <1>1, <1>2, <1>3 DEF IInv

\* A refresh that goes on leaves the requests as they are.
LEMMA LedOn ==
  ASSUME Led, NEW p \in Procs, UNCHANGED request,
         flight[p].step # "none", flight'[p].step # "none",
         \A q \in Procs \ {p} : flight'[q] = flight[q]
  PROVE  Led'
  <1>1. \A q \in Procs : InFlight(q)' <=> InFlight(q)
    BY DEF InFlight
  <1> QED
    BY <1>1 DEF Led

\* A step of a refresh that leaves the disk and the generations as they are.
LEMMA Quiet ==
  ASSUME IInv, NEW p \in Procs,
         mem' \in [Procs -> Transports], flight' \in [Procs -> Flights],
         \A q \in Procs \ {p} : mem'[q] = mem[q] /\ flight'[q] = flight[q],
         flight[p].step # "none", flight'[p].step # "none",
         UNCHANGED <<request, disk, issued, login, unspent>>,
         aged' \subseteq 1..issued, mislaid \subseteq mislaid', mislaid' \subseteq 1..issued,
         faults' \in 0..MaxFaults,
         lock' \in Procs \union {Free},
         lock' = p <=> flight'[p].step \notin {"none", "lock", "finish"},
         \A q \in Procs \ {p} : lock' = q <=> lock = q,
         Orderly(p)',
         Uses(p) => disk \in mislaid' \/ Uses(p)'
  PROVE  IInv'
  <1>1. /\ issued \in Gens /\ disk \in 1..issued /\ login \in [Gens -> 0..MaxLogins]
        /\ unspent \subseteq 1..issued
    BY DEF IInv, Types
  <1>2. Onwards
    BY <1>1, Bounds DEF Onwards, Gens
  <1>3. Led'
    BY LedOn DEF IInv
  <1>4. Kept'
    <2>1. CASE disk \in unspent \union mislaid
      BY <2>1 DEF Kept
    <2>2. CASE \E q \in Procs : Uses(q)
      <3>1. PICK q \in Procs : Uses(q)
        BY <2>2
      <3>2. q # p => Uses(q)'
        BY <3>1 DEF Uses, At
      <3> QED
        BY <3>1, <3>2 DEF Kept
    <2> QED
      BY <2>1, <2>2 DEF IInv, Kept
  <1> QED
    BY <1>1, <1>2, <1>3, <1>4, OneStep

LEMMA GotoOK ==
  ASSUME IInv, NEW p \in Procs, NEW s, Goto(p, s),
         s \in {"none", "lock", "reload", "adopted", "present", "receive",
                "persist", "release", "finish"}
  PROVE  \E k \in Flights : /\ k = [flight[p] EXCEPT !.step = s] /\ k.step = s
                            /\ flight' = [flight EXCEPT ![p] = k]
  <1>1. flight[p] \in Flights /\ flight' = [flight EXCEPT ![p] = [flight[p] EXCEPT !.step = s]]
    BY DEF IInv, Types, Goto
  <1>2. [flight[p] EXCEPT !.step = s] \in Flights
        /\ [flight[p] EXCEPT !.step = s].step = s
    BY <1>1 DEF Flights
  <1> QED
    BY <1>1, <1>2

LEMMA ReturnOK ==
  ASSUME IInv, NEW p \in Procs, NEW ok \in BOOLEAN, Return(p, ok)
  PROVE  \E k \in Flights : k.step = "release" /\ flight' = [flight EXCEPT ![p] = k]
  <1> DEFINE k == [flight[p] EXCEPT !.step = "release", !.ok = ok]
  <1>1. flight[p] \in Flights /\ flight' = [flight EXCEPT ![p] = k]
    BY DEF IInv, Types, Return
  <1>2. k \in Flights /\ k.step = "release"
    BY <1>1 DEF Flights
  <1> HIDE DEF k
  <1> QED
    BY <1>1, <1>2

LEMMA FlightOK ==
  ASSUME IInv, NEW p \in Procs, NEW k \in Flights, flight' = [flight EXCEPT ![p] = k]
  PROVE  /\ flight' \in [Procs -> Flights] /\ flight'[p] = k
         /\ \A q \in Procs \ {p} : flight'[q] = flight[q]
  BY DEF IInv, Types

\* A refresh goes to its end, with or without the lock.
LEMMA Leaves ==
  ASSUME IInv, NEW p \in Procs, flight[p].step # "none",
         NEW k \in Flights, flight' = [flight EXCEPT ![p] = k], k.step \in {"finish", "release"},
         UNCHANGED <<mem, request, disk, issued, login, unspent, aged>>,
         mislaid \subseteq mislaid', mislaid' \subseteq 1..issued, faults' \in 0..MaxFaults,
         lock' \in Procs \union {Free}, lock' = p <=> k.step = "release",
         \A q \in Procs \ {p} : lock' = q <=> lock = q,
         Uses(p) => disk \in mislaid'
  PROVE  IInv'
  <1>1. mem[p] \in Transports /\ Pending(mem[p]) /\ Answered(mem[p])
    BY Known
  <1>2. /\ flight' \in [Procs -> Flights] /\ flight'[p] = k
        /\ \A q \in Procs \ {p} : flight'[q] = flight[q]
    BY FlightOK
  <1>3. Orderly(p)'
    BY <1>1, <1>2 DEF Orderly, Pending, Answered, Flying, Follows
  <1>4. aged' \subseteq 1..issued /\ mem' \in [Procs -> Transports]
    BY DEF IInv, Types
  <1> QED
    BY <1>2, <1>3, <1>4, Quiet

\* The same when the lock stays with the refresh and no failure is counted.
LEMMA GivesUp ==
  ASSUME IInv, NEW p \in Procs, flight[p].step \notin {"none", "lock", "finish"},
         NEW ok \in BOOLEAN, Return(p, ok),
         UNCHANGED <<mem, request, lock, disk, server>>,
         mislaid \subseteq mislaid', mislaid' \subseteq 1..issued, faults' \in 0..MaxFaults,
         Uses(p) => disk \in mislaid'
  PROVE  IInv'
  <1>1. PICK k \in Flights : k.step = "release" /\ flight' = [flight EXCEPT ![p] = k]
    BY ReturnOK
  <1>2. lock = p /\ lock \in Procs \union {Free}
    BY Known DEF IInv, Types
  <1> QED
    BY <1>1, <1>2, Leaves DEF server

LEMMA Faults == ASSUME IInv
                PROVE  /\ faults \in 0..MaxFaults /\ mislaid \subseteq 1..issued
                       /\ Fault => faults' \in 0..MaxFaults
  BY Bounds DEF IInv, Types, Fault

-------------------------------------------------------------------------------
(* Each step of a refresh preserves the invariant *)

LEMMA AcquireStep == ASSUME IInv, NEW p \in Procs, Acquire(p) PROVE IInv'
  <1> DEFINE s == IF flight[p].retry THEN "persist" ELSE "reload"
  <1>1. /\ flight[p].step = "lock" /\ lock = Free /\ lock' = p /\ Goto(p, s)
        /\ UNCHANGED <<mem, request, disk, server, mislaid, faults>>
    BY DEF Acquire, At
  <1>2. PICK k \in Flights : /\ k = [flight[p] EXCEPT !.step = s] /\ k.step = s
                             /\ flight' = [flight EXCEPT ![p] = k]
    BY <1>1, GotoOK
  <1>3. /\ flight' \in [Procs -> Flights] /\ flight'[p] = k
        /\ \A q \in Procs \ {p} : flight'[q] = flight[q]
    BY <1>2, FlightOK
  <1>4. Pending(mem[p]) /\ Answered(mem[p]) /\ Flying(mem[p], flight[p])
    BY Known
  <1>5. Orderly(p)'
    BY <1>1, <1>2, <1>3, <1>4 DEF Orderly, Pending, Answered, Flying, Follows, server
  <1>6. mem' \in [Procs -> Transports] /\ aged' \subseteq 1..issued
    BY <1>1 DEF IInv, Types, server
  <1>7. ~Uses(p)
    BY <1>1 DEF Uses, At
  <1> QED
    BY <1>1, <1>2, <1>3, <1>5, <1>6, <1>7, Faults, Bounds, Quiet DEF server

LEMMA LockFailsStep == ASSUME IInv, NEW p \in Procs, LockFails(p) PROVE IInv'
  <1>1. /\ flight[p].step = "lock" /\ Goto(p, "finish")
        /\ UNCHANGED <<mem, request, lock, disk, server, mislaid, faults>>
    BY DEF LockFails, At
  <1>2. PICK k \in Flights : k.step = "finish" /\ flight' = [flight EXCEPT ![p] = k]
    BY <1>1, GotoOK
  <1>3. lock # p /\ lock \in Procs \union {Free} /\ ~Uses(p)
    BY <1>1, Known DEF IInv, Types, Uses, At
  <1> QED
    BY <1>1, <1>2, <1>3, Faults, Leaves DEF server

LEMMA ReloadStep == ASSUME IInv, NEW p \in Procs, Reload(p) PROVE IInv'
  <1> DEFINE m == mem[p]
             differs == disk # m.refresh \/ disk # m.token
             s == IF differs /\ disk \notin aged THEN "adopted" ELSE "present"
             n == IF differs THEN [m EXCEPT !.token = disk, !.refresh = disk] ELSE m
  <1>1. /\ flight[p].step = "reload" /\ Goto(p, s)
        /\ mem' = IF differs
                  THEN [mem EXCEPT ![p].token = disk, ![p].refresh = disk]
                  ELSE mem
        /\ UNCHANGED <<request, lock, disk, server, mislaid, faults>>
    BY DEF Reload, At
  <1>2. PICK k \in Flights : /\ k = [flight[p] EXCEPT !.step = s] /\ k.step = s
                             /\ flight' = [flight EXCEPT ![p] = k]
    BY <1>1, GotoOK
  <1>3. /\ flight' \in [Procs -> Flights] /\ flight'[p] = k
        /\ \A q \in Procs \ {p} : flight'[q] = flight[q]
    BY <1>2, FlightOK
  <1>4. m \in Transports /\ Pending(m) /\ Answered(m) /\ Flying(m, flight[p]) /\ lock = p
    BY <1>1, Known
  <1>5. disk \in 0..MaxGen
    BY Bounds DEF IInv, Types, Gens
  <1>6. n \in Transports /\ n.pending = m.pending /\ n.prev = m.prev /\ n.blocked = m.blocked
        /\ n.answered = m.answered /\ n.refresh = disk
    BY <1>4, <1>5 DEF Transports
  <1>7. mem'[p] = n /\ \A q \in Procs \ {p} : mem'[q] = mem[q]
    BY <1>1 DEF IInv, Types
  <1>8. mem' \in [Procs -> Transports]
    <2>1. mem' = [mem EXCEPT ![p] = n]
      BY <1>1, <1>4 DEF IInv, Types
    <2> HIDE DEF n
    <2> QED
      BY <1>6, <2>1 DEF IInv, Types
  <1> HIDE DEF n, m, differs
  <1>9. Orderly(p)'
    <2>1. m.pending = 0 /\ ~m.blocked /\ k.step \in {"adopted", "present"}
      BY <1>1, <1>2, <1>4 DEF Flying
    <2>2. mem'[p].pending = 0 /\ ~mem'[p].blocked /\ mem'[p].answered = m.answered
          /\ mem'[p].refresh = disk'
      BY <1>1, <1>6, <1>7, <2>1
    <2>3. \A g \in m.answered : g <= disk' /\ g < disk'
      BY <1>1, <1>4, <2>1 DEF Answered
    <2> QED
      BY <1>3, <2>1, <2>2, <2>3 DEF Orderly, Pending, Answered, Flying
  <1>10. aged' \subseteq 1..issued /\ lock \in Procs \union {Free} /\ ~Uses(p)
    BY <1>1 DEF IInv, Types, server, Uses, At
  <1> QED
    BY <1>1, <1>2, <1>3, <1>4, <1>7, <1>8, <1>9, <1>10, Faults, Quiet DEF server

LEMMA GiveUpStep == ASSUME IInv, NEW p \in Procs, GiveUp(p) PROVE IInv'
  BY Faults, GivesUp DEF GiveUp, Uses, At

LEMMA AdoptedStep == ASSUME IInv, NEW p \in Procs, Adopted(p) PROVE IInv'
  BY Faults, GivesUp DEF Adopted, Uses, At

LEMMA PrepareFailsStep == ASSUME IInv, NEW p \in Procs, PrepareFails(p) PROVE IInv'
  <1>1. Fault /\ UNCHANGED <<mem, request, lock, disk, server, mislaid>>
    BY DEF PrepareFails
  <1>2. CASE At(p, "lock") /\ Goto(p, "finish")
    <2>1. PICK k \in Flights : k.step = "finish" /\ flight' = [flight EXCEPT ![p] = k]
      BY <1>2, GotoOK
    <2>2. lock # p /\ lock \in Procs \union {Free} /\ ~Uses(p)
      BY <1>2, Known DEF IInv, Types, Uses, At
    <2> QED
      BY <1>1, <1>2, <2>1, <2>2, Faults, Leaves DEF server, At
  <1>3. CASE flight[p].step \in {"reload", "present"} /\ Return(p, FALSE)
    BY <1>1, <1>3, Faults, GivesUp DEF Uses, At
  <1> QED
    BY <1>2, <1>3 DEF PrepareFails

LEMMA RequestLostStep == ASSUME IInv, NEW p \in Procs, RequestLost(p) PROVE IInv'
  BY Faults, GivesUp DEF RequestLost, Uses, At

\* A refresh token that was exchanged is the one on the disk.
LEMMA Exchanged ==
  ASSUME IInv, NEW p \in Procs, At(p, "receive"), flight[p].answer # 0
  PROVE  /\ flight[p].gen = disk /\ Follows(flight[p].answer, flight[p].gen)
         /\ flight[p].answer \in unspent /\ mem[p].pending = 0 /\ lock = p
         /\ disk \in 1..issued /\ disk \in Gens
  <1>1. disk \in Gens /\ disk \in 1..issued
    BY Bounds DEF IInv, Types, Gens
  <1> QED
    BY <1>1, Known DEF At, Flying

LEMMA AnswerLostStep == ASSUME IInv, NEW p \in Procs, AnswerLost(p) PROVE IInv'
  <1>1. mislaid' = mislaid \union {disk} /\ disk \in 1..issued
    BY Exchanged DEF AnswerLost
  <1> QED
    BY <1>1, Faults, GivesUp DEF AnswerLost, At

LEMMA TakeStep ==
  ASSUME IInv, NEW p \in Procs, At(p, "receive"), flight[p].answer # 0, NEW bad \in BOOLEAN,
         Take(p, flight[p].answer, bad),
         UNCHANGED <<request, lock, disk, issued, login, unspent, mislaid>>,
         aged' \subseteq 1..issued, faults' \in 0..MaxFaults
  PROVE  IInv'
  <1> PICK a : a = flight[p].answer
    OBVIOUS
  <1> DEFINE m == mem[p]
             n == [m EXCEPT !.token = a, !.refresh = a, !.pending = a, !.prev = flight[p].gen,
                            !.bad = bad, !.answered = @ \union {flight[p].gen}]
  <1>1. /\ m \in Transports /\ Answered(m) /\ lock = p /\ ~m.blocked /\ flight[p] \in Flights
        /\ flight[p].step = "receive" /\ flight[p].gen = disk /\ disk \in Gens
        /\ Follows(a, disk) /\ a \in unspent
    BY Known, Exchanged DEF At, Flying
  <1>2. PICK k \in Flights : k.step = "persist" /\ flight' = [flight EXCEPT ![p] = k]
    BY GotoOK DEF Take
  <1>3. /\ flight' \in [Procs -> Flights] /\ flight'[p] = k
        /\ \A q \in Procs \ {p} : flight'[q] = flight[q]
    BY <1>2, FlightOK
  <1>4. n \in Transports /\ n.pending = a /\ n.prev = disk /\ n.answered = m.answered \union {disk}
        /\ ~n.blocked
    BY <1>1 DEF Transports, Flights
  <1>5. mem' = [mem EXCEPT ![p] = n]
    BY DEF Take, IInv, Types
  <1> HIDE DEF n, m
  <1>6. /\ mem' \in [Procs -> Transports] /\ mem'[p] = n
        /\ \A q \in Procs \ {p} : mem'[q] = mem[q]
    BY <1>4, <1>5 DEF IInv, Types
  <1>7. Orderly(p)'
    <2>1. disk \in Nat /\ a # 0
      BY <1>1, Bounds DEF Follows
    <2>2. disk' = disk /\ a \in unspent' /\ Follows(a, disk)'
      BY <1>1 DEF Follows
    <2>3. \A g \in m.answered \union {disk} : g <= disk
      BY <1>1, <2>1 DEF Answered
    <2>4. mem'[p].pending = a /\ mem'[p].prev = disk /\ mem'[p].answered = m.answered \union {disk}
          /\ ~mem'[p].blocked
      BY <1>4, <1>6
    <2>5. Pending(mem[p])'
      BY <2>3, <2>4, <2>2 DEF Pending
    <2>6. Answered(mem[p])' /\ Flying(mem[p], flight[p])'
      BY <1>2, <1>3, <2>1, <2>3, <2>4 DEF Answered, Flying
    <2> QED
      BY <2>5, <2>6 DEF Orderly
  <1>8. Uses(p)'
    BY <1>2, <1>3, <1>4, <1>6 DEF Uses, At
  <1>9. lock \in Procs \union {Free} /\ mislaid \subseteq 1..issued
    BY DEF IInv, Types
  <1> QED
    BY <1>1, <1>2, <1>3, <1>6, <1>7, <1>8, <1>9, Quiet

LEMMA ReceiveStep == ASSUME IInv, NEW p \in Procs, Receive(p) PROVE IInv'
  <1>1. /\ At(p, "receive")
        /\ UNCHANGED <<request, lock, disk, server, mislaid, faults>>
    BY DEF Receive
  <1>2. CASE flight[p].answer = 0
    BY <1>1, <1>2, Faults, GivesUp DEF Receive, Uses, At
  <1>3. CASE flight[p].answer # 0
    <2>1. aged' \subseteq 1..issued
      BY <1>1 DEF server, IInv, Types
    <2> QED
      BY <1>1, <1>3, <2>1, Faults, TakeStep DEF Receive, server
  <1> QED
    BY <1>2, <1>3

LEMMA AnswerBadStep == ASSUME IInv, NEW p \in Procs, AnswerBad(p) PROVE IInv'
  <1>1. aged' \subseteq 1..issued
    <2>1. flight[p].answer \in 1..issued /\ aged \subseteq 1..issued
      BY Exchanged DEF AnswerBad, IInv, Types
    <2> QED
      BY <2>1 DEF AnswerBad
  <1> QED
    BY <1>1, Faults, TakeStep DEF AnswerBad

\* A refresh that returns, with the transport m that it leaves.
LEMMA Returns ==
  ASSUME IInv, NEW p \in Procs, flight[p].step \notin {"none", "lock", "finish"},
         NEW ok \in BOOLEAN, Return(p, ok),
         NEW m \in Transports, mem' = [mem EXCEPT ![p] = m],
         m.pending = 0, \A g \in m.answered : g <= disk /\ (~m.blocked => g < disk),
         UNCHANGED <<request, lock, disk, server>>,
         mislaid \subseteq mislaid', mislaid' \subseteq 1..issued, faults' \in 0..MaxFaults,
         Uses(p) => disk \in mislaid'
  PROVE  IInv'
  <1>1. PICK k \in Flights : k.step = "release" /\ flight' = [flight EXCEPT ![p] = k]
    BY ReturnOK
  <1>2. /\ flight' \in [Procs -> Flights] /\ flight'[p] = k
        /\ \A q \in Procs \ {p} : flight'[q] = flight[q]
    BY <1>1, FlightOK
  <1>3. /\ mem' \in [Procs -> Transports] /\ mem'[p] = m
        /\ \A q \in Procs \ {p} : mem'[q] = mem[q]
    BY DEF IInv, Types
  <1>4. Orderly(p)'
    BY <1>1, <1>2, <1>3 DEF Orderly, Pending, Answered, Flying
  <1>5. lock = p /\ lock \in Procs \union {Free} /\ aged' \subseteq 1..issued
    BY Known DEF IInv, Types, server
  <1> QED
    BY <1>1, <1>2, <1>3, <1>4, <1>5, Quiet DEF server

LEMMA AnswerEmptyStep == ASSUME IInv, NEW p \in Procs, AnswerEmpty(p) PROVE IInv'
  <1> DEFINE n == [mem[p] EXCEPT !.token = 0, !.refresh = 0, !.blocked = TRUE,
                                 !.answered = @ \union {flight[p].gen}]
  <1>1. /\ At(p, "receive") /\ flight[p].answer # 0 /\ Fault /\ Return(p, FALSE)
        /\ mem' = [mem EXCEPT ![p].token = 0, ![p].refresh = 0, ![p].blocked = TRUE,
                              ![p].answered = @ \union {flight[p].gen}]
        /\ mislaid' = mislaid \union {flight[p].gen}
        /\ UNCHANGED <<request, lock, disk, server>>
    BY DEF AnswerEmpty
  <1>2. /\ mem[p] \in Transports /\ Answered(mem[p]) /\ mem[p].pending = 0
        /\ flight[p].gen = disk /\ disk \in Gens /\ disk \in 1..issued
    BY <1>1, Known, Exchanged
  <1>3. n \in Transports /\ n.pending = 0 /\ n.blocked
        /\ n.answered = mem[p].answered \union {disk}
    BY <1>2, Bounds DEF Transports, Gens
  <1>4. mem' = [mem EXCEPT ![p] = n]
    BY <1>1 DEF IInv, Types
  <1> HIDE DEF n
  <1>5. \A g \in n.answered : g <= disk
    BY <1>2, <1>3, Bounds DEF Answered
  <1>6. mislaid' \subseteq 1..issued /\ disk \in mislaid'
    BY <1>1, <1>2, Faults
  <1> QED
    BY <1>1, <1>3, <1>4, <1>5, <1>6, Faults, Returns DEF At

LEMMA PersistLosesStep == ASSUME IInv, NEW p \in Procs, PersistLoses(p) PROVE IInv'
  <1> DEFINE m == mem[p]
             n == [m EXCEPT !.token = 0, !.pending = 0, !.prev = 0, !.bad = FALSE]
  <1>1. /\ At(p, "persist") /\ disk \notin {mem[p].pending, mem[p].prev} /\ Return(p, FALSE)
        /\ mem' = [mem EXCEPT ![p].token = 0, ![p].pending = 0, ![p].prev = 0, ![p].bad = FALSE]
        /\ UNCHANGED <<request, lock, disk, server, mislaid, faults>>
    BY DEF PersistLoses
  <1>2. /\ mem[p] \in Transports /\ mem[p].pending # 0 /\ Pending(mem[p])
    BY <1>1, Known DEF At, Flying
  <1>3. n \in Transports /\ n.pending = 0 /\ n.answered = m.answered
    <2>1. m \in Transports /\ 0 \in 0..MaxGen
      BY <1>2, Bounds
    <2> HIDE DEF m
    <2> QED
      BY <2>1 DEF Transports
  <1>4. mem' = [mem EXCEPT ![p] = n]
    BY <1>1 DEF IInv, Types
  <1>5. \A g \in mem[p].answered : g < disk
    <2>1. mem[p].prev < disk /\ mem[p].prev \in Nat /\ disk \in Nat
      BY <1>1, <1>2, Bounds DEF Pending, Follows, IInv, Types
    <2>2. \A g \in mem[p].answered : g \in Nat /\ g <= mem[p].prev
      BY <1>2, Bounds DEF Pending, Transports
    <2> QED
      BY <2>1, <2>2
  <1>6. \A g \in mem[p].answered : g <= disk
    BY <1>2, <1>5, Bounds DEF Transports, IInv, Types
  <1>7. ~Uses(p)
    BY <1>1 DEF Uses, At
  <1> HIDE DEF n
  <1> QED
    BY <1>1, <1>3, <1>4, <1>5, <1>6, <1>7, Faults, Returns DEF At

LEMMA ReleaseStep == ASSUME IInv, NEW p \in Procs, Release(p) PROVE IInv'
  <1>1. /\ At(p, "release") /\ lock' = Free /\ Goto(p, "finish")
        /\ UNCHANGED <<mem, request, disk, server, mislaid, faults>>
    BY DEF Release
  <1>2. PICK k \in Flights : k.step = "finish" /\ flight' = [flight EXCEPT ![p] = k]
    BY <1>1, GotoOK
  <1>3. lock = p /\ ~Uses(p)
    BY <1>1, Known DEF Uses, At
  <1> QED
    BY <1>1, <1>2, <1>3, Faults, Bounds, Leaves DEF server, At

\* Only the holder of the lock uses up what is on the disk.
LEMMA OnlyHolder ==
  ASSUME IInv, NEW p \in Procs, lock = p, ~Uses(p)
  PROVE  disk \in unspent \union mislaid
  <1>1. \A q \in Procs : Uses(q) => lock = q
    BY Known DEF Uses, At
  <1> QED
    BY <1>1 DEF IInv, Kept

\* What is stored is later than what was on the disk, and can be used.
LEMMA Storing ==
  ASSUME IInv, NEW p \in Procs, At(p, "persist")
  PROVE  /\ lock = p /\ mem[p].pending \in 1..issued /\ mem[p].pending \in Gens
         /\ mem[p].prev \in 1..disk /\ mem[p].prev < mem[p].pending
         /\ Follows(mem[p].pending, mem[p].prev)
         /\ disk = mem[p].prev => mem[p].pending \in unspent
         /\ \A g \in mem[p].answered : g \in Nat /\ g <= mem[p].prev
  <1>1. /\ lock = p /\ mem[p] \in Transports /\ Pending(mem[p]) /\ mem[p].pending # 0
    BY Known DEF At, Flying
  <1>2. /\ Follows(mem[p].pending, mem[p].prev)
        /\ disk = mem[p].prev => mem[p].pending \in unspent
        /\ \A g \in mem[p].answered : g <= mem[p].prev
    BY <1>1 DEF Pending
  <1>3. /\ mem[p].pending \in Nat /\ issued \in Nat /\ issued \in Gens /\ disk \in Nat
        /\ mem[p].answered \subseteq Nat
    BY <1>1, Bounds DEF Transports, IInv, Types, Gens
  <1>4. /\ mem[p].prev \in 1..disk /\ mem[p].pending \in mem[p].prev + 1 .. issued
    BY <1>2 DEF Follows
  <1> QED
    BY <1>1, <1>2, <1>3, <1>4, Bounds DEF Gens

\* The disk moves on to the pending generation of p.
LEMMA Moves ==
  ASSUME IInv, NEW p \in Procs, At(p, "persist"), disk \in {mem[p].pending, mem[p].prev},
         disk' = mem[p].pending, UNCHANGED <<issued, login, unspent, mislaid>>
  PROVE  Onwards /\ disk' \in 1..issued' /\ Kept'
  <1>1. /\ mem[p].pending \in 1..issued /\ mem[p].pending \in Gens /\ issued \in Gens
        /\ disk \in Nat /\ mem[p].prev < mem[p].pending /\ lock = p
        /\ disk = mem[p].prev => mem[p].pending \in unspent
    BY Storing, Bounds DEF IInv, Types
  <1>2. disk <= disk'
    BY <1>1, Bounds
  <1>3. Onwards
    BY <1>1, <1>2, Bounds DEF Onwards
  <1>4. CASE disk = mem[p].prev
    BY <1>1, <1>3, <1>4 DEF Kept
  <1>5. CASE disk # mem[p].prev
    <2>1. disk \in unspent \union mislaid
      BY <1>1, <1>5, OnlyHolder DEF Uses, At
    <2> QED
      BY <1>1, <1>3, <1>5, <2>1 DEF Kept
  <1> QED
    BY <1>1, <1>3, <1>4, <1>5

LEMMA PersistStep == ASSUME IInv, NEW p \in Procs, Persist(p) PROVE IInv'
  <1> DEFINE m == mem[p]
             n == [m EXCEPT !.pending = 0, !.prev = 0, !.bad = FALSE, !.blocked = @ \/ m.bad]
  <1>1. /\ At(p, "persist") /\ disk \in {m.pending, m.prev} /\ disk' = m.pending
        /\ Return(p, ~m.bad)
        /\ mem' = [mem EXCEPT ![p].pending = 0, ![p].prev = 0, ![p].bad = FALSE,
                              ![p].blocked = @ \/ mem[p].bad]
        /\ UNCHANGED <<request, lock, server, mislaid, faults>>
    BY DEF Persist, Stored
  <1>2. /\ m \in Transports /\ lock = p /\ m.prev \in 1..disk /\ m.pending \in Gens
        /\ m.prev < m.pending /\ \A g \in m.answered : g \in Nat /\ g <= m.prev
    BY <1>1, Known, Storing
  <1>3. (~m.bad) \in BOOLEAN /\ 0 \in 0..MaxGen
    <2>1. (~m.bad) \in BOOLEAN
      OBVIOUS
    <2> QED
      BY <2>1, Bounds
  <1>4. PICK k \in Flights : k.step = "release" /\ flight' = [flight EXCEPT ![p] = k]
    BY <1>1, <1>3, ReturnOK
  <1>5. /\ flight' \in [Procs -> Flights] /\ flight'[p] = k
        /\ \A q \in Procs \ {p} : flight'[q] = flight[q]
    BY <1>4, FlightOK
  <1>6. mem' = [mem EXCEPT ![p] = n]
    BY <1>1 DEF IInv, Types
  <1>7. n \in Transports /\ n.pending = 0 /\ n.answered = m.answered
    <2> HIDE DEF m
    <2> QED
      BY <1>2, <1>3 DEF Transports
  <1> HIDE DEF n
  <1>8. /\ mem' \in [Procs -> Transports] /\ mem'[p] = n
        /\ \A q \in Procs \ {p} : mem'[q] = mem[q]
    BY <1>6, <1>7 DEF IInv, Types
  <1>9. Orderly(p)'
    <2>1. \A g \in m.answered : g < disk' /\ g <= disk'
      BY <1>1, <1>2, Bounds DEF IInv, Types
    <2> QED
      BY <1>4, <1>5, <1>7, <1>8, <2>1 DEF Orderly, Pending, Answered, Flying
  <1>10. Onwards /\ disk' \in 1..issued' /\ Kept'
    BY <1>1, Moves DEF server
  <1>11. Led'
    BY <1>1, <1>4, <1>5, LedOn DEF IInv, At
  <1>12. /\ login' \in [Gens -> 0..MaxLogins]
         /\ unspent' \union aged' \union mislaid' \subseteq 1..issued'
         /\ faults' \in 0..MaxFaults /\ lock' \in Procs \union {Free}
    BY <1>1 DEF IInv, Types, server
  <1> QED
    BY <1>1, <1>2, <1>4, <1>5, <1>8, <1>9, <1>10, <1>11, <1>12, OneStep

LEMMA PersistFailsStep == ASSUME IInv, NEW p \in Procs, PersistFails(p) PROVE IInv'
  <1>1. /\ At(p, "persist") /\ Fault /\ Return(p, FALSE)
        /\ UNCHANGED <<mem, request, lock, server>>
    BY DEF PersistFails
  <1>2. CASE UNCHANGED disk /\ mislaid' = mislaid \union {g \in {disk} : g = mem[p].prev}
    <2>1. mislaid' \subseteq 1..issued /\ (Uses(p) => disk \in mislaid')
      BY <1>1, <1>2 DEF IInv, Types, Uses, At
    <2> QED
      BY <1>1, <1>2, <2>1, Faults, GivesUp DEF At
  <1>3. CASE disk = mem[p].prev /\ disk' = mem[p].pending /\ UNCHANGED mislaid
    <2>1. PICK k \in Flights : k.step = "release" /\ flight' = [flight EXCEPT ![p] = k]
      BY <1>1, ReturnOK
    <2>2. /\ flight' \in [Procs -> Flights] /\ flight'[p] = k
          /\ \A q \in Procs \ {p} : flight'[q] = flight[q]
      BY <2>1, FlightOK
    <2>3. /\ lock = p /\ mem[p].pending \in 1..issued /\ mem[p].prev \in 1..disk
          /\ mem[p].prev < mem[p].pending /\ Follows(mem[p].pending, mem[p].prev)
          /\ \A g \in mem[p].answered : g \in Nat /\ g <= mem[p].prev
      BY <1>1, Storing
    <2>4. Onwards /\ disk' \in 1..issued' /\ Kept'
      BY <1>1, <1>3, Moves DEF server
    <2>5. Orderly(p)'
      <3>1. disk \in Nat /\ mem[p].prev \in Nat /\ mem[p].pending \in Nat /\ issued \in Nat
        BY <2>3, Bounds DEF IInv, Types
      <3>2. Follows(mem[p].pending, mem[p].prev)'
        BY <1>1, <1>3, <2>3, <3>1 DEF Follows, server
      <3>3. Pending(mem[p])'
        BY <1>1, <1>3, <2>3, <3>1, <3>2 DEF Pending
      <3>4. Answered(mem[p])'
        BY <1>1, <1>3, <2>3, <3>1 DEF Answered
      <3> QED
        BY <2>1, <2>2, <3>3, <3>4 DEF Orderly, Flying
    <2>6. Led'
      BY <1>1, <2>1, <2>2, LedOn DEF IInv, At
    <2>7. /\ login' \in [Gens -> 0..MaxLogins] /\ mem' \in [Procs -> Transports]
          /\ unspent' \union aged' \union mislaid' \subseteq 1..issued'
          /\ lock' \in Procs \union {Free}
      BY <1>1, <1>3 DEF IInv, Types, server
    <2> QED
      BY <1>1, <2>1, <2>2, <2>3, <2>4, <2>5, <2>6, <2>7, Faults, OneStep
  <1> QED
    BY <1>2, <1>3 DEF PersistFails

LEMMA PresentStep == ASSUME IInv, NEW p \in Procs, Present(p) PROVE IInv'
  <1> PICK n : n = issued + 1
    OBVIOUS
  <1> DEFINE good == mem[p].refresh \in unspent
             k == [flight[p] EXCEPT !.step = "receive", !.gen = disk,
                                    !.answer = IF good THEN n ELSE 0]
  <1>1. /\ At(p, "present") /\ (good => n \in Gens)
        /\ flight' = [flight EXCEPT ![p].step = "receive", ![p].gen = mem[p].refresh,
                                    ![p].answer = IF good THEN n ELSE 0]
        /\ issued' = IF good THEN n ELSE issued
        /\ unspent' = IF good THEN (unspent \ {mem[p].refresh}) \union {n} ELSE unspent
        /\ login' = IF good THEN [login EXCEPT ![n] = login[mem[p].refresh]] ELSE login
        /\ UNCHANGED <<mem, request, lock, disk, aged, mislaid, faults>>
    BY DEF Present
  <1>2. /\ mem[p].refresh = disk /\ lock = p /\ mem[p] \in Transports /\ mem[p].pending = 0
        /\ ~mem[p].blocked /\ Answered(mem[p]) /\ flight[p] \in Flights
    BY <1>1, Known DEF At, Flying
  <1>3. /\ disk \in Gens /\ disk \in 1..issued /\ issued \in Gens /\ 0 \in 0..MaxGen
        /\ unspent \subseteq 1..issued /\ n = issued + 1 /\ disk \in Nat /\ issued \in Nat
    BY Bounds DEF IInv, Types, Gens
  <1>4. k \in Flights /\ k.step = "receive" /\ k.gen = disk
        /\ k.answer = IF good THEN n ELSE 0
    <2>1. disk \in 0..MaxGen /\ (IF good THEN n ELSE 0) \in 0..MaxGen
      BY <1>1, <1>3, Bounds DEF Gens
    <2> HIDE DEF good
    <2> QED
      BY <1>2, <2>1 DEF Flights
  <1>5. flight' = [flight EXCEPT ![p] = k]
    BY <1>1, <1>2 DEF IInv, Types
  <1> HIDE DEF k
  <1>6. /\ flight' \in [Procs -> Flights] /\ flight'[p] = k
        /\ \A q \in Procs \ {p} : flight'[q] = flight[q]
    BY <1>4, <1>5, FlightOK
  <1>7. disk \in unspent \union mislaid
    BY <1>1, <1>2, OnlyHolder DEF Uses, At
  <1>8. /\ mem' \in [Procs -> Transports] /\ lock' \in Procs \union {Free}
        /\ mislaid' \subseteq 1..issued /\ aged' \subseteq 1..issued /\ faults' \in 0..MaxFaults
    BY <1>1 DEF IInv, Types
  <1>9. CASE ~good
    <2>1. UNCHANGED <<issued, login, unspent>> /\ k.answer = 0 /\ disk \in mislaid
      BY <1>1, <1>2, <1>4, <1>7, <1>9
    <2>2. Orderly(p)'
      BY <1>1, <1>2, <1>4, <1>6, <2>1 DEF Orderly, Pending, Answered, Flying
    <2> QED
      BY <1>1, <1>2, <1>4, <1>6, <1>8, <2>1, <2>2, Quiet DEF At
  <1>10. CASE good
    <2>1. /\ n \in Gens /\ issued' = n /\ unspent' = (unspent \ {disk}) \union {n}
          /\ login' = [login EXCEPT ![n] = login[disk]] /\ k.answer = n /\ n \in Nat
      BY <1>1, <1>2, <1>3, <1>4, <1>10
    <2>2. Onwards
      BY <1>1, <1>3, <2>1 DEF Onwards, IInv, Types
    <2>3. Orderly(p)'
      <3>1. disk' = disk /\ n \in unspent' /\ disk \in 1..disk' /\ n \in disk+1..issued'
            /\ n # 0
        BY <1>1, <1>3, <2>1
      <3>2. login'[n] = login'[disk]
        BY <1>3, <2>1 DEF IInv, Types
      <3>3. Flying(mem[p], flight[p])'
        <4>1. flight'[p].step = "receive" /\ flight'[p].gen = disk /\ flight'[p].answer = n
          BY <1>4, <1>6, <2>1
        <4>2. Follows(flight[p].answer, flight[p].gen)'
          BY <3>1, <3>2, <4>1 DEF Follows
        <4> QED
          BY <1>1, <1>2, <3>1, <4>1, <4>2 DEF Flying
      <3> QED
        BY <1>1, <1>2, <3>3 DEF Orderly, Pending, Answered
    <2>4. Uses(p)'
      BY <1>3, <1>4, <1>6, <2>1 DEF Uses, At
    <2>5. Kept'
      BY <2>4 DEF Kept
    <2>6. Led'
      BY <1>1, <1>4, <1>6, LedOn DEF IInv, At
    <2>7. login' \in [Gens -> 0..MaxLogins]
      BY <1>3, <2>1 DEF IInv, Types
    <2>8. unspent' \union aged' \union mislaid' \subseteq 1..issued' /\ disk' \in 1..issued'
      BY <1>1, <1>3, <1>8, <2>1
    <2> QED
      BY <1>1, <1>2, <1>4, <1>6, <1>8, <2>2, <2>3, <2>5, <2>6, <2>7, <2>8, OneStep
  <1> QED
    BY <1>9, <1>10

LEMMA FinishStep == ASSUME IInv, NEW p \in Procs, Finish(p) PROVE IInv'
  <1>1. /\ At(p, "finish") /\ flight' = [flight EXCEPT ![p] = NoFlight]
        /\ UNCHANGED <<mem, lock, disk, server, mislaid, faults>>
    BY DEF Finish
  <1>2. /\ flight' \in [Procs -> Flights] /\ flight'[p] = NoFlight
        /\ \A q \in Procs \ {p} : flight'[q] = flight[q]
    BY <1>1, NoFlightOK, FlightOK
  <1>3. /\ Pending(mem[p]) /\ Answered(mem[p]) /\ lock # p
    BY <1>1, Known DEF At
  <1>4. Orderly(p)'
    BY <1>1, <1>2, <1>3, NoFlightOK
    DEF Orderly, Pending, Answered, Flying, Follows, server
  <1>5. Led'
    <2>1. /\ request' \in [Procs -> [Requests -> Callers]]
          /\ \A r \in Requests : request'[p][r].pc # "lead"
          /\ \A q \in Procs \ {p} : request'[q] = request[q]
      <3> DEFINE new == [r \in Requests |->
                           IF request[p][r].pc \notin {"wait", "lead"} THEN request[p][r]
                           ELSE IF flight[p].ok THEN [request[p][r] EXCEPT !.pc = "read"]
                           ELSE Idle]
      <3>1. request' = [request EXCEPT ![p] = new]
        BY DEF Finish, IInv, Led
      <3>2. \A r \in Requests : new[r] \in Callers /\ new[r].pc # "lead"
        BY DEF IInv, Led, Callers, Idle
      <3>3. new \in [Requests -> Callers]
        BY <3>2
      <3> HIDE DEF new
      <3> QED
        BY <3>1, <3>2, <3>3 DEF IInv, Led
    <2>2. ~InFlight(p)' /\ \A q \in Procs \ {p} : InFlight(q)' <=> InFlight(q)
      BY <1>2, NoFlightOK DEF InFlight
    <2> QED
      BY <2>1, <2>2 DEF IInv, Led
  <1>6. Onwards /\ disk' \in 1..issued'
    BY <1>1, Bounds DEF Onwards, IInv, Types, Gens, server
  <1>7. Kept'
    <2>1. ~Uses(p)
      BY <1>1 DEF Uses, At
    <2>2. \A q \in Procs : Uses(q) => Uses(q)'
      BY <1>1, <1>2, <2>1 DEF Uses, At
    <2> QED
      BY <1>1, <2>2 DEF IInv, Kept, server
  <1>8. /\ login' \in [Gens -> 0..MaxLogins] /\ mem' \in [Procs -> Transports]
        /\ unspent' \union aged' \union mislaid' \subseteq 1..issued'
        /\ lock' \in Procs \union {Free} /\ faults' \in 0..MaxFaults
    BY <1>1 DEF IInv, Types, server
  <1> QED
    BY <1>1, <1>2, <1>3, <1>4, <1>5, <1>6, <1>7, <1>8, NoFlightOK, OneStep DEF server

-------------------------------------------------------------------------------
(* Each step of a request or of the environment preserves the invariant *)

LEMMA Aside ==
  ASSUME IInv, Led', UNCHANGED <<mem, flight, lock, disk, issued, login, unspent, mislaid, faults>>,
         aged' \subseteq 1..issued
  PROVE  IInv'
  <1>1. Types' /\ Locks' /\ Kept'
    BY DEF IInv, Types, Locks, Kept, Uses, At
  <1>2. \A q \in Procs : Orderly(q)'
    BY DEF IInv, Orderly, Pending, Answered, Flying, Follows
  <1> QED
    BY <1>1, <1>2 DEF IInv

LEMMA AgedOK == ASSUME IInv, UNCHANGED server
                PROVE  /\ aged' \subseteq 1..issued
                       /\ UNCHANGED <<issued, login, unspent>>
  BY DEF IInv, Types, server

\* A request that leads no refresh does not begin to, or keeps waiting.
LEMMA RequestGoes ==
  ASSUME IInv, NEW p \in Procs, NEW r \in Requests, NEW c \in Callers,
         request' = [request EXCEPT ![p][r] = c],
         c.pc = "lead" <=> request[p][r].pc = "lead",
         UNCHANGED <<mem, flight, lock, disk, server, mislaid, faults>>
  PROVE  IInv'
  <1>1. /\ request' \in [Procs -> [Requests -> Callers]]
        /\ \A q \in Procs, s \in Requests :
             request'[q][s].pc = "lead" <=> request[q][s].pc = "lead"
    BY DEF IInv, Led
  <1>2. Led'
    BY <1>1 DEF IInv, Led, InFlight
  <1> QED
    BY <1>2, AgedOK, Aside

LEMMA BecomeOK ==
  ASSUME IInv, NEW p \in Procs, NEW r \in Requests,
         NEW pc \in {"check", "wait", "read"}, Become(p, r, pc),
         request[p][r].pc # "lead",
         UNCHANGED <<mem, flight, lock, disk, server, mislaid, faults>>
  PROVE  IInv'
  <1> DEFINE c == [request[p][r] EXCEPT !.pc = pc]
  <1>1. c \in Callers /\ c.pc = pc
    BY DEF IInv, Led, Callers
  <1>2. request' = [request EXCEPT ![p][r] = c]
    BY DEF Become, IInv, Led
  <1> HIDE DEF c
  <1> QED
    BY <1>1, <1>2, RequestGoes

LEMMA EndOK ==
  ASSUME IInv, NEW p \in Procs, NEW r \in Requests, End(p, r), request[p][r].pc # "lead",
         UNCHANGED <<mem, flight, lock, disk, server, mislaid, faults>>
  PROVE  IInv'
  <1>1. Idle \in Callers /\ Idle.pc # "lead"
    BY DEF Idle, Callers
  <1> QED
    BY <1>1, RequestGoes DEF End

LEMMA CancelStep ==
  ASSUME IInv, NEW p \in Procs, NEW r \in Requests, Cancel(p, r) PROVE IInv'
  <1> DEFINE c == [request[p][r] EXCEPT !.cancelled = TRUE]
  <1>1. c \in Callers /\ c.pc = request[p][r].pc
    <2>1. request[p][r] \in Callers
      BY DEF IInv, Led
    <2> QED
      BY <2>1 DEF Callers
  <1>2. request' = [request EXCEPT ![p][r] = c]
        /\ UNCHANGED <<mem, flight, lock, disk, server, mislaid, faults>>
    BY DEF Cancel, IInv, Led
  <1> HIDE DEF c
  <1> QED
    BY <1>1, <1>2, RequestGoes

LEMMA LeadStep == ASSUME IInv, NEW p \in Procs, NEW r \in Requests, Lead(p, r) PROVE IInv'
  <1> DEFINE k == [NoFlight EXCEPT !.step = "lock", !.retry = (mem[p].pending # 0)]
  <1>1. /\ request[p][r].pc = "check" /\ ~mem[p].blocked /\ flight[p].step = "none"
        /\ Become(p, r, "lead") /\ flight' = [flight EXCEPT ![p] = k]
        /\ UNCHANGED <<mem, lock, disk, server, mislaid, faults>>
    BY DEF Lead, Refused, InFlight
  <1>2. k \in Flights /\ k.step = "lock" /\ (k.retry <=> mem[p].pending # 0)
    <2>1. (mem[p].pending # 0) \in BOOLEAN
      OBVIOUS
    <2> QED
      BY <2>1, NoFlightOK DEF Flights
  <1> HIDE DEF k
  <1>3. /\ flight' \in [Procs -> Flights] /\ flight'[p] = k
        /\ \A q \in Procs \ {p} : flight'[q] = flight[q]
    BY <1>1, <1>2, FlightOK
  <1>4. Pending(mem[p]) /\ Answered(mem[p]) /\ lock # p
    BY <1>1, Known
  <1>5. Orderly(p)'
    BY <1>1, <1>2, <1>3, <1>4 DEF Orderly, Pending, Answered, Flying, Follows, server
  <1>6. Led'
    <2>1. /\ request' \in [Procs -> [Requests -> Callers]]
          /\ request'[p][r].pc = "lead"
          /\ \A s \in Requests \ {r} : request'[p][s] = request[p][s]
          /\ \A q \in Procs \ {p} : request'[q] = request[q]
      <3> DEFINE c == [request[p][r] EXCEPT !.pc = "lead"]
      <3>1. c \in Callers /\ c.pc = "lead"
        BY DEF IInv, Led, Callers
      <3>2. request' = [request EXCEPT ![p][r] = c]
        BY <1>1 DEF Become, IInv, Led
      <3> HIDE DEF c
      <3> QED
        BY <3>1, <3>2 DEF IInv, Led
    <2>2. \A s \in Requests : request[p][s].pc # "lead"
      BY <1>1 DEF IInv, Led, InFlight
    <2>3. InFlight(p)' /\ \A q \in Procs \ {p} : InFlight(q)' <=> InFlight(q)
      BY <1>2, <1>3 DEF InFlight
    <2> QED
      BY <2>1, <2>2, <2>3 DEF IInv, Led
  <1>7. Onwards /\ disk' \in 1..issued'
    BY <1>1, Bounds DEF Onwards, IInv, Types, Gens, server
  <1>8. Kept'
    <2>1. ~Uses(p)
      BY <1>1 DEF Uses, At
    <2>2. \A q \in Procs : Uses(q) => Uses(q)'
      BY <1>1, <1>3, <2>1 DEF Uses, At
    <2> QED
      BY <1>1, <2>2 DEF IInv, Kept, server
  <1>9. /\ login' \in [Gens -> 0..MaxLogins] /\ mem' \in [Procs -> Transports]
        /\ unspent' \union aged' \union mislaid' \subseteq 1..issued'
        /\ lock' \in Procs \union {Free} /\ faults' \in 0..MaxFaults
    BY <1>1 DEF IInv, Types, server
  <1> QED
    BY <1>1, <1>2, <1>3, <1>4, <1>5, <1>6, <1>7, <1>8, <1>9, OneStep DEF server

\* A process that has just begun.
LEMMA Begun ==
  ASSUME IInv, NEW p \in Procs, mem' = [mem EXCEPT ![p] = Started(disk)],
         flight' = [flight EXCEPT ![p] = NoFlight], Led',
         lock' = IF lock = p THEN Free ELSE lock,
         UNCHANGED <<disk, server>>, mislaid \subseteq mislaid', mislaid' \subseteq 1..issued,
         faults' \in 0..MaxFaults, Uses(p) => disk \in mislaid'
  PROVE  IInv'
  <1>1. Started(disk) \in Transports /\ Started(disk).pending = 0
        /\ Started(disk).answered = {} /\ ~Started(disk).blocked
    BY Bounds, StartedOK DEF IInv, Types, Gens
  <1>2. /\ flight' \in [Procs -> Flights] /\ flight'[p] = NoFlight
        /\ \A q \in Procs \ {p} : flight'[q] = flight[q]
    BY NoFlightOK, FlightOK
  <1>3. /\ mem' \in [Procs -> Transports] /\ mem'[p] = Started(disk)
        /\ \A q \in Procs \ {p} : mem'[q] = mem[q]
    BY <1>1 DEF IInv, Types
  <1>4. Orderly(p)'
    BY <1>1, <1>2, <1>3, NoFlightOK DEF Orderly, Pending, Answered, Flying
  <1>5. Onwards /\ disk' \in 1..issued'
    BY Bounds DEF Onwards, IInv, Types, Gens, server
  <1>6. Kept'
    <2>1. \A q \in Procs \ {p} : Uses(q) => Uses(q)'
      BY <1>2, <1>3 DEF Uses, At
    <2> QED
      BY <2>1 DEF IInv, Kept, server
  <1>7. /\ login' \in [Gens -> 0..MaxLogins]
        /\ unspent' \union aged' \union mislaid' \subseteq 1..issued'
        /\ lock' \in Procs \union {Free} /\ lock' # p
        /\ \A q \in Procs \ {p} : lock' = q <=> lock = q
    BY Bounds DEF IInv, Types, server
  <1> QED
    BY <1>2, <1>3, <1>4, <1>5, <1>6, <1>7, NoFlightOK, OneStep DEF server

LEMMA RestartStep == ASSUME IInv, NEW p \in Procs, Restart(p) PROVE IInv'
  <1>1. /\ \A r \in Requests : request[p][r].pc = "idle"
        /\ mem' = [mem EXCEPT ![p] = Started(disk)]
        /\ UNCHANGED <<flight, request, lock, disk, server, mislaid, faults>>
    BY DEF Restart
  <1>2. flight[p].step = "none"
    BY <1>1 DEF IInv, Led, InFlight
  <1>3. /\ Started(disk) \in Transports /\ Started(disk).pending = 0
        /\ Started(disk).answered = {} /\ ~Started(disk).blocked
    BY Bounds, StartedOK DEF IInv, Types, Gens
  <1>4. /\ mem' \in [Procs -> Transports] /\ mem'[p] = Started(disk)
        /\ \A q \in Procs \ {p} : mem'[q] = mem[q]
    BY <1>1, <1>3 DEF IInv, Types
  <1>5. Orderly(p)'
    BY <1>1, <1>2, <1>3, <1>4 DEF Orderly, Pending, Answered, Flying
  <1>6. Onwards /\ disk' \in 1..issued'
    BY <1>1, Bounds DEF Onwards, IInv, Types, Gens, server
  <1>7. Kept'
    <2>1. \A q \in Procs : Uses(q) => Uses(q)'
      BY <1>1, <1>2, <1>4 DEF Uses, At
    <2> QED
      BY <1>1, <2>1 DEF IInv, Kept, server
  <1>8. /\ login' \in [Gens -> 0..MaxLogins] /\ flight' \in [Procs -> Flights]
        /\ unspent' \union aged' \union mislaid' \subseteq 1..issued'
        /\ lock' \in Procs \union {Free} /\ faults' \in 0..MaxFaults /\ Led'
    BY <1>1 DEF IInv, Types, server, Led, InFlight
  <1>9. lock # p
    BY <1>2, Known
  <1> QED
    BY <1>1, <1>2, <1>4, <1>5, <1>6, <1>7, <1>8, <1>9, OneStep DEF server

LEMMA CrashStep == ASSUME IInv, NEW p \in Procs, Crash(p) PROVE IInv'
  <1> DEFINE a == IF At(p, "receive") /\ flight[p].answer # 0 THEN {flight[p].gen} ELSE {}
             b == IF mem[p].pending # 0 THEN {g \in {disk} : g = mem[p].prev} ELSE {}
  <1>1. /\ Fault /\ mislaid' = mislaid \union a \union b
        /\ mem' = [mem EXCEPT ![p] = Started(disk)]
        /\ flight' = [flight EXCEPT ![p] = NoFlight]
        /\ request' = [request EXCEPT ![p] = [r \in Requests |-> Idle]]
        /\ lock' = IF lock = p THEN Free ELSE lock
        /\ UNCHANGED <<disk, server>>
    BY DEF Crash
  <1>2. a \subseteq {disk} /\ b \subseteq {disk} /\ disk \in 1..issued
    BY Exchanged DEF IInv, Types
  <1>3. Uses(p) => disk \in a \union b
    <2>1. CASE At(p, "receive") /\ flight[p].answer # 0
      BY <2>1, Exchanged
    <2>2. CASE At(p, "persist") /\ disk = mem[p].prev
      BY <2>2, Known DEF At, Flying
    <2> QED
      BY <2>1, <2>2 DEF Uses
  <1> HIDE DEF a, b
  <1>4. Led'
    <2>1. Idle \in Callers /\ Idle.pc # "lead"
      BY DEF Idle, Callers
    <2>2. /\ request' \in [Procs -> [Requests -> Callers]]
          /\ \A r \in Requests : request'[p][r].pc # "lead"
          /\ \A q \in Procs \ {p} : request'[q] = request[q]
      BY <1>1, <2>1 DEF IInv, Led
    <2>3. ~InFlight(p)' /\ \A q \in Procs \ {p} : InFlight(q)' <=> InFlight(q)
      BY <1>1, NoFlightOK, FlightOK DEF InFlight
    <2> QED
      BY <2>2, <2>3 DEF IInv, Led
  <1> QED
    BY <1>1, <1>2, <1>3, <1>4, Faults, Begun

LEMMA AgeStep == ASSUME IInv, Age PROVE IInv'
  <1>1. aged' \subseteq 1..issued
    BY DEF Age, IInv, Types
  <1>2. Led'
    BY DEF Age, IInv, Led, InFlight
  <1> QED
    BY <1>1, <1>2, Aside DEF Age

LEMMA LoginStep == ASSUME IInv, Login PROVE IInv'
  <1> PICK n : n = issued + 1
    OBVIOUS
  <1>1. /\ lock = Free /\ login[disk] < MaxLogins /\ n \in Gens
        /\ issued' = n /\ disk' = n /\ unspent' = unspent \union {n}
        /\ login' = [login EXCEPT ![n] = login[disk] + 1]
        /\ UNCHANGED <<mem, flight, request, lock, aged, mislaid, faults>>
    BY DEF Login
  <1>2. /\ issued \in Gens /\ issued \in Nat /\ disk \in 1..issued /\ disk \in Gens
        /\ disk \in Nat /\ login \in [Gens -> 0..MaxLogins]
        /\ unspent \union aged \union mislaid \subseteq 1..issued
    BY Bounds DEF IInv, Types, Gens
  <1>3. Onwards
    BY <1>1, <1>2, Bounds DEF Onwards
  <1>4. \A q \in Procs : Orderly(q)'
    <2>1. ASSUME NEW q \in Procs
          PROVE  Orderly(q)'
      <3>1. lock # q
        BY <1>1, Bounds
      <3> QED
        BY <1>1, <1>3, <3>1, Others
    <2> QED
      BY <2>1
  <1>5. Types'
    <2>1. login' \in [Gens -> 0..MaxLogins]
      <3>1. login[disk] + 1 \in 0..MaxLogins
        BY <1>1, <1>2, Bounds
      <3> QED
        BY <1>1, <1>2, <3>1
    <2>2. disk' \in 1..issued' /\ unspent' \union aged' \union mislaid' \subseteq 1..issued'
      BY <1>1, <1>2
    <2> QED
      BY <1>1, <2>1, <2>2 DEF IInv, Types
  <1>6. Led' /\ Locks' /\ Kept'
    BY <1>1 DEF IInv, Led, InFlight, Locks, Kept
  <1> QED
    BY <1>4, <1>5, <1>6 DEF IInv

-------------------------------------------------------------------------------
(* The specification *)

LEMMA InitOK == Init => IInv
  <1> SUFFICES ASSUME Init
               PROVE  IInv
    OBVIOUS
  <1>1. Started(1) \in Transports /\ Started(1).pending = 0
        /\ Started(1).answered = {} /\ ~Started(1).blocked
    BY Bounds, StartedOK
  <1>2. Types
    BY <1>1, Bounds, NoFlightOK DEF Init, Types
  <1>3. \A p \in Procs : flight[p].step = "none" /\ mem[p] = Started(1)
    BY NoFlightOK DEF Init
  <1>4. Led
    BY <1>3 DEF Init, Led, Idle, Callers, InFlight
  <1>5. Locks
    BY <1>3, Bounds DEF Init, Locks
  <1>6. \A p \in Procs : Orderly(p)
    BY <1>1, <1>3 DEF Orderly, Pending, Answered, Flying
  <1>7. Kept
    BY DEF Init, Kept
  <1> QED
    BY <1>2, <1>4, <1>5, <1>6, <1>7 DEF IInv

LEMMA RequestOK ==
  ASSUME IInv, NEW p \in Procs, NEW r \in Requests,
         Request(p, r) \/ Cancel(p, r) \/ WaitCancelled(p, r) \/ RequestStep(p, r)
  PROVE  IInv'
  <1>1. CASE Request(p, r) \/ CheckPasses(p, r) \/ Join(p, r)
    BY <1>1, BecomeOK DEF Request, CheckPasses, Join
  <1>2. CASE WaitCancelled(p, r) \/ CheckFails(p, r) \/ Send(p, r)
    BY <1>2, EndOK DEF WaitCancelled, CheckFails, Send
  <1>3. CASE Cancel(p, r)
    BY <1>3, CancelStep
  <1>4. CASE Lead(p, r)
    BY <1>4, LeadStep
  <1> QED
    BY <1>1, <1>2, <1>3, <1>4 DEF RequestStep

LEMMA ProcessOK ==
  ASSUME IInv, NEW p \in Procs, RefreshStep(p) \/ Failure(p) \/ Restart(p)
  PROVE  IInv'
  <1>1. CASE RefreshStep(p)
    BY <1>1, AcquireStep, LockFailsStep, ReloadStep, GiveUpStep, AdoptedStep, PresentStep,
       ReceiveStep, PersistStep, PersistLosesStep, ReleaseStep, FinishStep
    DEF RefreshStep
  <1>2. CASE Failure(p)
    BY <1>2, PrepareFailsStep, RequestLostStep, AnswerLostStep, AnswerEmptyStep,
       AnswerBadStep, PersistFailsStep, CrashStep
    DEF Failure
  <1> QED
    BY <1>1, <1>2, RestartStep

LEMMA NextOK == IInv /\ [Next]_vars => IInv'
  <1> SUFFICES ASSUME IInv, [Next]_vars
               PROVE  IInv'
    OBVIOUS
  <1>1. CASE UNCHANGED vars
    <2>1. Led'
      BY <1>1 DEF vars, IInv, Led, InFlight
    <2> QED
      BY <1>1, <2>1, AgedOK, Aside DEF vars, server
  <1> QED
    BY <1>1, RequestOK, ProcessOK, AgeStep, LoginStep DEF Next

\* What every property below rests on: types, the ledger of generations, the
\* lock, what each transport holds at each step, and what the disk still has.
THEOREM Invariance == Spec => []IInv
  <1> QED
    BY InitOK, NextOK, PTL DEF Spec

-------------------------------------------------------------------------------
(* The theorems *)

\* Types, that the lock of the config is held exactly by the refresh between
\* its acquisition and its release, and that one request leads each refresh.
THEOREM TypeCorrect == Spec => []TypeOK
  <1>1. IInv => TypeOK
    <2> SUFFICES ASSUME IInv
                 PROVE  TypeOK
      OBVIOUS
    <2>1. {disk, issued} \subseteq Gens
      BY Bounds DEF IInv, Types, Gens
    <2> QED
      BY <2>1 DEF IInv, Types, Led, Locks, TypeOK, Callers
  <1> QED
    BY <1>1, Invariance, PTL

\* refreshAndPersist: the server is shown a refresh token a second time only
\* when the answer to its first use did not reach the disk.
THEOREM NeverReplayedHolds == Spec => []NeverReplayed
  <1>1. IInv => NeverReplayed
    BY Known DEF NeverReplayed, At, Flying
  <1> QED
    BY <1>1, Invariance, PTL

\* Whenever no refresh holds the lock, the config holds a refresh token that
\* the server accepts, unless a failure kept its successor from the disk.
THEOREM LockedOutOnlyByFailureHolds == Spec => []LockedOutOnlyByFailure
  <1>1. IInv => LockedOutOnlyByFailure
    <2> SUFFICES ASSUME IInv, lock = Free
                 PROVE  disk \in unspent \union mislaid
      BY DEF LockedOutOnlyByFailure
    <2>1. \A p \in Procs : ~Uses(p)
      BY Known, Bounds DEF Uses, At
    <2> QED
      BY <2>1 DEF IInv, Kept
  <1> QED
    BY <1>1, Invariance, PTL

\* pendingRefresh: a process that got an answer for a token never presents that
\* token again, whatever fails in between.
THEOREM NeverPresentedAgainHolds == Spec => []NeverPresentedAgain
  <1>1. IInv => NeverPresentedAgain
    <2> SUFFICES ASSUME IInv, NEW p \in Procs, At(p, "present")
                 PROVE  mem[p].refresh \notin mem[p].answered
      BY DEF NeverPresentedAgain
    <2>1. /\ mem[p].refresh = disk /\ mem[p].pending = 0 /\ ~mem[p].blocked
          /\ \A g \in mem[p].answered : g < disk
      BY Known DEF At, Flying, Answered
    <2>2. disk \in Nat
      BY Bounds DEF IInv, Types
    <2> QED
      BY <2>1, <2>2
  <1> QED
    BY <1>1, Invariance, PTL

\* The compare and swap of the persistence: what is on the disk never falls
\* back behind a login, however late a refresh is stored.
THEOREM LoginWinsHolds == Spec => LoginWins
  <1>1. IInv /\ [Next]_vars => login'[disk'] >= login[disk]
    <2> SUFFICES ASSUME IInv, [Next]_vars
                 PROVE  login'[disk'] >= login[disk]
      OBVIOUS
    <2>1. /\ disk \in Gens /\ disk \in 1..issued /\ login[disk] \in Nat
          /\ issued \in Nat /\ login \in [Gens -> 0..MaxLogins]
      BY Bounds DEF IInv, Types, Gens
    <2>2. CASE UNCHANGED <<disk, login>>
      BY <2>1, <2>2
    <2>3. ASSUME NEW p \in Procs, Present(p)
          PROVE  login'[disk] = login[disk] /\ UNCHANGED disk
      BY <2>1, <2>3 DEF Present
    <2>4. ASSUME NEW p \in Procs, At(p, "persist"), UNCHANGED login,
                 disk \in {mem[p].pending, mem[p].prev}, disk' \in {disk, mem[p].pending}
          PROVE  login'[disk'] = login[disk]
      BY <2>4, Storing DEF Follows
    <2>5. CASE Login
      <3>1. disk' = issued + 1 /\ login' = [login EXCEPT ![disk'] = login[disk] + 1]
            /\ disk' \in Gens
        BY <2>5 DEF Login
      <3>2. login'[disk'] = login[disk] + 1
        BY <2>1, <3>1
      <3> QED
        BY <2>1, <3>2
    <2>6. ASSUME NEW p \in Procs, Persist(p) \/ PersistFails(p)
          PROVE  login'[disk'] = login[disk]
      <3>1. UNCHANGED login /\ At(p, "persist")
        BY <2>6 DEF Persist, PersistFails, server
      <3>2. CASE UNCHANGED disk
        BY <3>1, <3>2
      <3>3. CASE disk \in {mem[p].pending, mem[p].prev} /\ disk' = mem[p].pending
        BY <2>4, <3>1, <3>3
      <3> QED
        BY <2>6, <3>2, <3>3 DEF Persist, PersistFails
    <2>7. ASSUME NEW p \in Procs, RefreshStep(p) \/ Failure(p) \/ Restart(p),
                 ~Present(p), ~Persist(p), ~PersistFails(p)
          PROVE  UNCHANGED <<disk, login>>
      BY <2>7 DEF RefreshStep, Failure, Acquire, LockFails, Reload, GiveUp, Adopted, Receive,
                  PersistLoses, Release, Finish, PrepareFails, RequestLost, AnswerLost,
                  AnswerEmpty, AnswerBad, Crash, Restart, server
    <2>8. ASSUME NEW p \in Procs, NEW r \in Requests,
                 Request(p, r) \/ Cancel(p, r) \/ WaitCancelled(p, r) \/ RequestStep(p, r)
          PROVE  UNCHANGED <<disk, login>>
      BY <2>8 DEF RequestStep, Request, Cancel, WaitCancelled, CheckPasses, CheckFails, Join,
                  Lead, Send, server
    <2>9. CASE Age \/ UNCHANGED vars
      BY <2>2, <2>9 DEF Age, vars
    <2> QED
      BY <2>1, <2>2, <2>3, <2>5, <2>6, <2>7, <2>8, <2>9 DEF Next
  <1> QED
    BY <1>1, Invariance, PTL DEF Spec, LoginWins

-------------------------------------------------------------------------------
(* One exchange for each generation that has grown old *)

\* maybeRefresh and adoptFreshStoredTokens: however many requests and processes
\* find the token about to expire, a refresh token is presented only when the
\* access token issued with it is about to expire, by all that is stored.
PresentedWhenOld == \A p \in Procs : At(p, "present") => mem[p].refresh \in aged

\* The bound on generations keeps no exchange and no login from happening: what
\* the server has to issue follows from the generations that grow old, the
\* logins and the failures.
EnoughGenerations ==
  /\ \A p \in Procs : At(p, "present") /\ mem[p].refresh \in unspent => issued + 1 \in Gens
  /\ login[disk] < MaxLogins => issued + 1 \in Gens

\* A refresh that has not reached the server was begun for want of a usable
\* token, and presents only what is old.
Needed(p) ==
  /\ (At(p, "lock") /\ ~flight[p].retry) \/ At(p, "reload") => ~Usable(p)
  /\ At(p, "present") => mem[p].refresh \in aged

\* Every spent generation is an old one, a login leaves one generation
\* unspent, and so does each exchange in place of the one it spends.
GInv ==
  /\ \A p \in Procs : Needed(p)
  /\ (1..issued) \ unspent \subseteq aged
  /\ Cardinality(unspent) = 1 + login[disk]
  /\ Cardinality(aged) <= MaxAges + faults

\* The generations are finitely many.
LEMMA Counts ==
  ASSUME IInv
  PROVE  /\ IsFiniteSet(unspent) /\ Cardinality(unspent) \in Nat
         /\ IsFiniteSet(aged) /\ Cardinality(aged) \in Nat
         /\ issued \in Nat /\ disk \in 1..issued /\ 1..issued \subseteq Gens
         /\ login \in [Gens -> 0..MaxLogins] /\ login[disk] \in Nat /\ login[disk] <= MaxLogins
         /\ faults \in Nat /\ faults <= MaxFaults
         /\ unspent \subseteq 1..issued /\ aged \subseteq 1..issued
  <1>1. /\ issued \in Nat /\ disk \in 1..issued /\ 1..issued \subseteq Gens
        /\ unspent \subseteq 1..issued /\ aged \subseteq 1..issued
        /\ faults \in Nat /\ faults <= MaxFaults /\ login \in [Gens -> 0..MaxLogins]
    BY Bounds DEF IInv, Types, Gens
  <1>2. IsFiniteSet(1..issued)
    BY <1>1, FS_Interval
  <1>3. IsFiniteSet(unspent) /\ IsFiniteSet(aged)
    BY <1>1, <1>2, FS_Subset
  <1>4. Cardinality(unspent) \in Nat /\ Cardinality(aged) \in Nat
    BY <1>3, FS_CardinalityType
  <1>5. login[disk] \in 0..MaxLogins
    BY <1>1
  <1> QED
    BY <1>1, <1>3, <1>4, <1>5, Bounds

\* A refresh at any other step needs nothing.
LEMMA NothingNeeded ==
  ASSUME NEW p \in Procs,
         flight[p].step \in {"none", "adopted", "receive", "persist", "release", "finish"}
  PROVE  Needed(p)
  BY DEF Needed, At

\* What is old stays old.
LEMMA NeededStays ==
  ASSUME NEW p \in Procs, Needed(p), aged \subseteq aged', flight'[p] = flight[p],
         mem'[p] = mem[p]
  PROVE  Needed(p)'
  BY DEF Needed, At, Usable

\* A step that issues nothing and makes at most one failure's generation old.
LEMMA NothingIssued ==
  ASSUME IInv, GInv, UNCHANGED <<issued, login, unspent>>, login[disk'] = login[disk],
         aged \subseteq aged', Cardinality(aged') <= MaxAges + faults',
         \A p \in Procs : Needed(p)'
  PROVE  GInv'
  <1>1. (1..issued') \ unspent' \subseteq aged'
    BY DEF GInv
  <1>2. Cardinality(unspent') = 1 + login'[disk']
    BY DEF GInv
  <1> QED
    BY <1>1, <1>2 DEF GInv

\* The same, when nothing grows old.
LEMMA NothingOlder ==
  ASSUME IInv, GInv, UNCHANGED <<issued, login, unspent, aged>>, login[disk'] = login[disk],
         faults' \in {faults, faults + 1}, \A p \in Procs : Needed(p)'
  PROVE  GInv'
  <1>1. Cardinality(aged) <= MaxAges + faults
    BY DEF GInv
  <1>2. Cardinality(aged) <= MaxAges + faults'
    BY <1>1, Counts, BoundsOK
  <1>3. Cardinality(aged') = Cardinality(aged)
    OBVIOUS
  <1> QED
    BY <1>2, <1>3, NothingIssued

\* A step of the refresh of p.
LEMMA NeededByOne ==
  ASSUME GInv, NEW p \in Procs, aged \subseteq aged', Needed(p)',
         \A q \in Procs \ {p} : mem'[q] = mem[q] /\ flight'[q] = flight[q]
  PROVE  \A q \in Procs : Needed(q)'
  BY NeededStays DEF GInv

\* Requests come, wait, and go on; the refresh they lead begins for want of a
\* usable token.
LEMMA RequestNeeded ==
  ASSUME IInv, GInv, NEW p \in Procs, NEW r \in Requests,
         Request(p, r) \/ Cancel(p, r) \/ WaitCancelled(p, r) \/ RequestStep(p, r)
  PROVE  GInv'
  <1>1. UNCHANGED <<mem, disk, issued, login, unspent, aged, faults>>
    BY DEF RequestStep, Request, Cancel, WaitCancelled, CheckPasses, CheckFails, Join, Lead,
           Send, server
  <1>2. \A q \in Procs : Needed(q)'
    <2>1. CASE UNCHANGED flight
      BY <1>1, <2>1, NeededStays DEF GInv
    <2>2. CASE Lead(p, r)
      <3>1. flight \in [Procs -> Flights] /\ mem[p] \in Transports
        BY DEF IInv, Types
      <3>2. flight' = [flight EXCEPT ![p] = [NoFlight EXCEPT !.step = "lock",
                                                    !.retry = (mem[p].pending # 0)]]
        BY <2>2 DEF Lead
      <3>3. /\ flight'[p].step = "lock" /\ flight'[p].retry = (mem[p].pending # 0)
            /\ \A q \in Procs \ {p} : flight'[q] = flight[q]
        BY <3>1, <3>2 DEF NoFlight
      <3>4. mem[p].pending = 0 => ~Usable(p)
        BY <2>2 DEF Lead, Refused, Ready
      <3>5. Needed(p)'
        BY <1>1, <3>3, <3>4 DEF Needed, At, Usable
      <3> QED
        BY <1>1, <3>3, <3>5, NeededByOne
    <2> QED
      BY <2>1, <2>2 DEF RequestStep, Request, Cancel, WaitCancelled, CheckPasses, CheckFails,
                        Join, Send
  <1> QED
    BY <1>1, <1>2, NothingOlder

\* What a refresh presents is old by what is on the disk (adoptFreshStoredTokens).
LEMMA ReloadNeeded ==
  ASSUME IInv, GInv, NEW p \in Procs, Acquire(p) \/ Reload(p)
  PROVE  GInv'
  <1>1. /\ UNCHANGED <<disk, issued, login, unspent, aged, faults>>
        /\ mem \in [Procs -> Transports] /\ flight \in [Procs -> Flights] /\ disk \in Gens
        /\ Needed(p)
    BY Counts DEF Acquire, Reload, server, IInv, Types, GInv
  <1>2. PICK s : Goto(p, s)
    BY DEF Acquire, Reload
  <1>3. \A q \in Procs \ {p} : mem'[q] = mem[q] /\ flight'[q] = flight[q]
    BY <1>1, <1>2 DEF Goto, Acquire, Reload
  <1>4. CASE Acquire(p)
    <2>1. /\ UNCHANGED mem /\ flight[p].step = "lock"
          /\ flight'[p] = [flight[p] EXCEPT !.step = IF flight[p].retry THEN "persist"
                                                     ELSE "reload"]
      BY <1>1, <1>4 DEF Acquire, At, Goto
    <2>2. flight'[p].step = IF flight[p].retry THEN "persist" ELSE "reload"
      BY <1>1, <2>1 DEF Flights
    <2>3. flight[p].retry \in BOOLEAN
      BY <1>1 DEF Flights
    <2>4. Needed(p)'
      BY <1>1, <2>1, <2>2, <2>3 DEF Needed, At, Usable
    <2> QED
      BY <1>1, <1>3, <2>4, NeededByOne, NothingOlder
  <1>5. CASE Reload(p)
    <2> DEFINE differs == disk # mem[p].refresh \/ disk # mem[p].token
    <2>1. /\ flight[p].step = "reload" /\ ~Usable(p)
          /\ flight'[p].step = IF differs /\ disk \notin aged THEN "adopted" ELSE "present"
          /\ mem' = IF differs THEN [mem EXCEPT ![p].token = disk, ![p].refresh = disk]
                    ELSE mem
      BY <1>1, <1>5 DEF Reload, At, Goto, Needed, Flights
    <2>2. mem'[p].refresh = disk
      BY <1>1, <2>1 DEF Transports
    <2>3. ~differs => disk \in aged
      BY <1>1, <2>1 DEF Usable
    <2>4. Needed(p)'
      BY <1>1, <2>1, <2>2, <2>3 DEF Needed, At
    <2> QED
      BY <1>1, <1>3, <2>4, NeededByOne, NothingOlder
  <1> QED
    BY <1>4, <1>5

\* An exchange spends an old generation for a new one.
LEMMA PresentNeeded ==
  ASSUME IInv, GInv, NEW p \in Procs, Present(p)
  PROVE  GInv'
  <1> DEFINE g == mem[p].refresh
             n == issued + 1
  <1>1. /\ flight[p].step = "present" /\ flight \in [Procs -> Flights] /\ g \in aged
        /\ UNCHANGED <<mem, disk, aged, faults>>
    BY DEF Present, At, IInv, Types, GInv, Needed
  <1>2. flight'[p].step = "receive" /\ \A q \in Procs \ {p} : flight'[q] = flight[q]
    <2>1. PICK a : flight' = [flight EXCEPT ![p].step = "receive", ![p].gen = g, ![p].answer = a]
      BY DEF Present
    <2> QED
      BY <1>1, <2>1 DEF Flights
  <1>3. \A q \in Procs : Needed(q)'
    <2>1. Needed(p)'
      BY <1>2 DEF Needed, At
    <2> QED
      BY <1>1, <1>2, <2>1, NeededByOne
  <1>4. CASE g \notin unspent
    <2>1. UNCHANGED <<issued, login, unspent>>
      BY <1>4 DEF Present
    <2> QED
      BY <1>1, <1>3, <2>1, NothingOlder
  <1>5. CASE g \in unspent
    <2>1. /\ n \in Gens /\ issued' = n /\ login' = [login EXCEPT ![n] = login[g]]
          /\ unspent' = (unspent \ {g}) \union {n}
      BY <1>5 DEF Present
    <2> HIDE DEF g
    <2>2. n \notin unspent \ {g} /\ disk # n /\ issued \in Nat
      BY Counts
    <2>3. login'[disk'] = login[disk]
      BY <1>1, <2>1, <2>2, Counts
    <2>4. Cardinality(unspent') = Cardinality(unspent)
      <3>1. IsFiniteSet(unspent \ {g}) /\ Cardinality(unspent \ {g}) = Cardinality(unspent) - 1
        BY <1>5, Counts, FS_RemoveElement
      <3>2. Cardinality(unspent') = Cardinality(unspent \ {g}) + 1
        BY <2>1, <2>2, <3>1, FS_AddElement
      <3> QED
        BY <3>1, <3>2, Counts
    <2>5. (1..issued') \ unspent' \subseteq aged'
      <3>1. \A i \in 1..n : i # n => i \in 1..issued
        BY <2>2
      <3>2. (1..issued) \ unspent \subseteq aged
        BY DEF GInv
      <3> QED
        BY <1>1, <2>1, <3>1, <3>2
    <2> QED
      BY <1>1, <1>3, <2>3, <2>4, <2>5 DEF GInv
  <1> QED
    BY <1>4, <1>5

\* Storing a generation leaves the count of logins as it is.
LEMMA PersistNeeded ==
  ASSUME IInv, GInv, NEW p \in Procs, Persist(p) \/ PersistFails(p)
  PROVE  GInv'
  <1>1. /\ flight[p].step = "persist" /\ flight \in [Procs -> Flights]
        /\ mem \in [Procs -> Transports]
        /\ UNCHANGED <<issued, login, unspent, aged>>
        /\ faults' \in {faults, faults + 1}
    BY DEF Persist, PersistFails, At, server, IInv, Types, Fault
  <1>2. PICK ok : Return(p, ok)
    BY DEF Persist, PersistFails, Stored
  <1>3. /\ flight'[p].step = "release"
        /\ \A q \in Procs \ {p} : mem'[q] = mem[q] /\ flight'[q] = flight[q]
    BY <1>1, <1>2 DEF Return, Flights, Persist, PersistFails, Stored
  <1>4. login[disk'] = login[disk]
    <2>1. disk' # disk => disk \in {mem[p].pending, mem[p].prev} /\ disk' = mem[p].pending
      BY DEF Persist, PersistFails
    <2>2. disk' # disk => login'[disk'] = login[disk]
      BY <1>1, <2>1, Storing DEF Follows, At
    <2> QED
      BY <1>1, <2>2
  <1>5. Needed(p)'
    BY <1>3 DEF Needed, At
  <1> QED
    BY <1>1, <1>3, <1>4, <1>5, NeededByOne, NothingOlder

\* An incomplete answer is a failure, and its generation is old at once.
LEMMA AnswerBadNeeded ==
  ASSUME IInv, GInv, NEW p \in Procs, AnswerBad(p)
  PROVE  GInv'
  <1>1. /\ UNCHANGED <<disk, issued, login, unspent>> /\ faults' = faults + 1
        /\ aged' = aged \union {flight[p].answer}
        /\ flight \in [Procs -> Flights] /\ mem \in [Procs -> Transports]
        /\ Goto(p, "persist")
    BY DEF AnswerBad, Take, Fault, IInv, Types
  <1>2. /\ flight'[p].step = "persist"
        /\ \A q \in Procs \ {p} : mem'[q] = mem[q] /\ flight'[q] = flight[q]
    BY <1>1 DEF AnswerBad, Take, Goto, Flights
  <1>3. Cardinality(aged') <= MaxAges + faults'
    <2>1. Cardinality(aged') \in {Cardinality(aged), Cardinality(aged) + 1}
      BY <1>1, Counts, FS_AddElement
    <2>2. Cardinality(aged) <= MaxAges + faults
      BY DEF GInv
    <2> QED
      BY <1>1, <2>1, <2>2, Counts, BoundsOK
  <1>4. Needed(p)'
    BY <1>2 DEF Needed, At
  <1>5. \A q \in Procs : Needed(q)'
    BY <1>1, <1>2, <1>4, NeededByOne
  <1> QED
    BY <1>1, <1>3, <1>5, NothingIssued

\* Every other step of a refresh ends it or leaves it without a need.
LEMMA ElseNeeded ==
  ASSUME IInv, GInv, NEW p \in Procs,
         \/ LockFails(p) \/ GiveUp(p) \/ Adopted(p) \/ Receive(p) \/ PersistLoses(p)
         \/ Release(p) \/ Finish(p)
         \/ PrepareFails(p) \/ RequestLost(p) \/ AnswerLost(p) \/ AnswerEmpty(p)
         \/ Crash(p) \/ Restart(p)
  PROVE  GInv'
  <1>1. /\ UNCHANGED <<disk, issued, login, unspent, aged>> /\ faults' \in {faults, faults + 1}
        /\ flight \in [Procs -> Flights] /\ mem \in [Procs -> Transports]
    BY DEF LockFails, GiveUp, Adopted, Receive, PersistLoses, Release, Finish, PrepareFails,
           RequestLost, AnswerLost, AnswerEmpty, Crash, Restart, server, Fault, IInv, Types
  <1>2. flight'[p].step \in {"none", "persist", "release", "finish"}
    <2>1. CASE LockFails(p) \/ Release(p) \/ PrepareFails(p)
      BY <1>1, <2>1 DEF LockFails, Release, PrepareFails, Goto, Return, Flights
    <2>2. CASE GiveUp(p) \/ Adopted(p) \/ Receive(p) \/ PersistLoses(p)
      BY <1>1, <2>2 DEF GiveUp, Adopted, Receive, PersistLoses, Take, Goto, Return, Flights
    <2>3. CASE RequestLost(p) \/ AnswerLost(p) \/ AnswerEmpty(p)
      BY <1>1, <2>3 DEF RequestLost, AnswerLost, AnswerEmpty, Return, Flights
    <2>4. CASE Finish(p) \/ Crash(p)
      BY <1>1, <2>4, NoFlightOK DEF Finish, Crash
    <2>5. CASE Restart(p)
      <3>1. ~InFlight(p)
        BY <2>5 DEF Restart, IInv, Led
      <3> QED
        BY <2>5, <3>1 DEF Restart, InFlight
    <2> QED
      BY <2>1, <2>2, <2>3, <2>4, <2>5
  <1>3. \A q \in Procs \ {p} : mem'[q] = mem[q] /\ flight'[q] = flight[q]
    BY <1>1 DEF LockFails, GiveUp, Adopted, Receive, PersistLoses, Release, Finish, PrepareFails,
           RequestLost, AnswerLost, AnswerEmpty, Crash, Restart, Take, Goto, Return
  <1>4. Needed(p)'
    BY <1>2 DEF Needed, At
  <1> QED
    BY <1>1, <1>3, <1>4, NeededByOne, NothingOlder

\* Generations grow old.
LEMMA AgeNeeded ==
  ASSUME IInv, GInv, Age
  PROVE  GInv'
  <1>1. PICK g \in 1..issued : aged' = aged \union {g}
    BY DEF Age
  <1>2. /\ Cardinality(aged) < MaxAges
        /\ UNCHANGED <<mem, flight, disk, issued, login, unspent, faults>>
    BY DEF Age
  <1>3. Cardinality(aged') <= MaxAges + faults'
    <2>1. Cardinality(aged') \in {Cardinality(aged), Cardinality(aged) + 1}
      BY <1>1, Counts, FS_AddElement
    <2> QED
      BY <1>2, <2>1, Counts, BoundsOK
  <1>4. \A q \in Procs : Needed(q)'
    BY <1>1, <1>2, NeededStays DEF GInv
  <1> QED
    BY <1>1, <1>2, <1>3, <1>4, NothingIssued

\* A login adds a generation that is not spent.
LEMMA LoginNeeded ==
  ASSUME IInv, GInv, Login
  PROVE  GInv'
  <1> DEFINE n == issued + 1
  <1>1. /\ n \in Gens /\ issued' = n /\ disk' = n /\ unspent' = unspent \union {n}
        /\ login' = [login EXCEPT ![n] = login[disk] + 1]
        /\ UNCHANGED <<mem, flight, aged, faults>>
    BY DEF Login
  <1>2. n \notin unspent /\ issued \in Nat
    BY Counts
  <1>3. Cardinality(unspent') = Cardinality(unspent) + 1
    BY <1>1, <1>2, Counts, FS_AddElement
  <1>4. login'[disk'] = login[disk] + 1
    BY <1>1, Counts
  <1>5. Cardinality(unspent') = 1 + login'[disk']
    BY <1>3, <1>4, Counts DEF GInv
  <1>6. (1..issued') \ unspent' \subseteq aged'
    <2>1. \A i \in 1..n : i # n => i \in 1..issued
      BY <1>2
    <2>2. (1..issued) \ unspent \subseteq aged
      BY DEF GInv
    <2> QED
      BY <1>1, <2>1, <2>2
  <1>7. \A q \in Procs : Needed(q)'
    BY <1>1, NeededStays DEF GInv
  <1> QED
    BY <1>1, <1>5, <1>6, <1>7 DEF GInv

LEMMA InitNeeded == Init => GInv
  <1> SUFFICES ASSUME Init
               PROVE  GInv
    OBVIOUS
  <1>1. \A p \in Procs : Needed(p)
    BY NoFlightOK DEF Init, Needed, At
  <1>2. (1..issued) \ unspent = {}
    BY DEF Init
  <1>3. Cardinality(unspent) = 1 /\ Cardinality(aged) = 0
    BY FS_Singleton, FS_EmptySet DEF Init
  <1>4. login[disk] = 0
    BY Bounds DEF Init
  <1> QED
    BY <1>1, <1>2, <1>3, <1>4, BoundsOK DEF GInv, Init

LEMMA NextNeeded == IInv /\ GInv /\ [Next]_vars => GInv'
  <1> SUFFICES ASSUME IInv, GInv, [Next]_vars
               PROVE  GInv'
    OBVIOUS
  <1>1. CASE UNCHANGED vars
    <2>1. UNCHANGED <<mem, flight, disk, issued, login, unspent, aged, faults>>
      BY <1>1 DEF vars
    <2>2. \A q \in Procs : Needed(q)'
      BY <2>1, NeededStays DEF GInv
    <2> QED
      BY <2>1, <2>2, NothingOlder
  <1>2. ASSUME NEW p \in Procs, RefreshStep(p) \/ Failure(p) \/ Restart(p)
        PROVE  GInv'
    BY <1>2, ReloadNeeded, PresentNeeded, PersistNeeded, AnswerBadNeeded, ElseNeeded
    DEF RefreshStep, Failure
  <1> QED
    BY <1>1, <1>2, RequestNeeded, AgeNeeded, LoginNeeded DEF Next

\* maybeRefresh, adoptFreshStoredTokens: however many requests of however many
\* processes find the token about to expire, and however they interleave with
\* failures and logins, no generation is exchanged before its access token is
\* about to expire; so each expiry costs one exchange at most.
THEOREM PresentedWhenOldHolds == Spec => []PresentedWhenOld
  <1>1. GInv => PresentedWhenOld
    BY DEF GInv, Needed, PresentedWhenOld
  <1> QED
    BY <1>1, InitOK, NextOK, InitNeeded, NextNeeded, PTL DEF Spec

\* The bound MaxGen excludes no behaviour: there is always a generation left for
\* an exchange that succeeds (doProxyRefresh) and for a login.
THEOREM EnoughGenerationsHolds == Spec => []EnoughGenerations
  <1>1. IInv /\ GInv => EnoughGenerations
    <2> SUFFICES ASSUME IInv, GInv
                 PROVE  EnoughGenerations
      OBVIOUS
    <2> DEFINE spent == (1..issued) \ unspent
    <2>1. IsFiniteSet(1..issued) /\ Cardinality(1..issued) = issued
      BY Counts, FS_Interval
    <2>2. IsFiniteSet(spent) /\ Cardinality(spent) \in Nat
      BY <2>1, FS_Subset, FS_CardinalityType
    <2>3. issued = Cardinality(unspent) + Cardinality(spent)
      <3>1. unspent \union spent = 1..issued /\ unspent \cap spent = {}
        BY Counts
      <3>2. Cardinality(unspent \union spent) = Cardinality(unspent) + Cardinality(spent) - 0
        BY <2>2, <3>1, Counts, FS_Union, FS_EmptySet
      <3>3. Cardinality(unspent \union spent) = Cardinality(1..issued)
        BY <3>1
      <3> HIDE DEF spent
      <3> QED
        BY <2>1, <2>2, <3>2, <3>3, Counts
    <2>4. /\ Cardinality(unspent) = 1 + login[disk] /\ Cardinality(aged) <= MaxAges + faults
          /\ spent \subseteq aged
      BY DEF GInv
    <2>5. Cardinality(spent) <= Cardinality(aged)
      BY <2>4, Counts, FS_Subset
    <2>6. \A x \in Nat : x < MaxGen => x + 1 \in Gens
      BY Bounds DEF Gens
    <2>7. MaxGen = 1 + MaxAges + MaxLogins + MaxFaults /\ MaxAges \in Nat
      BY BoundsOK DEF MaxGen
    <2>8. ASSUME NEW p \in Procs, At(p, "present"), mem[p].refresh \in unspent
          PROVE  issued + 1 \in Gens
      <3> DEFINE g == mem[p].refresh
      <3>1. g \in aged /\ g \notin spent
        BY <2>8 DEF GInv, Needed
      <3> HIDE DEF g
      <3>2. spent \union {g} \subseteq aged
        BY <2>4, <3>1
      <3>3. Cardinality(spent \union {g}) <= Cardinality(aged)
        BY <3>2, Counts, FS_Subset
      <3>4. Cardinality(spent \union {g}) = Cardinality(spent) + 1
        BY <2>2, <3>1, FS_AddElement
      <3>5. Cardinality(spent) + 1 <= Cardinality(aged)
        BY <3>3, <3>4
      <3> HIDE DEF spent
      <3>6. issued < MaxGen
        BY <2>2, <2>3, <2>4, <2>7, <3>5, Counts, Bounds
      <3> QED
        BY <2>6, <3>6, Counts
    <2>9. ASSUME login[disk] < MaxLogins
          PROVE  issued + 1 \in Gens
      <3> HIDE DEF spent
      <3>1. issued < MaxGen
        BY <2>2, <2>3, <2>4, <2>5, <2>7, <2>9, Counts, Bounds
      <3> QED
        BY <2>6, <3>1, Counts
    <2> QED
      BY <2>8, <2>9 DEF EnoughGenerations
  <1> QED
    BY <1>1, InitOK, NextOK, InitNeeded, NextNeeded, PTL DEF Spec

-------------------------------------------------------------------------------
(* A request only goes on, and nobody is left waiting *)

\* The order of the steps of a refresh.
Place(s) == CASE s = "none"                   -> 0
              [] s = "lock"                   -> 1
              [] s = "reload"                 -> 2
              [] s \in {"adopted", "present"} -> 3
              [] s = "receive"                -> 4
              [] s = "persist"                -> 5
              [] s = "release"                -> 6
              [] OTHER                        -> 7

\* The order of the steps of a request.
Rank(pc) == CASE pc = "idle"  -> 0
              [] pc = "check" -> 1
              [] pc = "read"  -> 3
              [] OTHER        -> 2

Waits(p, r) == request[p][r].pc \in {"wait", "lead"}

Further(p) == Place(flight'[p].step) > Place(flight[p].step)

\* The refresh of p has ended, and so has the waiting for it.
Over(p) == flight'[p] = NoFlight /\ \A r \in Requests : ~Waits(p, r)'

\* rest.go maybeRefresh, refreshFlight.done: whoever waits for a refresh waits
\* for one that is under way, and not for one that has ended.
NobodyLeftWaiting == \A p \in Procs, r \in Requests : Waits(p, r) => InFlight(p)

\* maybeRefresh, refreshAndPersist: a refresh takes no step a second time, and
\* each of its own steps is another one or its end; a request that has waited
\* is not checked again, and does not wait for the next refresh. So a request
\* takes a bounded number of steps, whatever becomes of its refresh.
OnlyGoesOn ==
  [][\A p \in Procs :
       /\ flight'[p] = flight[p] \/ Further(p) \/ Over(p)
       /\ RefreshStep(p) => flight'[p] # flight[p]
       /\ \A r \in Requests :
            /\ \/ Rank(request'[p][r].pc) >= Rank(request[p][r].pc)
               \/ request'[p][r].pc = "idle"
            /\ RequestStep(p, r) => request'[p][r].pc # request[p][r].pc]_vars

LEMMA Places ==
  /\ Place("none") = 0    /\ Place("lock") = 1    /\ Place("reload") = 2
  /\ Place("adopted") = 3 /\ Place("present") = 3 /\ Place("receive") = 4
  /\ Place("persist") = 5 /\ Place("release") = 6 /\ Place("finish") = 7
  /\ \A s : Place(s) \in 0..7
  BY DEF Place

LEMMA Ranks ==
  /\ Rank("idle") = 0 /\ Rank("check") = 1 /\ Rank("wait") = 2
  /\ Rank("lead") = 2 /\ Rank("read") = 3
  /\ \A pc : Rank(pc) \in 0..3
  BY DEF Rank

\* What every step does to each process: its refresh goes on or ends, and its
\* requests go on, and wait only for a refresh.
Goes(q) ==
  /\ flight'[q] = flight[q] \/ Further(q) \/ Over(q)
  /\ \A r \in Requests :
       /\ \/ Rank(request'[q][r].pc) >= Rank(request[q][r].pc)
          \/ request'[q][r].pc = "idle"
       /\ Waits(q, r)' => Waits(q, r) \/ InFlight(q)'

LEMMA Stays ==
  ASSUME NEW q \in Procs, flight'[q] = flight[q], request'[q] = request[q]
  PROVE  Goes(q)
  <1>1. \A r \in Requests : Rank(request[q][r].pc) \in 0..3
    BY Ranks
  <1> QED
    BY <1>1 DEF Goes, Waits

\* The refresh of p takes a step.
LEMMA FliesOn ==
  ASSUME IInv, NEW p \in Procs, NEW k \in Flights, flight' = [flight EXCEPT ![p] = k],
         Place(k.step) > Place(flight[p].step), UNCHANGED request
  PROVE  Further(p) /\ \A q \in Procs : Goes(q)
  <1>1. flight'[p] = k /\ \A q \in Procs \ {p} : flight'[q] = flight[q]
    BY FlightOK
  <1>2. Further(p)
    BY <1>1 DEF Further
  <1>3. Goes(p)
    <2>1. \A r \in Requests : Rank(request[p][r].pc) \in 0..3
      BY Ranks
    <2> QED
      BY <1>2, <2>1 DEF Goes, Waits
  <1>4. \A q \in Procs \ {p} : Goes(q)
    BY <1>1, Stays
  <1> QED
    BY <1>2, <1>3, <1>4

LEMMA GoesTo ==
  ASSUME IInv, NEW p \in Procs, NEW s, Goto(p, s), UNCHANGED request,
         s \in {"none", "lock", "reload", "adopted", "present", "receive",
                "persist", "release", "finish"},
         Place(s) > Place(flight[p].step)
  PROVE  Further(p) /\ \A q \in Procs : Goes(q)
  <1>1. PICK k \in Flights : k.step = s /\ flight' = [flight EXCEPT ![p] = k]
    BY GotoOK
  <1> QED
    BY <1>1, FliesOn

LEMMA GoesBack ==
  ASSUME IInv, NEW p \in Procs, NEW ok \in BOOLEAN, Return(p, ok), UNCHANGED request,
         flight[p].step \in {"reload", "adopted", "present", "receive", "persist"}
  PROVE  Further(p) /\ \A q \in Procs : Goes(q)
  <1>1. PICK k \in Flights : k.step = "release" /\ flight' = [flight EXCEPT ![p] = k]
    BY ReturnOK
  <1>2. Place(k.step) > Place(flight[p].step)
    BY <1>1, Places
  <1> QED
    BY <1>1, <1>2, FliesOn

\* The refresh of p is over.
LEMMA Ends ==
  ASSUME IInv, NEW p \in Procs, flight' = [flight EXCEPT ![p] = NoFlight],
         NEW new, request' = [request EXCEPT ![p] = new],
         \A r \in Requests : /\ new[r].pc \notin {"wait", "lead"}
                             /\ \/ Rank(new[r].pc) >= Rank(request[p][r].pc)
                                \/ new[r].pc = "idle"
  PROVE  flight'[p] = NoFlight /\ \A q \in Procs : Goes(q)
  <1>1. flight'[p] = NoFlight /\ \A q \in Procs \ {p} : flight'[q] = flight[q]
    BY NoFlightOK, FlightOK
  <1>2. request'[p] = new /\ \A q \in Procs \ {p} : request'[q] = request[q]
    BY DEF IInv, Led
  <1>3. Goes(p)
    BY <1>1, <1>2 DEF Goes, Over, Waits
  <1>4. \A q \in Procs \ {p} : Goes(q)
    BY <1>1, <1>2, Stays
  <1> QED
    BY <1>1, <1>3, <1>4

LEMMA FinishGoes ==
  ASSUME IInv, NEW p \in Procs, Finish(p)
  PROVE  flight'[p] # flight[p] /\ \A q \in Procs : Goes(q)
  <1> DEFINE new == [r \in Requests |->
                       IF request[p][r].pc \notin {"wait", "lead"} THEN request[p][r]
                       ELSE IF flight[p].ok THEN [request[p][r] EXCEPT !.pc = "read"]
                       ELSE Idle]
  <1>1. /\ flight[p].step = "finish"
        /\ flight' = [flight EXCEPT ![p] = NoFlight]
        /\ request' = [request EXCEPT ![p] = new]
    BY DEF Finish, At, IInv, Led
  <1>2. ASSUME NEW r \in Requests
        PROVE  /\ new[r].pc \notin {"wait", "lead"}
               /\ Rank(new[r].pc) >= Rank(request[p][r].pc) \/ new[r].pc = "idle"
    <2>1. request[p][r] \in Callers /\ Rank(request[p][r].pc) \in 0..3
      BY Ranks DEF IInv, Led
    <2>2. CASE request[p][r].pc \notin {"wait", "lead"}
      BY <2>1, <2>2
    <2>3. CASE request[p][r].pc \in {"wait", "lead"} /\ flight[p].ok
      <3>1. new[r].pc = "read"
        BY <2>1, <2>3 DEF Callers
      <3> QED
        BY <2>1, <3>1, Ranks
    <2>4. CASE request[p][r].pc \in {"wait", "lead"} /\ ~flight[p].ok
      BY <2>4 DEF Idle
    <2> QED
      BY <2>2, <2>3, <2>4
  <1> HIDE DEF new
  <1>3. flight'[p] = NoFlight /\ \A q \in Procs : Goes(q)
    BY <1>1, <1>2, Ends
  <1> QED
    BY <1>1, <1>3, NoFlightOK

LEMMA CrashGoes ==
  ASSUME IInv, NEW p \in Procs, Crash(p)
  PROVE  \A q \in Procs : Goes(q)
  <1> DEFINE new == [r \in Requests |-> Idle]
  <1>1. /\ flight' = [flight EXCEPT ![p] = NoFlight]
        /\ request' = [request EXCEPT ![p] = new]
    BY DEF Crash
  <1>2. \A r \in Requests : new[r].pc = "idle"
    BY DEF Idle
  <1> HIDE DEF new
  <1> QED
    BY <1>1, <1>2, Ends

LEMMA RefreshGoes ==
  ASSUME IInv, NEW p \in Procs, RefreshStep(p)
  PROVE  flight'[p] # flight[p] /\ \A q \in Procs : Goes(q)
  <1>0. Further(p) => flight'[p] # flight[p]
    BY Places DEF Further
  <1>1. CASE Acquire(p) \/ LockFails(p) \/ Reload(p) \/ Release(p)
    BY <1>0, <1>1, GoesTo, Places DEF Acquire, LockFails, Reload, Release, At
  <1>2. CASE GiveUp(p) \/ Adopted(p)
    BY <1>0, <1>2, GoesBack DEF GiveUp, Adopted, At
  <1>3. CASE Present(p)
    <2>1. PICK k \in Flights : k.step = "receive" /\ flight' = [flight EXCEPT ![p] = k]
      <3>1. PICK g \in 0..MaxGen, n \in 0..MaxGen :
              flight' = [flight EXCEPT ![p].step = "receive", ![p].gen = g, ![p].answer = n]
        <4>1. mem[p].refresh \in 0..MaxGen /\ 0 \in 0..MaxGen
          BY Known, Bounds DEF Transports
        <4>2. issued + 1 \in Gens => issued + 1 \in 0..MaxGen
          BY Bounds DEF Gens
        <4> QED
          BY <1>3, <4>1, <4>2 DEF Present
      <3> DEFINE k == [flight[p] EXCEPT !.step = "receive", !.gen = g, !.answer = n]
      <3>2. flight[p] \in Flights /\ flight' = [flight EXCEPT ![p] = k]
        BY <3>1 DEF IInv, Types
      <3>3. k \in Flights /\ k.step = "receive"
        BY <3>2 DEF Flights
      <3> HIDE DEF k
      <3> QED
        BY <3>2, <3>3
    <2>2. Place(k.step) > Place(flight[p].step) /\ UNCHANGED request
      BY <1>3, <2>1, Places DEF Present, At
    <2> QED
      BY <1>0, <2>1, <2>2, FliesOn
  <1>4. CASE Receive(p)
    <2>1. CASE Return(p, FALSE)
      BY <1>0, <1>4, <2>1, GoesBack DEF Receive, At
    <2>2. CASE Goto(p, "persist")
      BY <1>0, <1>4, <2>2, GoesTo, Places DEF Receive, At
    <2> QED
      BY <1>4, <2>1, <2>2 DEF Receive, Take
  <1>5. CASE Persist(p)
    <2>1. mem[p].bad \in BOOLEAN
      BY Known DEF Transports
    <2> QED
      BY <1>0, <1>5, <2>1, GoesBack DEF Persist, Stored, At
  <1>6. CASE PersistLoses(p)
    BY <1>0, <1>6, GoesBack DEF PersistLoses, At
  <1>7. CASE Finish(p)
    BY <1>7, FinishGoes
  <1> QED
    BY <1>1, <1>2, <1>3, <1>4, <1>5, <1>6, <1>7 DEF RefreshStep

LEMMA FailureGoes ==
  ASSUME IInv, NEW p \in Procs, Failure(p)
  PROVE  \A q \in Procs : Goes(q)
  <1>1. CASE PrepareFails(p)
    <2>1. CASE At(p, "lock") /\ Goto(p, "finish")
      BY <1>1, <2>1, GoesTo, Places DEF PrepareFails, At
    <2>2. CASE flight[p].step \in {"reload", "present"} /\ Return(p, FALSE)
      BY <1>1, <2>2, GoesBack DEF PrepareFails
    <2> QED
      BY <1>1, <2>1, <2>2 DEF PrepareFails
  <1>2. CASE RequestLost(p) \/ AnswerLost(p) \/ AnswerEmpty(p) \/ PersistFails(p)
    BY <1>2, GoesBack DEF RequestLost, AnswerLost, AnswerEmpty, PersistFails, At
  <1>3. CASE AnswerBad(p)
    BY <1>3, GoesTo, Places DEF AnswerBad, Take, At
  <1>4. CASE Crash(p)
    BY <1>4, CrashGoes
  <1> QED
    BY <1>1, <1>2, <1>3, <1>4 DEF Failure

\* A request takes a step, and the refresh of its process none but the first.
LEMMA Asks ==
  ASSUME IInv, NEW p \in Procs, NEW r \in Requests, NEW c \in Callers,
         request' = [request EXCEPT ![p][r] = c],
         \A q \in Procs : flight'[q] = flight[q] \/ Further(q),
         Rank(c.pc) >= Rank(request[p][r].pc) \/ c.pc = "idle",
         c.pc \in {"wait", "lead"} => Waits(p, r) \/ InFlight(p)'
  PROVE  request'[p][r] = c /\ \A q \in Procs : Goes(q)
  <1>1. request'[p][r] = c
    BY DEF IInv, Led
  <1>2. \A q \in Procs, s \in Requests : <<q, s>> # <<p, r>> => request'[q][s] = request[q][s]
    BY DEF IInv, Led
  <1>3. \A q \in Procs, s \in Requests : Rank(request[q][s].pc) \in 0..3
    BY Ranks
  <1>4. ASSUME NEW q \in Procs, NEW s \in Requests
        PROVE  /\ Rank(request'[q][s].pc) >= Rank(request[q][s].pc) \/ request'[q][s].pc = "idle"
               /\ Waits(q, s)' => Waits(q, s) \/ InFlight(q)'
    <2>1. CASE <<q, s>> = <<p, r>>
      BY <1>1, <2>1 DEF Waits
    <2>2. CASE <<q, s>> # <<p, r>>
      BY <1>2, <1>3, <2>2 DEF Waits
    <2> QED
      BY <2>1, <2>2
  <1> QED
    BY <1>1, <1>4 DEF Goes

LEMMA BecomesOn ==
  ASSUME IInv, NEW p \in Procs, NEW r \in Requests,
         NEW pc \in {"check", "wait", "lead", "read"}, Become(p, r, pc),
         \A q \in Procs : flight'[q] = flight[q] \/ Further(q),
         Rank(pc) > Rank(request[p][r].pc), pc \in {"wait", "lead"} => InFlight(p)'
  PROVE  request'[p][r].pc # request[p][r].pc /\ \A q \in Procs : Goes(q)
  <1> DEFINE c == [request[p][r] EXCEPT !.pc = pc]
  <1>1. c \in Callers /\ c.pc = pc
    BY DEF IInv, Led, Callers
  <1>2. request' = [request EXCEPT ![p][r] = c]
    BY DEF Become, IInv, Led
  <1>3. Rank(pc) \in 0..3 /\ Rank(request[p][r].pc) \in 0..3
    BY Ranks
  <1>4. Rank(c.pc) >= Rank(request[p][r].pc) /\ c.pc # request[p][r].pc
    BY <1>1, <1>3
  <1> HIDE DEF c
  <1>5. c.pc \in {"wait", "lead"} => InFlight(p)'
    BY <1>1
  <1>6. request'[p][r] = c /\ \A q \in Procs : Goes(q)
    BY <1>1, <1>2, <1>4, <1>5, Asks
  <1> QED
    BY <1>4, <1>6

LEMMA EndsOn ==
  ASSUME IInv, NEW p \in Procs, NEW r \in Requests, End(p, r), UNCHANGED flight,
         request[p][r].pc # "idle"
  PROVE  request'[p][r].pc # request[p][r].pc /\ \A q \in Procs : Goes(q)
  <1>1. Idle \in Callers /\ Idle.pc = "idle"
    BY DEF Idle, Callers
  <1>2. request'[p][r] = Idle /\ \A q \in Procs : Goes(q)
    BY <1>1, Asks DEF End
  <1> QED
    BY <1>1, <1>2

LEMMA RequestGoesOn ==
  ASSUME IInv, NEW p \in Procs, NEW r \in Requests,
         Request(p, r) \/ WaitCancelled(p, r) \/ RequestStep(p, r)
  PROVE  request'[p][r].pc # request[p][r].pc /\ \A q \in Procs : Goes(q)
  <1>1. CASE Request(p, r)
    BY <1>1, BecomesOn, Ranks DEF Request
  <1>2. CASE CheckPasses(p, r)
    BY <1>2, BecomesOn, Ranks DEF CheckPasses
  <1>3. CASE Join(p, r)
    <2>1. InFlight(p)'
      BY <1>3 DEF Join, InFlight
    <2> QED
      BY <1>3, <2>1, BecomesOn, Ranks DEF Join
  <1>4. CASE CheckFails(p, r) \/ Send(p, r) \/ WaitCancelled(p, r)
    BY <1>4, EndsOn DEF CheckFails, Send, WaitCancelled
  <1>5. CASE Lead(p, r)
    <2>1. PICK k \in Flights : k.step = "lock" /\ flight' = [flight EXCEPT ![p] = k]
      <3> DEFINE k == [NoFlight EXCEPT !.step = "lock", !.retry = (mem[p].pending # 0)]
      <3>1. k \in Flights /\ k.step = "lock"
        BY NoFlightOK DEF Flights
      <3>2. flight' = [flight EXCEPT ![p] = k]
        BY <1>5 DEF Lead
      <3> HIDE DEF k
      <3> QED
        BY <3>1, <3>2
    <2>2. flight'[p] = k /\ \A q \in Procs \ {p} : flight'[q] = flight[q]
      BY <2>1, FlightOK
    <2>3. flight[p].step = "none"
      BY <1>5 DEF Lead, InFlight
    <2>4. Further(p) /\ InFlight(p)'
      BY <2>1, <2>2, <2>3, Places DEF Further, InFlight
    <2> QED
      BY <1>5, <2>2, <2>4, BecomesOn, Ranks DEF Lead
  <1> QED
    BY <1>1, <1>2, <1>3, <1>4, <1>5 DEF RequestStep

LEMMA CancelGoes ==
  ASSUME IInv, NEW p \in Procs, NEW r \in Requests, Cancel(p, r)
  PROVE  \A q \in Procs : Goes(q)
  <1> DEFINE c == [request[p][r] EXCEPT !.cancelled = TRUE]
  <1>1. c \in Callers /\ c.pc = request[p][r].pc
    <2>1. request[p][r] \in Callers
      BY DEF IInv, Led
    <2> QED
      BY <2>1 DEF Callers
  <1>2. request' = [request EXCEPT ![p][r] = c] /\ UNCHANGED flight
    BY DEF Cancel, IInv, Led
  <1>3. Rank(c.pc) >= Rank(request[p][r].pc)
    <2>1. Rank(request[p][r].pc) \in 0..3
      BY Ranks
    <2> QED
      BY <1>1, <2>1
  <1> HIDE DEF c
  <1>4. c.pc \in {"wait", "lead"} => Waits(p, r)
    BY <1>1 DEF Waits
  <1>5. \A q \in Procs : flight'[q] = flight[q]
    BY <1>2
  <1> QED
    BY <1>1, <1>2, <1>3, <1>4, <1>5, Asks

LEMMA NextGoes ==
  ASSUME IInv, [Next]_vars
  PROVE  \A q \in Procs : Goes(q)
  <1>1. CASE UNCHANGED <<flight, request>>
    BY <1>1, Stays
  <1>2. CASE \E p \in Procs : RefreshStep(p)
    BY <1>2, RefreshGoes
  <1>3. CASE \E p \in Procs : Failure(p)
    BY <1>3, FailureGoes
  <1>4. CASE \E p \in Procs, r \in Requests :
               Request(p, r) \/ WaitCancelled(p, r) \/ RequestStep(p, r)
    BY <1>4, RequestGoesOn
  <1>5. CASE \E p \in Procs, r \in Requests : Cancel(p, r)
    BY <1>5, CancelGoes
  <1> QED
    BY <1>1, <1>2, <1>3, <1>4, <1>5 DEF Next, Restart, Age, Login, vars

\* Nobody waits in a process for a refresh that has ended (maybeRefresh joins a
\* refresh, refreshAndPersist ends it for all at once), in whatever order its
\* requests arrive, give up and fail.
THEOREM NobodyLeftWaitingHolds == Spec => []NobodyLeftWaiting
  <1>1. Init => NobodyLeftWaiting
    BY DEF Init, NobodyLeftWaiting, Waits, Idle
  <1>2. IInv /\ NobodyLeftWaiting /\ [Next]_vars => NobodyLeftWaiting'
    <2> SUFFICES ASSUME IInv, NobodyLeftWaiting, [Next]_vars, NEW p \in Procs, NEW r \in Requests,
                        Waits(p, r)'
                 PROVE  InFlight(p)'
      BY DEF NobodyLeftWaiting
    <2>1. Goes(p) /\ Place(flight[p].step) \in 0..7
      BY NextGoes, Places
    <2>2. Waits(p, r) \/ InFlight(p)'
      BY <2>1 DEF Goes
    <2>3. CASE Waits(p, r)
      <3>1. InFlight(p)
        BY <2>3 DEF NobodyLeftWaiting
      <3>2. CASE flight'[p] = flight[p]
        BY <3>1, <3>2 DEF InFlight
      <3>3. CASE Further(p)
        BY <2>1, <3>3, Places DEF Further, InFlight
      <3> QED
        BY <2>1, <3>2, <3>3 DEF Goes, Over
    <2> QED
      BY <2>2, <2>3
  <1> QED
    BY <1>1, <1>2, Invariance, PTL DEF Spec

\* No refresh and no request takes a step twice (maybeRefresh,
\* refreshAndPersist), whatever fails and whoever gives up.
THEOREM OnlyGoesOnHolds == Spec => OnlyGoesOn
  <1>1. ASSUME IInv, [Next]_vars, NEW p \in Procs
        PROVE  /\ flight'[p] = flight[p] \/ Further(p) \/ Over(p)
               /\ RefreshStep(p) => flight'[p] # flight[p]
               /\ \A r \in Requests :
                    /\ \/ Rank(request'[p][r].pc) >= Rank(request[p][r].pc)
                       \/ request'[p][r].pc = "idle"
                    /\ RequestStep(p, r) => request'[p][r].pc # request[p][r].pc
    BY <1>1, NextGoes, RefreshGoes, RequestGoesOn DEF Goes
  <1>2. IInv /\ [Next]_vars =>
          [\A p \in Procs :
             /\ flight'[p] = flight[p] \/ Further(p) \/ Over(p)
             /\ RefreshStep(p) => flight'[p] # flight[p]
             /\ \A r \in Requests :
                  /\ \/ Rank(request'[p][r].pc) >= Rank(request[p][r].pc)
                     \/ request'[p][r].pc = "idle"
                  /\ RequestStep(p, r) => request'[p][r].pc # request[p][r].pc]_vars
    BY <1>1
  <1> QED
    BY <1>2, Invariance, PTL DEF Spec, OnlyGoesOn

=============================================================================
