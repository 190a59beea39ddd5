--------------------------- MODULE LayeredLoadProofs --------------------------
(***************************************************************************)
(* That loads never wait for one another in a circle, that no file is      *)
(* replaced against its lock, that a load under locks merges only what it  *)
(* has locked, that the writes of gcx commands never make a load fail, and *)
(* that a load merges what was in its layers at one moment, for any number *)
(* of processes, layers, files and writes.                                 *)
(***************************************************************************)
EXTENDS LayeredLoad, FiniteSetTheorems, WellFoundedInduction, TLAPS

-------------------------------------------------------------------------------
(* Least and greatest numbers *)

LEMMA MinOK == ASSUME NEW T, T \subseteq Nat, T # {}
               PROVE  Min(T) \in T /\ \A y \in T : Min(T) <= y
  <1>1. PICK x \in T : \A y \in T : ~(<<y, x>> \in OpToRel(<, Nat))
    BY NatLessThanWellFounded, WFMin
  <1>2. \A y \in T : x <= y
    <2> SUFFICES ASSUME NEW y \in T, ~(x <= y)
                 PROVE  FALSE
      OBVIOUS
    <2>1. <<y, x>> \in Nat \X Nat /\ y < x
      OBVIOUS
    <2> QED
      BY <1>1, <2>1 DEF OpToRel
  <1> QED
    BY <1>2 DEF Min

\* The element that the fewest exceed.
LEMMA MaxOK == ASSUME NEW T, T \subseteq Nat, T # {}, IsFiniteSet(T)
               PROVE  Max(T) \in T /\ \A y \in T : y <= Max(T)
  <1> DEFINE U(x) == { y \in T : y > x }
             N == { Cardinality(U(x)) : x \in T }
  <1>1. \A x \in T : IsFiniteSet(U(x)) /\ Cardinality(U(x)) \in Nat
    BY FS_Subset, FS_CardinalityType
  <1>2. N \subseteq Nat /\ N # {}
    BY <1>1
  <1>3. PICK x \in T : Cardinality(U(x)) = Min(N)
    BY <1>2, MinOK
  <1>4. U(x) = {}
    <2> SUFFICES ASSUME NEW y \in U(x)
                 PROVE  FALSE
      OBVIOUS
    <2>1. y \in T /\ y > x
      OBVIOUS
    <2>2. U(y) \in SUBSET U(x) /\ U(y) # U(x)
      <3>1. \A z \in T : z > y => z > x
        BY <2>1
      <3>2. y \notin U(y)
        BY <2>1
      <3> QED
        BY <3>1, <3>2
    <2>3. Cardinality(U(y)) < Cardinality(U(x))
      <3>1. /\ IsFiniteSet(U(x)) /\ Cardinality(U(x)) \in Nat
            /\ IsFiniteSet(U(y)) /\ Cardinality(U(y)) \in Nat
        BY <1>1, <2>1
      <3> HIDE DEF U
      <3>2. Cardinality(U(y)) <= Cardinality(U(x)) /\ Cardinality(U(y)) # Cardinality(U(x))
        BY <2>2, <3>1, FS_Subset
      <3> QED
        BY <3>1, <3>2
    <2>4. Cardinality(U(y)) \in N
      BY <2>1
    <2> HIDE DEF N, U
    <2>5. Min(N) <= Cardinality(U(y)) /\ Min(N) \in Nat
      BY <1>2, <2>4, MinOK
    <2> QED
      BY <1>1, <1>3, <2>1, <2>3, <2>5
  <1>5. \A y \in T : x >= y
    BY <1>4
  <1> QED
    BY <1>5 DEF Max

-------------------------------------------------------------------------------
(* The invariant *)

Types ==
  /\ content \in [Files -> Contents]
  /\ target \in [Readers -> [Layers -> Files \cup {0}]]
  /\ lock \in [Files -> Procs \cup {Free}]
  /\ load \in [Procs -> Loads]
  /\ writes \in Nat /\ external \in Nat

\* What a load has done and holds, by its step. Under the locks of a load, or
\* the one its caller holds, every layer it found is covered; until then they
\* are taken in the order of the files.
Shape(k) ==
  /\ k.heldFor # 0 => k.mine = {}
  /\ k.pc = "idle" => k.heldFor = 0
  /\ k.pc \in {"idle", "relock", "acquire", "recheck", "writing"} => ~k.locked
  /\ ~k.locked /\ k.pc \notin {"acquire", "recheck"} => k.mine = {}
  /\ k.pc = "acquire" => /\ k.heldFor = 0
                         /\ k.mine \subseteq Wanted(k) /\ k.mine # Wanted(k)
                         /\ \A f \in k.mine, g \in Wanted(k) \ k.mine : f < g
  /\ k.pc = "recheck" \/ k.locked => Wanted(k) = IF k.heldFor = 0 THEN k.mine ELSE {k.heldFor}
  /\ k.pc \in {"snapshot", "layer", "migrate", "verify"} => k.at \in Present(k.srcs)
  /\ k.pc \in {"recheck", "loaded"} => Present(k.srcs) # {}
  /\ k.pc = "migrate" => k.ident \in Files
  /\ k.pc = "writing" => k.heldFor \in Files

\* A process holds the locks that its load has taken or that cover it.
Owns(p) == \A f \in Files : lock[f] = p <=> f \in load[p].mine \cup {load[p].heldFor}

\* The inductive invariant.
IInv ==
  /\ Types
  /\ \A p \in Procs : /\ Shape(load[p]) /\ Owns(p)
                      /\ ~At(p, "idle") /\ ~At(p, "writing") => p \in Readers

-------------------------------------------------------------------------------
(* Lemmas about steps *)

LEMMA NoFile == 0 \notin Files /\ Files \subseteq Nat /\ IsFiniteSet(Files) /\ Free \notin Procs
  BY LayeredConstantsOK DEF LayeredConstantsOK

\* The layers that are there, the first of them, and the one after another.
LEMMA PresentOK == ASSUME NEW t \in [Layers -> Files \cup {0}]
                   PROVE  Present(t) \subseteq Nat \ {0} /\ IsFiniteSet(Present(t))
  <1>1. Present(t) \subseteq Layers
    BY DEF Present
  <1>2. Layers \subseteq Nat \ {0} /\ IsFiniteSet(Layers)
    BY LayeredConstantsOK DEF LayeredConstantsOK
  <1> QED
    BY <1>1, <1>2, FS_Subset

LEMMA FirstOK == ASSUME NEW t \in [Layers -> Files \cup {0}], Present(t) # {}
                 PROVE  Min(Present(t)) \in Present(t)
  <1>1. Present(t) \subseteq Nat
    BY PresentOK
  <1> QED
    BY <1>1, MinOK

LEMMA FollowingOK == ASSUME NEW k \in Loads, k.at \in Present(k.srcs), ~IsLast(k)
                     PROVE  Following(k) \in Present(k.srcs)
  <1> DEFINE P == Present(k.srcs)
             L == { l \in P : l > k.at }
  <1>1. P \subseteq Nat /\ IsFiniteSet(P) /\ P # {}
    BY PresentOK DEF Loads
  <1>2. Max(P) \in P /\ \A y \in P : y <= Max(P)
    <2> HIDE DEF P
    <2> QED
      BY <1>1, MaxOK
  <1>3. Max(P) \in L
    <2>1. k.at \in P /\ k.at # Max(P)
      BY DEF IsLast
    <2> HIDE DEF P
    <2>2. \A a, m \in P : a <= m /\ a # m => m > a
      BY <1>1
    <2>3. Max(P) > k.at
      BY <1>2, <2>1, <2>2
    <2> QED
      BY <1>2, <2>3
  <1>4. L \subseteq Nat /\ L # {} /\ L \subseteq P
    BY <1>1, <1>3
  <1>5. Min(L) \in L
    <2> HIDE DEF L
    <2> QED
      BY <1>4, MinOK
  <1> QED
    BY <1>4, <1>5 DEF Following

LEMMA NoLoadOK == /\ NoLoad \in Loads
                  /\ Shape(NoLoad)
                  /\ NoLoad.mine = {} /\ NoLoad.heldFor = 0 /\ NoLoad.pc = "idle"
  <1>1. NoLoad \in Loads
    BY DEF NoLoad, Loads, Steps, NoneRead
  <1>2. Shape(NoLoad)
    BY DEF NoLoad, Shape
  <1> QED
    BY <1>1, <1>2 DEF NoLoad

\* A step of one process that leaves the locks of the others alone.
LEMMA OneStep ==
  ASSUME IInv, NEW p \in Procs, NEW k \in Loads, Goes(p, k), Shape(k),
         k.pc \notin {"idle", "writing"} => p \in Readers,
         content' \in [Files -> Contents],
         target' \in [Readers -> [Layers -> Files \cup {0}]],
         lock' \in [Files -> Procs \cup {Free}],
         writes' \in Nat, external' \in Nat,
         \A f \in Files : lock'[f] = p <=> f \in k.mine \cup {k.heldFor},
         \A f \in Files, q \in Procs \ {p} : lock'[f] = q <=> lock[f] = q
  PROVE  IInv'
  <1>1. load' \in [Procs -> Loads] /\ load'[p] = k /\ \A q \in Procs \ {p} : load'[q] = load[q]
    BY DEF IInv, Types, Goes
  <1>2. Types'
    BY <1>1 DEF Types
  <1>3. ASSUME NEW q \in Procs
        PROVE  /\ Shape(load'[q]) /\ Owns(q)'
               /\ ~At(q, "idle")' /\ ~At(q, "writing")' => q \in Readers
    <2>1. CASE q = p
      BY <1>1, <2>1 DEF Owns, At
    <2>2. CASE q # p
      <3>1. Shape(load[q]) /\ Owns(q) /\ (~At(q, "idle") /\ ~At(q, "writing") => q \in Readers)
        BY DEF IInv
      <3>2. load'[q] = load[q]
        BY <1>1, <2>2
      <3> QED
        BY <2>2, <3>1, <3>2 DEF Owns, At
    <2> QED
      BY <2>1, <2>2
  <1> QED
    BY <1>2, <1>3 DEF IInv

\* A step that takes no lock and gives none back.
LEMMA GoesOn ==
  ASSUME IInv, NEW p \in Readers, NEW k \in Loads, Goes(p, k), Shape(k),
         k.mine = load[p].mine, k.heldFor = load[p].heldFor,
         content' \in [Files -> Contents],
         UNCHANGED <<target, lock, writes, external>>
  PROVE  IInv'
  <1>1. p \in Procs
    BY DEF Procs
  <1>2. /\ target' \in [Readers -> [Layers -> Files \cup {0}]]
        /\ lock' \in [Files -> Procs \cup {Free}]
        /\ writes' \in Nat /\ external' \in Nat
    BY DEF IInv, Types
  <1>3. \A f \in Files : lock'[f] = p <=> f \in k.mine \cup {k.heldFor}
    BY <1>1 DEF IInv, Owns
  <1>4. \A f \in Files, q \in Procs \ {p} : lock'[f] = q <=> lock[f] = q
    OBVIOUS
  <1> QED
    BY <1>1, <1>2, <1>3, <1>4, OneStep

\* A load that ends gives back what it holds.
LEMMA Released ==
  ASSUME IInv, NEW p \in Procs, NEW how, Releases(p, how),
         content' \in [Files -> Contents], writes' \in Nat,
         UNCHANGED <<target, external>>
  PROVE  IInv'
  <1>1. lock' \in [Files -> Procs \cup {Free}]
    BY DEF IInv, Types, Releases
  <1>2. \A f \in Files : lock'[f] # p
    BY NoFile DEF Releases
  <1>3. \A f \in Files, q \in Procs \ {p} : lock'[f] = q <=> lock[f] = q
    BY NoFile DEF Releases
  <1>4. /\ target' \in [Readers -> [Layers -> Files \cup {0}]]
        /\ external' \in Nat
    BY DEF IInv, Types
  <1>5. Goes(p, NoLoad)
    BY DEF Releases
  <1>6. \A f \in Files : lock'[f] = p <=> f \in NoLoad.mine \cup {NoLoad.heldFor}
    BY <1>2, NoLoadOK, NoFile
  <1> QED
    BY <1>1, <1>3, <1>4, <1>5, <1>6, NoLoadOK, OneStep

LEMMA Ended ==
  ASSUME IInv, NEW p \in Procs, NEW how, Ends(p, how),
         UNCHANGED <<content, target, writes, external>>
  PROVE  IInv'
  <1>1. content' \in [Files -> Contents] /\ writes' \in Nat
    BY DEF IInv, Types
  <1> QED
    BY <1>1, Released DEF Ends

\* What is known of a process in the middle of a load.
LEMMA Known == ASSUME IInv, NEW p \in Procs
               PROVE  /\ load[p] \in Loads /\ Shape(load[p]) /\ Owns(p)
                      /\ load[p].pc \notin {"idle", "writing"} =>
                           p \in Readers /\ target[p] \in [Layers -> Files \cup {0}]
                      /\ load[p].pc \in {"idle", "writing"} => load[p].mine = {}
  BY DEF IInv, Types, At, Shape

-------------------------------------------------------------------------------
(* Each step preserves the invariant *)

\* Starting a load with the lock it is given.
LEMMA BeginStep ==
  ASSUME IInv, NEW p \in Readers, NEW held \in Files \cup {0}, At(p, "idle"), Begin(p, held),
         lock' \in [Files -> Procs \cup {Free}],
         \A f \in Files : lock'[f] = p <=> f = held,
         \A f \in Files, q \in Procs \ {p} : lock'[f] = q <=> lock[f] = q,
         UNCHANGED <<content, target, writes, external>>
  PROVE  IInv'
  <1> DEFINE t == target[p]
             n == [NoLoad EXCEPT !.pc = "snapshot", !.heldFor = held, !.srcs = t,
                                 !.at = Min(Present(t))]
  <1>1. p \in Procs /\ t \in [Layers -> Files \cup {0}] /\ Present(t) # {}
    BY DEF Procs, IInv, Types, Begin
  <1>2. Min(Present(t)) \in Present(t) /\ Present(t) \subseteq Layers
    BY <1>1, FirstOK DEF Present
  <1> HIDE DEF t
  <1>3. n \in Loads
    BY <1>1, <1>2, NoLoadOK DEF Loads, Steps
  <1>4. n.pc = "snapshot" /\ n.heldFor = held /\ n.mine = {} /\ n.srcs = t /\ ~n.locked
        /\ n.at = Min(Present(t))
    BY DEF NoLoad
  <1>5. Goes(p, n)
    BY DEF Begin, t
  <1> HIDE DEF n
  <1>6. Shape(n)
    BY <1>1, <1>2, <1>4 DEF Shape
  <1>7. \A f \in Files : lock'[f] = p <=> f \in n.mine \cup {n.heldFor}
    BY <1>4
  <1>8. /\ content' \in [Files -> Contents]
        /\ target' \in [Readers -> [Layers -> Files \cup {0}]]
        /\ writes' \in Nat /\ external' \in Nat
    BY DEF IInv, Types
  <1> QED
    BY <1>1, <1>3, <1>5, <1>6, <1>7, <1>8, OneStep

LEMMA StartLoadStep == ASSUME IInv, NEW p \in Procs, StartLoad(p) PROVE IInv'
  <1>1. p \in Readers /\ At(p, "idle") /\ Begin(p, 0)
        /\ UNCHANGED <<content, target, lock, writes, external>>
    BY DEF StartLoad, Readers
  <1>2. \A f \in Files : lock'[f] = p <=> f = 0
    <2>1. load[p].mine = {} /\ load[p].heldFor = 0 /\ Owns(p)
      BY <1>1, Known DEF At, Shape
    <2> QED
      BY <1>1, <2>1 DEF Owns
  <1>3. lock' \in [Files -> Procs \cup {Free}]
    BY <1>1 DEF IInv, Types
  <1> QED
    BY <1>1, <1>2, <1>3, BeginStep

LEMMA StartPolicyStep == ASSUME IInv, NEW p \in Procs, StartPolicy(p) PROVE IInv'
  <1>1. PICK f : f = target[p][Min(Present(target[p]))]
    OBVIOUS
  <1>2. /\ p \in Readers /\ At(p, "idle") /\ Begin(p, f)
        /\ lock[f] = Free /\ lock' = [lock EXCEPT ![f] = p]
        /\ UNCHANGED <<content, target, writes, external>>
    BY <1>1 DEF StartPolicy, Readers
  <1>3. target[p] \in [Layers -> Files \cup {0}] /\ Present(target[p]) # {}
    BY <1>2 DEF IInv, Types, Begin
  <1>4. f \in Files
    BY <1>1, <1>3, FirstOK DEF Present
  <1>5. \A g \in Files : lock'[g] = p <=> g = f
    BY <1>2, <1>4, Known, NoFile DEF IInv, Types, Owns, At, Shape
  <1>6. /\ lock' \in [Files -> Procs \cup {Free}]
        /\ \A g \in Files, q \in Procs \ {p} : lock'[g] = q <=> lock[g] = q
    BY <1>2, <1>4, NoFile DEF IInv, Types
  <1> QED
    BY <1>2, <1>4, <1>5, <1>6, BeginStep

LEMMA SnapshotStep == ASSUME IInv, NEW p \in Procs, Snapshot(p) PROVE IInv'
  <1> DEFINE k == load[p]
             f == target[p][k.at]
             s == [k EXCEPT !.snap[k.at] = content[f]]
  <1>1. k \in Loads /\ Shape(k) /\ k.pc = "snapshot" /\ p \in Readers
        /\ target[p] \in [Layers -> Files \cup {0}]
    BY Known DEF Snapshot, At
  <1>2. k.at \in Present(k.srcs) /\ Present(k.srcs) \subseteq Layers
        /\ k.srcs \in [Layers -> Files \cup {0}]
    BY <1>1 DEF Shape, Present, Loads
  <1>3. UNCHANGED <<content, target, writes, external>>
    BY DEF Snapshot
  <1>4. CASE f = 0
    <2>1. Ends(p, "vanished")
      BY <1>4 DEF Snapshot
    <2> QED
      BY <1>3, <2>1, Ended
  <1>5. CASE f # 0
    <2>1. f \in Files /\ content[f] \in Contents
      BY <1>1, <1>2, <1>5 DEF IInv, Types
    <2>2. s \in Loads /\ s.mine = k.mine /\ s.heldFor = k.heldFor /\ s.locked = k.locked
          /\ s.srcs = k.srcs /\ s.pc = k.pc /\ s.at = k.at
      BY <1>1, <1>2, <2>1 DEF Loads
    <2>3. UNCHANGED lock
      BY <1>5 DEF Snapshot
    <2>4. CASE IsLast(k)
      <3> DEFINE n == [s EXCEPT !.pc = "layer", !.at = First(k)]
      <3>1. Goes(p, n)
        BY <1>5, <2>4 DEF Snapshot
      <3>2. First(k) \in Present(k.srcs)
        BY <1>2, FirstOK DEF First
      <3> HIDE DEF s, k
      <3>3. n \in Loads /\ n.mine = k.mine /\ n.heldFor = k.heldFor /\ n.locked = k.locked
            /\ n.srcs = k.srcs /\ n.pc = "layer" /\ n.at = First(k)
        BY <1>2, <2>2, <3>2 DEF Loads, Steps
      <3> HIDE DEF n
      <3>4. Shape(n)
        BY <1>1, <3>2, <3>3 DEF Shape, Wanted
      <3> QED
        BY <1>1, <1>3, <2>3, <3>1, <3>3, <3>4, GoesOn DEF k, IInv, Types
    <2>5. CASE ~IsLast(k)
      <3> DEFINE n == [s EXCEPT !.at = Following(k)]
      <3>1. Goes(p, n)
        BY <1>5, <2>5 DEF Snapshot
      <3>2. Following(k) \in Present(k.srcs)
        BY <1>1, <1>2, <2>5, FollowingOK
      <3> HIDE DEF s, k
      <3>3. n \in Loads /\ n.mine = k.mine /\ n.heldFor = k.heldFor /\ n.locked = k.locked
            /\ n.srcs = k.srcs /\ n.pc = "snapshot" /\ n.at = Following(k)
        BY <1>1, <1>2, <2>2, <3>2 DEF Loads, Steps
      <3> HIDE DEF n
      <3>4. Shape(n)
        BY <1>1, <3>2, <3>3 DEF Shape, Wanted
      <3> QED
        BY <1>1, <1>3, <2>3, <3>1, <3>3, <3>4, GoesOn DEF k, IInv, Types
    <2> QED
      BY <2>4, <2>5
  <1> QED
    BY <1>4, <1>5

LEMMA LoadLayerStep == ASSUME IInv, NEW p \in Procs, LoadLayer(p) PROVE IInv'
  <1> DEFINE k == load[p]
             f == target[p][k.at]
  <1>1. k \in Loads /\ Shape(k) /\ k.pc = "layer" /\ p \in Readers
        /\ target[p] \in [Layers -> Files \cup {0}]
    BY Known DEF LoadLayer, At
  <1>2. k.at \in Present(k.srcs) /\ k.at \in Layers
    BY <1>1 DEF Shape, Present
  <1>3. UNCHANGED <<content, target, writes, external>>
    BY DEF LoadLayer
  <1>4. CASE f = 0
    <2>1. Ends(p, "vanished")
      BY <1>4 DEF LoadLayer
    <2> QED
      BY <1>3, <2>1, Ended
  <1>5. CASE f # 0
    <2>1. f \in Files
      BY <1>1, <1>2, <1>5
    <2>2. PICK pc \in {"migrate", "verify"} :
            Goes(p, [k EXCEPT !.loaded = k.snap[k.at], !.ident = f, !.pc = pc])
      BY <1>5 DEF LoadLayer
    <2> DEFINE n == [k EXCEPT !.loaded = k.snap[k.at], !.ident = f, !.pc = pc]
    <2>3. UNCHANGED lock
      BY <1>5 DEF LoadLayer
    <2> HIDE DEF f
    <2>4. n \in Loads /\ n.mine = k.mine /\ n.heldFor = k.heldFor /\ n.locked = k.locked
          /\ n.srcs = k.srcs /\ n.pc = pc /\ n.at = k.at /\ n.ident = f
      BY <1>1, <1>2, <2>1 DEF Loads, Steps
    <2>5. Goes(p, n)
      BY <2>2
    <2> HIDE DEF n, k
    <2>6. Shape(n)
      BY <1>1, <1>2, <2>1, <2>4 DEF Shape, Wanted
    <2> QED
      BY <1>1, <1>3, <2>3, <2>4, <2>5, <2>6, GoesOn DEF k, IInv, Types
  <1> QED
    BY <1>4, <1>5

\* Going to the verification of the layer.
LEMMA ToVerify ==
  ASSUME IInv, NEW p \in Readers, At(p, "migrate"), NEW c \in Contents \cup {Absent},
         Goes(p, [load[p] EXCEPT !.pc = "verify", !.loaded = c]),
         content' \in [Files -> Contents],
         UNCHANGED <<target, lock, writes, external>>
  PROVE  IInv'
  <1> DEFINE k == load[p]
             n == [k EXCEPT !.pc = "verify", !.loaded = c]
  <1>1. k \in Loads /\ Shape(k) /\ k.pc = "migrate"
    BY Known DEF At, Procs
  <1>2. n \in Loads /\ n.mine = k.mine /\ n.heldFor = k.heldFor /\ n.locked = k.locked
        /\ n.srcs = k.srcs /\ n.pc = "verify" /\ n.at = k.at
    BY <1>1 DEF Loads, Steps
  <1>3. Goes(p, n)
    OBVIOUS
  <1> HIDE DEF n, k
  <1>4. Shape(n)
    BY <1>1, <1>2 DEF Shape, Wanted
  <1> QED
    BY <1>2, <1>3, <1>4, GoesOn DEF k

LEMMA StaysLoaded == ASSUME NEW k \in Loads
                     PROVE  k.loaded \in Contents \cup {Absent}
                            /\ [k EXCEPT !.pc = "verify"]
                                 = [k EXCEPT !.pc = "verify", !.loaded = k.loaded]
  BY DEF Loads

LEMMA MigrateLayerStep == ASSUME IInv, NEW p \in Procs, MigrateLayer(p) PROVE IInv'
  <1> DEFINE k == load[p]
             f == k.ident
             c == [k.snap[k.at] EXCEPT !.plain = FALSE]
  <1>1. k \in Loads /\ Shape(k) /\ At(p, "migrate") /\ k.pc = "migrate" /\ p \in Readers
    BY Known DEF MigrateLayer, At
  <1>2. f \in Files
    BY <1>1 DEF Shape
  <1>3. UNCHANGED <<target, lock, writes, external>>
    BY DEF MigrateLayer
  <1>4. CASE content[f] = k.snap[k.at] /\ Stores(f, c)
             /\ Goes(p, [k EXCEPT !.pc = "verify", !.loaded = c])
    <2>1. c \in Contents
      <3>1. content[f] \in Contents
        BY <1>2 DEF IInv, Types
      <3> QED
        BY <1>4, <3>1 DEF Contents
    <2> HIDE DEF c
    <2>2. content' \in [Files -> Contents]
      BY <1>2, <1>4, <2>1 DEF Stores, IInv, Types
    <2> QED
      BY <1>1, <1>3, <1>4, <2>1, <2>2, ToVerify
  <1>5. CASE Goes(p, [k EXCEPT !.pc = "verify"]) /\ UNCHANGED content
    <2>1. content' \in [Files -> Contents]
      BY <1>5 DEF IInv, Types
    <2> QED
      BY <1>1, <1>3, <1>5, <2>1, StaysLoaded, ToVerify
  <1> QED
    BY <1>4, <1>5 DEF MigrateLayer

LEMMA MigrateTimesOutStep == ASSUME IInv, NEW p \in Procs, MigrateTimesOut(p) PROVE IInv'
  <1>1. /\ load[p] \in Loads /\ At(p, "migrate") /\ p \in Readers
        /\ Goes(p, [load[p] EXCEPT !.pc = "verify"])
        /\ UNCHANGED <<content, target, lock, writes, external>>
    BY Known DEF MigrateTimesOut, At
  <1>2. content' \in [Files -> Contents]
    BY <1>1 DEF IInv, Types
  <1> QED
    BY <1>1, <1>2, StaysLoaded, ToVerify

LEMMA VerifyStep == ASSUME IInv, NEW p \in Procs, Verify(p) PROVE IInv'
  <1> DEFINE k == load[p]
             c == content[target[p][k.at]]
             w == [l \in Layers |->
                     IF k.locked /\ l > k.at /\ k.srcs[l] # 0 /\ k.srcs[l] = k.srcs[k.at]
                     THEN c ELSE k.snap[l]]
             s == [k EXCEPT !.merged[k.at] = k.loaded, !.snap = w]
  <1>1. k \in Loads /\ Shape(k) /\ k.pc = "verify" /\ p \in Readers
        /\ target[p] \in [Layers -> Files \cup {0}]
    BY Known DEF Verify, At
  <1>2. k.at \in Present(k.srcs) /\ k.at \in Layers
        /\ k.srcs \in [Layers -> Files \cup {0}]
    BY <1>1 DEF Shape, Present, Loads
  <1>3. /\ target[p][k.at] # 0
        /\ UNCHANGED <<content, target, lock, writes, external>>
        /\ Goes(p, IF IsLast(k) THEN [s EXCEPT !.pc = "loaded"]
                                ELSE [s EXCEPT !.pc = "layer", !.at = Following(k)])
    BY DEF Verify
  <1>4. c \in Contents
    BY <1>1, <1>2, <1>3 DEF IInv, Types
  <1> HIDE DEF c
  <1>5. w \in [Layers -> Contents \cup {Absent}]
    BY <1>1, <1>4 DEF Loads
  <1> HIDE DEF w
  <1>6. s \in Loads /\ s.mine = k.mine /\ s.heldFor = k.heldFor /\ s.locked = k.locked
        /\ s.srcs = k.srcs /\ s.at = k.at
    BY <1>1, <1>2, <1>5 DEF Loads
  <1> HIDE DEF s
  <1>7. CASE IsLast(k)
    <2> DEFINE n == [s EXCEPT !.pc = "loaded"]
    <2>1. Goes(p, n)
      BY <1>3, <1>7
    <2> HIDE DEF k
    <2>2. n \in Loads /\ n.mine = k.mine /\ n.heldFor = k.heldFor /\ n.locked = k.locked
          /\ n.srcs = k.srcs /\ n.pc = "loaded"
      BY <1>6 DEF Loads, Steps
    <2> HIDE DEF n
    <2>3. Shape(n)
      BY <1>1, <1>2, <2>2 DEF Shape, Wanted
    <2> QED
      BY <1>1, <1>3, <2>1, <2>2, <2>3, GoesOn DEF k, IInv, Types
  <1>8. CASE ~IsLast(k)
    <2> DEFINE n == [s EXCEPT !.pc = "layer", !.at = Following(k)]
    <2>1. Goes(p, n)
      BY <1>3, <1>8
    <2>2. Following(k) \in Present(k.srcs) /\ Following(k) \in Layers
      BY <1>1, <1>2, <1>8, FollowingOK DEF Present
    <2> HIDE DEF k
    <2>3. n \in Loads /\ n.mine = k.mine /\ n.heldFor = k.heldFor /\ n.locked = k.locked
          /\ n.srcs = k.srcs /\ n.pc = "layer" /\ n.at = Following(k)
      BY <1>6, <2>2 DEF Loads, Steps
    <2> HIDE DEF n
    <2>4. Shape(n)
      BY <1>1, <2>2, <2>3 DEF Shape, Wanted
    <2> QED
      BY <1>1, <1>3, <2>1, <2>3, <2>4, GoesOn DEF k, IInv, Types
  <1> QED
    BY <1>7, <1>8

LEMMA VerifyFailsStep == ASSUME IInv, NEW p \in Procs, VerifyFails(p) PROVE IInv'
  <1>1. PICK how : Ends(p, how)
    BY DEF VerifyFails
  <1>2. UNCHANGED <<content, target, writes, external>>
    BY DEF VerifyFails
  <1> QED
    BY <1>1, <1>2, Ended

LEMMA ConflictStep == ASSUME IInv, NEW p \in Procs, Conflict(p) PROVE IInv'
  <1> DEFINE k == load[p]
             n == [NoLoad EXCEPT !.pc = "relock", !.heldFor = k.heldFor]
  <1>1. k \in Loads /\ Shape(k) /\ k.pc = "verify" /\ ~k.locked /\ p \in Readers
        /\ UNCHANGED <<content, target, lock, writes, external>>
    BY Known DEF Conflict, At
  <1>2. k.mine = {}
    BY <1>1 DEF Shape
  <1>3. n \in Loads /\ n.mine = {} /\ n.heldFor = k.heldFor /\ n.pc = "relock" /\ ~n.locked
    BY <1>1, NoLoadOK DEF Loads, Steps, NoLoad
  <1>4. Goes(p, n)
    BY DEF Conflict
  <1> HIDE DEF n
  <1>5. Shape(n)
    BY <1>3 DEF Shape
  <1> QED
    BY <1>1, <1>2, <1>3, <1>4, <1>5, GoesOn DEF IInv, Types

LEMMA RelockStep == ASSUME IInv, NEW p \in Procs, Relock(p) PROVE IInv'
  <1> DEFINE k == load[p]
             t == target[p]
             files == { t[l] : l \in Present(t) }
             n == [k EXCEPT !.pc = IF k.heldFor # 0 THEN "recheck" ELSE "acquire", !.srcs = t]
  <1>1. k \in Loads /\ Shape(k) /\ k.pc = "relock" /\ p \in Readers
        /\ t \in [Layers -> Files \cup {0}]
        /\ UNCHANGED <<content, target, writes, external>>
    BY Known DEF Relock, At
  <1>2. k.mine = {} /\ ~k.locked
    BY <1>1 DEF Shape
  <1>3. CASE \E how : Ends(p, how)
    BY <1>1, <1>3, Ended
  <1>4. CASE files # {} /\ (k.heldFor # 0 => files = {k.heldFor}) /\ Goes(p, n) /\ UNCHANGED lock
    <2>1. files \subseteq Files /\ Present(t) # {}
      BY <1>1, <1>4 DEF Present
    <2> HIDE DEF t
    <2>2. n \in Loads /\ n.mine = {} /\ n.heldFor = k.heldFor /\ ~n.locked /\ n.srcs = t
          /\ n.pc = IF k.heldFor # 0 THEN "recheck" ELSE "acquire"
      BY <1>1, <1>2 DEF Loads, Steps
    <2>3. files = Wanted(n)
      BY <2>2 DEF Wanted
    <2> HIDE DEF k, n, files
    <2>4. Shape(n)
      BY <1>4, <2>1, <2>2, <2>3 DEF Shape
    <2> QED
      BY <1>1, <1>2, <1>4, <2>2, <2>4, GoesOn DEF k, IInv, Types
  <1> QED
    BY <1>3, <1>4 DEF Relock

\* The lock a load takes next is the least of those it still wants.
LEMMA NextLockOK ==
  ASSUME NEW k \in Loads, Shape(k), k.pc = "acquire"
  PROVE  /\ NextLock(k) \in Wanted(k) \ k.mine /\ Wanted(k) \subseteq Files
         /\ \A g \in Wanted(k) \ k.mine : NextLock(k) <= g
         /\ \A g \in k.mine : g < NextLock(k)
  <1>1. Wanted(k) \subseteq Files
    BY DEF Wanted, Present, Loads
  <1>2. Wanted(k) \ k.mine \subseteq Nat /\ Wanted(k) \ k.mine # {}
    BY <1>1, NoFile DEF Shape
  <1>3. /\ NextLock(k) \in Wanted(k) \ k.mine
        /\ \A g \in Wanted(k) \ k.mine : NextLock(k) <= g
    BY <1>2, MinOK DEF NextLock
  <1> QED
    BY <1>1, <1>3 DEF Shape

LEMMA AcquireStep == ASSUME IInv, NEW p \in Procs, Acquire(p) PROVE IInv'
  <1> DEFINE k == load[p]
             f == NextLock(k)
             n == [k EXCEPT !.mine = @ \cup {f},
                            !.pc = IF Wanted(k) = k.mine \cup {f} THEN "recheck" ELSE "acquire"]
  <1>1. k \in Loads /\ Shape(k) /\ Owns(p) /\ k.pc = "acquire" /\ p \in Readers
        /\ UNCHANGED <<content, target, writes, external>>
    BY Known DEF Acquire, At
  <1>2. lock[f] = Free /\ lock' = [lock EXCEPT ![f] = p] /\ Goes(p, n)
    BY DEF Acquire
  <1>3. k.heldFor = 0 /\ k.mine \subseteq Wanted(k) /\ ~k.locked
    BY <1>1 DEF Shape
  <1>4. /\ f \in Wanted(k) \ k.mine /\ Wanted(k) \subseteq Files
        /\ \A g \in Wanted(k) \ k.mine : f <= g
        /\ \A g \in k.mine : g < f
    BY <1>1, NextLockOK
  <1> HIDE DEF f
  <1>5. n \in Loads /\ n.mine = k.mine \cup {f} /\ n.heldFor = 0 /\ ~n.locked /\ n.srcs = k.srcs
        /\ n.pc = IF Wanted(k) = k.mine \cup {f} THEN "recheck" ELSE "acquire"
    BY <1>1, <1>3, <1>4 DEF Loads, Steps
  <1>6. Shape(n)
    <2> HIDE DEF k, n
    <2>1. Wanted(n) = Wanted(k) /\ Present(n.srcs) # {}
      BY <1>4, <1>5 DEF Wanted
    <2>2. ASSUME NEW a \in n.mine, NEW g \in Wanted(n) \ n.mine
          PROVE  a < g
      <3>1. g \in Wanted(k) \ k.mine /\ g # f /\ f <= g /\ f \in Nat /\ g \in Nat
        BY <1>4, <1>5, <2>1, NoFile
      <3>2. a \in k.mine \/ a = f
        BY <1>5
      <3> QED
        BY <1>1, <3>1, <3>2 DEF Shape
    <2> QED
      BY <1>3, <1>4, <1>5, <2>1, <2>2 DEF Shape
  <1>7. /\ lock' \in [Files -> Procs \cup {Free}]
        /\ \A g \in Files : lock'[g] = p <=> g \in n.mine \cup {n.heldFor}
        /\ \A g \in Files, q \in Procs \ {p} : lock'[g] = q <=> lock[g] = q
    BY <1>1, <1>2, <1>3, <1>4, <1>5, NoFile DEF IInv, Types, Owns
  <1>8. /\ content' \in [Files -> Contents]
        /\ target' \in [Readers -> [Layers -> Files \cup {0}]]
        /\ writes' \in Nat /\ external' \in Nat
    BY <1>1 DEF IInv, Types
  <1> HIDE DEF n
  <1> QED
    BY <1>1, <1>2, <1>5, <1>6, <1>7, <1>8, OneStep

LEMMA AcquireTimesOutStep == ASSUME IInv, NEW p \in Procs, AcquireTimesOut(p) PROVE IInv'
  BY Ended DEF AcquireTimesOut

LEMMA RecheckStep == ASSUME IInv, NEW p \in Procs, Recheck(p) PROVE IInv'
  <1> DEFINE k == load[p]
             n == [k EXCEPT !.pc = "snapshot", !.locked = TRUE, !.at = First(k)]
  <1>1. k \in Loads /\ Shape(k) /\ k.pc = "recheck" /\ p \in Readers
        /\ UNCHANGED <<content, target, writes, external>>
    BY Known DEF Recheck, At
  <1>2. CASE Ends(p, "moved")
    BY <1>1, <1>2, Ended
  <1>3. CASE Goes(p, n) /\ UNCHANGED lock
    <2>1. First(k) \in Present(k.srcs) /\ First(k) \in Layers
      <3>1. First(k) \in Present(k.srcs)
        BY <1>1, FirstOK DEF First, Shape, Loads
      <3> QED
        BY <3>1 DEF Present
    <2>2. n \in Loads /\ n.mine = k.mine /\ n.heldFor = k.heldFor /\ n.locked
          /\ n.srcs = k.srcs /\ n.pc = "snapshot" /\ n.at = First(k)
      BY <1>1, <2>1 DEF Loads, Steps
    <2> HIDE DEF k, n
    <2>3. Shape(n)
      BY <1>1, <2>1, <2>2 DEF Shape, Wanted
    <2> QED
      BY <1>1, <1>3, <2>2, <2>3, GoesOn DEF k, IInv, Types
  <1> QED
    BY <1>2, <1>3 DEF Recheck

LEMMA ReturnStep == ASSUME IInv, NEW p \in Procs, Return(p) PROVE IInv'
  BY Ended DEF Return

LEMMA StoresOK ==
  ASSUME IInv, NEW f \in Files, NEW plain \in BOOLEAN, Stores(f, NextContent(plain))
  PROVE  content' \in [Files -> Contents]
  BY DEF IInv, Types, Stores, NextContent, Contents

\* What is known of the process that writes the policy.
LEMMA PolicyOK ==
  ASSUME IInv, NEW p \in Procs, At(p, "loaded"), load[p].heldFor # 0,
         load[p].merged[First(load[p])] = content[load[p].heldFor]
  PROVE  /\ load[p].heldFor \in Files /\ lock[load[p].heldFor] = p
         /\ load[p].merged[First(load[p])].plain \in BOOLEAN
  <1>1. load[p].heldFor \in Files /\ Owns(p)
    BY Known DEF Loads
  <1>2. content[load[p].heldFor] \in Contents
    BY <1>1 DEF IInv, Types
  <1> QED
    BY <1>1, <1>2 DEF Owns, Contents

LEMMA WritePolicyStep == ASSUME IInv, NEW p \in Procs, WritePolicy(p) PROVE IInv'
  <1> DEFINE k == load[p]
             m == k.merged[First(k)]
  <1>1. CASE Ends(p, "refused") /\ UNCHANGED <<content, target, writes, external>>
    BY <1>1, Ended
  <1>2. CASE /\ content[k.heldFor] = m
             /\ writes' = writes + 1
             /\ Stores(k.heldFor, NextContent(m.plain))
             /\ Releases(p, "ok")
             /\ UNCHANGED <<target, external>>
    <2>1. k.heldFor \in Files /\ m.plain \in BOOLEAN
      BY <1>2, PolicyOK DEF WritePolicy
    <2> HIDE DEF k, m
    <2>2. content' \in [Files -> Contents] /\ writes' \in Nat
      BY <1>2, <2>1, StoresOK DEF IInv, Types
    <2> QED
      BY <1>2, <2>2, Released
  <1> QED
    BY <1>1, <1>2 DEF WritePolicy

LEMMA WriterLocksStep ==
  ASSUME IInv, NEW w \in Writers, NEW f \in Files, WriterLocks(w, f) PROVE IInv'
  <1> DEFINE n == [NoLoad EXCEPT !.pc = "writing", !.heldFor = f]
  <1>1. /\ w \in Procs /\ At(w, "idle") /\ lock[f] = Free /\ lock' = [lock EXCEPT ![f] = w]
        /\ Goes(w, n) /\ UNCHANGED <<content, target, writes, external>>
    BY DEF WriterLocks, Procs
  <1>2. load[w].mine = {} /\ load[w].heldFor = 0 /\ Owns(w)
    BY <1>1, Known DEF At, Shape
  <1>3. n \in Loads /\ n.mine = {} /\ n.heldFor = f /\ n.pc = "writing" /\ ~n.locked
    BY NoLoadOK DEF Loads, Steps, NoLoad
  <1> HIDE DEF n
  <1>4. Shape(n)
    BY <1>3 DEF Shape
  <1>5. /\ lock' \in [Files -> Procs \cup {Free}]
        /\ \A g \in Files : lock'[g] = w <=> g \in n.mine \cup {n.heldFor}
        /\ \A g \in Files, q \in Procs \ {w} : lock'[g] = q <=> lock[g] = q
    BY <1>1, <1>2, <1>3, NoFile DEF IInv, Types, Owns
  <1>6. /\ content' \in [Files -> Contents]
        /\ target' \in [Readers -> [Layers -> Files \cup {0}]]
        /\ writes' \in Nat /\ external' \in Nat
    BY <1>1 DEF IInv, Types
  <1> QED
    BY <1>1, <1>3, <1>4, <1>5, <1>6, OneStep

LEMMA WriterWritesStep ==
  ASSUME IInv, NEW w \in Procs, NEW plain \in BOOLEAN, WriterWrites(w, plain) PROVE IInv'
  <1> DEFINE f == load[w].heldFor
  <1>1. f \in Files /\ load[w].mine = {} /\ Owns(w)
    BY Known DEF WriterWrites, At, Shape
  <1>2. /\ lock' = [lock EXCEPT ![f] = Free] /\ Goes(w, NoLoad)
        /\ UNCHANGED <<target, external>>
    BY DEF WriterWrites
  <1>3. content' \in [Files -> Contents] /\ writes' \in Nat
    BY <1>1, StoresOK DEF WriterWrites, IInv, Types
  <1> HIDE DEF f
  <1>4. /\ lock' \in [Files -> Procs \cup {Free}]
        /\ \A g \in Files : lock'[g] = w <=> g \in NoLoad.mine \cup {NoLoad.heldFor}
        /\ \A g \in Files, q \in Procs \ {w} : lock'[g] = q <=> lock[g] = q
    BY <1>1, <1>2, NoFile, NoLoadOK DEF IInv, Types, Owns, f
  <1>5. target' \in [Readers -> [Layers -> Files \cup {0}]] /\ external' \in Nat
    BY <1>2 DEF IInv, Types
  <1> QED
    BY <1>2, <1>3, <1>4, <1>5, NoLoadOK, OneStep

LEMMA ExternalStep ==
  ASSUME IInv, UNCHANGED <<lock, load, writes>>, external' = external + 1,
         content' \in [Files -> Contents],
         target' \in [Readers -> [Layers -> Files \cup {0}]]
  PROVE  IInv'
  BY DEF IInv, Types, Owns, At

LEMMA ExternalEditStep == ASSUME IInv, NEW f \in Files, ExternalEdit(f) PROVE IInv'
  <1>1. content' \in [Files -> Contents]
    BY StoresOK DEF ExternalEdit
  <1>2. target' \in [Readers -> [Layers -> Files \cup {0}]]
    BY DEF ExternalEdit, IInv, Types
  <1> QED
    BY <1>1, <1>2, ExternalStep DEF ExternalEdit

LEMMA RetargetStep ==
  ASSUME IInv, NEW p \in Readers, NEW l \in Layers, NEW f \in Files \cup {0}, Retarget(p, l, f)
  PROVE  IInv'
  <1>1. target' \in [Readers -> [Layers -> Files \cup {0}]] /\ content' \in [Files -> Contents]
    BY DEF Retarget, IInv, Types
  <1> QED
    BY <1>1, ExternalStep DEF Retarget

-------------------------------------------------------------------------------
(* The specification *)

LEMMA InitOK == Init => IInv
  <1> SUFFICES ASSUME Init
               PROVE  IInv
    OBVIOUS
  <1>1. content \in [Files -> Contents]
    BY DEF Init, Contents
  <1>2. target \in [Readers -> [Layers -> Files \cup {0}]]
    <2>1. setting.targets \subseteq [Layers -> Files \cup {0}]
      BY LayeredConstantsOK DEF LayeredConstantsOK, Init
    <2> QED
      BY <2>1 DEF Init
  <1>3. Types
    BY <1>1, <1>2, NoLoadOK DEF Init, Types
  <1>4. \A p \in Procs : load[p] = NoLoad
    BY DEF Init
  <1>5. \A p \in Procs : Owns(p)
    BY <1>4, NoLoadOK, NoFile DEF Owns, Init
  <1> QED
    BY <1>3, <1>4, <1>5, NoLoadOK DEF IInv, At

LEMMA LoadStepOK == ASSUME IInv, NEW p \in Procs, LoadStep(p) PROVE IInv'
  BY SnapshotStep, LoadLayerStep, MigrateLayerStep, MigrateTimesOutStep, VerifyStep,
     VerifyFailsStep, ConflictStep, RelockStep, AcquireStep, AcquireTimesOutStep,
     RecheckStep, ReturnStep, WritePolicyStep
  DEF LoadStep

LEMMA NextOK == IInv /\ [Next]_vars => IInv'
  <1> SUFFICES ASSUME IInv, [Next]_vars
               PROVE  IInv'
    OBVIOUS
  <1>1. ASSUME NEW p \in Procs, StartLoad(p) \/ StartPolicy(p) \/ LoadStep(p) \/ WriterStep(p)
        PROVE  IInv'
    BY <1>1, StartLoadStep, StartPolicyStep, LoadStepOK, WriterWritesStep DEF WriterStep
  <1>2. ASSUME NEW w \in Writers, NEW f \in Files, WriterLocks(w, f)
        PROVE  IInv'
    BY <1>2, WriterLocksStep
  <1>3. ASSUME NEW f \in Files, ExternalEdit(f)
        PROVE  IInv'
    BY <1>3, ExternalEditStep
  <1>4. ASSUME NEW p \in Readers, NEW l \in Layers, NEW f \in Files \cup {0}, Retarget(p, l, f)
        PROVE  IInv'
    BY <1>4, RetargetStep
  <1>5. CASE UNCHANGED vars
    BY <1>5 DEF vars, IInv, Types, Owns, At
  <1> QED
    BY <1>1, <1>2, <1>3, <1>4, <1>5 DEF Next

\* What every reachable state is: the processes hold exactly the locks that
\* their loads took or were given, each in the order of the files.
THEOREM Invariance == Spec => []IInv
  <1> QED
    BY InitOK, NextOK, PTL DEF Spec

-------------------------------------------------------------------------------
(* No circle of waiting *)

\* A process waits for a file that exists, above all the files it holds.
LEMMA WaitsAbove ==
  ASSUME IInv, NEW p \in Procs, NEW f \in WaitsFor(p)
  PROVE  f \in Files /\ \A g \in Files : lock[g] = p => g < f
  <1> DEFINE k == load[p]
  <1>1. k \in Loads /\ Shape(k) /\ Owns(p)
    BY Known
  <1>2. CASE k.pc = "acquire"
    <2>1. f = NextLock(k) /\ k.heldFor = 0
      BY <1>1, <1>2 DEF WaitsFor, At, Shape
    <2>2. f \in Files /\ \A g \in k.mine : g < f
      BY <1>1, <1>2, <2>1, NextLockOK
    <2> QED
      BY <1>1, <2>1, <2>2, NoFile DEF Owns
  <1>3. CASE k.pc = "migrate" /\ HeldFor(k) = 0
    <2>1. f = k.ident /\ k.ident \in Files
      BY <1>1, <1>3 DEF WaitsFor, At, Shape
    <2>2. ~k.locked /\ k.heldFor = 0
      <3>1. k.at \in Present(k.srcs)
        BY <1>1, <1>3 DEF Shape
      <3>2. k.srcs[k.at] # 0
        BY <3>1 DEF Present
      <3> QED
        BY <1>3, <3>2 DEF HeldFor
    <2>3. k.mine = {}
      BY <1>1, <1>3, <2>2 DEF Shape
    <2> QED
      BY <1>1, <2>1, <2>2, <2>3, NoFile DEF Owns
  <1> QED
    BY <1>2, <1>3 DEF WaitsFor, At

\* In a circle the holder of the highest file awaited would await a higher one.
LEMMA NoCircle == IInv => NoCircularWait
  <1> SUFFICES ASSUME IInv, NEW S \in SUBSET Procs, S # {},
                      \A p \in S : \E f \in WaitsFor(p) : lock[f] \in S
               PROVE  FALSE
    BY DEF NoCircularWait
  <1> DEFINE W == { f \in Files : \E p \in S : f \in WaitsFor(p) /\ lock[f] \in S }
             m == Max(W)
  <1>1. W \subseteq Nat /\ IsFiniteSet(W)
    BY NoFile, FS_Subset
  <1>2. \A p \in S : \E f \in W : f \in WaitsFor(p)
    BY WaitsAbove
  <1>3. W # {}
    BY <1>2
  <1>4. m \in W /\ \A f \in W : f <= m
    <2> HIDE DEF W
    <2> QED
      BY <1>1, <1>3, MaxOK
  <1>5. m \in Files /\ lock[m] \in S
    BY <1>4
  <1>6. PICK f \in W : f \in WaitsFor(lock[m])
    BY <1>2, <1>5
  <1>7. m < f
    BY <1>5, <1>6, WaitsAbove
  <1> HIDE DEF W, m
  <1> QED
    BY <1>1, <1>4, <1>6, <1>7

\* lockLayeredSources and the migration of a layer: gcx processes never wait
\* for each other's locks in a circle, however many layers they load and
\* whatever files their layers are.
THEOREM NoCircularWaitHolds == Spec => []NoCircularWait
  <1> QED
    BY Invariance, NoCircle, PTL

-------------------------------------------------------------------------------
(* No write against a lock *)

\* A step of the migration or of the policy's command, or another's write,
\* replaces a file only when its process holds the lock, or takes it.
LEMMA MigratesCovered ==
  ASSUME IInv, NEW p \in Procs, MigrateLayer(p), NEW f \in Files, content'[f] # content[f]
  PROVE  load'[p] # load[p] /\ lock[f] \in {p, Free}
  <1> DEFINE k == load[p]
             c == [k.snap[k.at] EXCEPT !.plain = FALSE]
  <1>1. k \in Loads /\ Shape(k) /\ Owns(p) /\ k.pc = "migrate"
    BY Known DEF MigrateLayer, At
  <1>2. /\ HeldFor(k) = 0 => lock[k.ident] = Free
        /\ HeldFor(k) \in {0, k.ident} /\ Stores(k.ident, c)
        /\ Goes(p, [k EXCEPT !.pc = "verify", !.loaded = c])
    BY DEF MigrateLayer
  <1>3. f = k.ident
    BY <1>2 DEF Stores, IInv, Types
  <1>4. load'[p] # load[p]
    <2>1. load'[p].pc = "verify"
      <3> HIDE DEF c
      <3> QED
        BY <1>1, <1>2 DEF Goes, IInv, Types, Loads
    <2> QED
      BY <1>1, <2>1
  <1>5. CASE HeldFor(k) = 0
    BY <1>2, <1>3, <1>4, <1>5
  <1>6. CASE HeldFor(k) = f /\ f # 0
    <2>1. k.locked => f \in Wanted(k)
      BY <1>1, <1>6 DEF HeldFor, Wanted, Shape
    <2>2. f \in k.mine \cup {k.heldFor}
      BY <1>1, <1>6, <2>1 DEF HeldFor, Shape
    <2> QED
      BY <1>1, <1>4, <2>2 DEF Owns
  <1> QED
    BY <1>2, <1>3, <1>5, <1>6

LEMMA PolicyCovered ==
  ASSUME IInv, NEW p \in Procs, WritePolicy(p), NEW f \in Files, content'[f] # content[f]
  PROVE  load'[p] # load[p] /\ lock[f] = p
  <1> DEFINE k == load[p]
             m == k.merged[First(k)]
  <1>1. /\ At(p, "loaded") /\ k.heldFor # 0 /\ content[k.heldFor] = m
        /\ Stores(k.heldFor, NextContent(m.plain)) /\ Goes(p, NoLoad)
    BY DEF WritePolicy, Releases
  <1>2. k.heldFor \in Files /\ lock[k.heldFor] = p
    BY <1>1, PolicyOK
  <1>3. f = k.heldFor
    BY <1>1, <1>2 DEF Stores, IInv, Types
  <1>4. load'[p].pc = "idle" /\ load[p].pc = "loaded"
    BY <1>1, NoLoadOK DEF Goes, IInv, Types, At
  <1> QED
    BY <1>2, <1>3, <1>4

LEMMA WriterCovered ==
  ASSUME IInv, NEW w \in Procs, NEW plain \in BOOLEAN, WriterWrites(w, plain),
         NEW f \in Files, content'[f] # content[f]
  PROVE  load'[w] # load[w] /\ lock[f] = w
  <1>1. /\ At(w, "writing") /\ Goes(w, NoLoad)
        /\ Stores(load[w].heldFor, NextContent(plain))
    BY DEF WriterWrites
  <1>2. load[w].heldFor \in Files /\ Owns(w)
    BY <1>1, Known DEF At, Shape
  <1>3. f = load[w].heldFor
    BY <1>1, <1>2 DEF Stores, IInv, Types
  <1>4. load'[w].pc = "idle" /\ load[w].pc = "writing"
    BY <1>1, NoLoadOK DEF Goes, IInv, Types, At
  <1> QED
    BY <1>2, <1>3, <1>4 DEF Owns

LEMMA Covered ==
  IInv /\ [Next]_vars =>
    \A f \in Files : content'[f] # content[f] =>
      \/ external' # external
      \/ \E p \in Procs : load'[p] # load[p] /\ lock[f] \in {p, Free}
  <1> SUFFICES ASSUME IInv, [Next]_vars, NEW f \in Files, content'[f] # content[f],
                      external' = external
               PROVE  \E p \in Procs : load'[p] # load[p] /\ lock[f] \in {p, Free}
    OBVIOUS
  <1>1. CASE \E p \in Procs : MigrateLayer(p)
    BY <1>1, MigratesCovered
  <1>2. CASE \E p \in Procs : WritePolicy(p)
    BY <1>2, PolicyCovered
  <1>3. CASE \E p \in Procs : WriterStep(p)
    BY <1>3, WriterCovered DEF WriterStep
  <1>4. CASE \E p \in Procs : StartLoad(p) \/ StartPolicy(p)
    BY <1>4 DEF StartLoad, StartPolicy
  <1>5. ASSUME NEW p \in Procs, LoadStep(p), ~MigrateLayer(p), ~WritePolicy(p)
        PROVE  content' = content
    BY <1>5 DEF LoadStep, Snapshot, LoadLayer, MigrateTimesOut, Verify, VerifyFails, Conflict,
                Relock, Acquire, AcquireTimesOut, Recheck, Return
  <1>6. CASE \E w \in Writers, g \in Files : WriterLocks(w, g)
    BY <1>6 DEF WriterLocks
  <1>7. CASE \E g \in Files : ExternalEdit(g)
    BY <1>7 DEF ExternalEdit, IInv, Types
  <1>8. CASE \E p \in Readers, l \in Layers, g \in Files \cup {0} : Retarget(p, l, g)
    BY <1>8 DEF Retarget
  <1>9. CASE UNCHANGED vars
    BY <1>9 DEF vars
  <1> QED
    BY <1>1, <1>2, <1>3, <1>4, <1>5, <1>6, <1>7, <1>8, <1>9 DEF Next

\* writeLockCovers: no gcx process replaces a layer while another holds its
\* lock, whichever lock it was told it holds and wherever its links lead.
THEOREM NoUnlockedWriteHolds == Spec => NoUnlockedWrite
  <1> QED
    BY Invariance, Covered, PTL DEF Spec, NoUnlockedWrite

-------------------------------------------------------------------------------
(* The second attempt merges what it has locked *)

\* What a step may do with a load that is in its second attempt.
MergesLocked(p) ==
  load'[p].locked =>
    /\ ~load[p].locked =>
         \A l \in Layers : /\ load'[p].srcs[l] = target[p][l]
                          /\ target[p][l] # 0 => lock[target[p][l]] = p
    /\ \A l \in Layers : load'[p].merged[l] # load[p].merged[l] =>
         lock[target[p][l]] = p /\ load'[p].merged[l] = content[target[p][l]]

\* A step that merges nothing, and does not begin the second attempt.
LEMMA MergesNothing ==
  ASSUME IInv, NEW p \in Procs, NEW k, Goes(p, k),
         ~k.locked \/ (load[p].locked /\ k.merged = load[p].merged)
  PROVE  MergesLocked(p)
  <1>1. load'[p] = k
    BY DEF Goes, IInv, Types
  <1> QED
    BY <1>1 DEF MergesLocked

LEMMA EndsMergesNothing ==
  ASSUME IInv, NEW p \in Procs, NEW how, Releases(p, how)
  PROVE  MergesLocked(p)
  BY MergesNothing DEF Releases, NoLoad

\* What the locks cover of the layers that a load has found.
LEMMA FoundLocked ==
  ASSUME IInv, NEW p \in Procs, load[p].pc = "recheck" \/ load[p].locked,
         NEW l \in Layers, load[p].srcs[l] # 0
  PROVE  lock[load[p].srcs[l]] = p
  <1>1. load[p] \in Loads /\ Shape(load[p]) /\ Owns(p)
    BY Known
  <1>2. load[p].srcs[l] \in Wanted(load[p])
    BY DEF Wanted, Present
  <1>3. load[p].srcs[l] \in Files
    BY <1>1 DEF Loads
  <1> QED
    BY <1>1, <1>2, <1>3 DEF Shape, Owns

LEMMA RecheckMerges == ASSUME IInv, NEW p \in Procs, Recheck(p) PROVE MergesLocked(p)
  <1> DEFINE k == load[p]
             n == [k EXCEPT !.pc = "snapshot", !.locked = TRUE, !.at = First(k)]
  <1>1. k \in Loads /\ k.pc = "recheck"
    BY Known DEF Recheck, At
  <1>2. CASE target[p] = k.srcs
    <2>1. Goes(p, n)
      BY <1>2 DEF Recheck
    <2>2. load'[p] = n
      <3> HIDE DEF n
      <3> QED
        BY <2>1 DEF Goes, IInv, Types
    <2> HIDE DEF k
    <2>3. load'[p].srcs = k.srcs /\ load'[p].merged = k.merged
      BY <1>1, <2>2 DEF Loads
    <2> QED
      BY <1>1, <1>2, <2>3, FoundLocked DEF MergesLocked, k
  <1>3. CASE target[p] # k.srcs
    <2>1. Ends(p, "moved")
      BY <1>3 DEF Recheck
    <2> QED
      BY <2>1, EndsMergesNothing DEF Ends
  <1> QED
    BY <1>2, <1>3

LEMMA VerifyMerges == ASSUME IInv, NEW p \in Procs, Verify(p) PROVE MergesLocked(p)
  <1> DEFINE k == load[p]
             c == content[target[p][k.at]]
             snaps == [l \in Layers |->
                        IF k.locked /\ l > k.at /\ k.srcs[l] # 0 /\ k.srcs[l] = k.srcs[k.at]
                        THEN c ELSE k.snap[l]]
             s == [k EXCEPT !.merged[k.at] = k.loaded, !.snap = snaps]
             n == IF IsLast(k) THEN [s EXCEPT !.pc = "loaded"]
                               ELSE [s EXCEPT !.pc = "layer", !.at = Following(k)]
  <1>1. k \in Loads /\ Shape(k) /\ k.pc = "verify" /\ k.at \in Layers
    BY Known DEF Verify, At, Shape, Present
  <1>2. /\ target[p][k.at] # 0 /\ content[target[p][k.at]] = k.loaded
        /\ k.locked => target[p][k.at] = k.srcs[k.at]
        /\ Goes(p, n)
    BY DEF Verify, Moved, Changed
  <1>3. load'[p] = n
    <2> HIDE DEF n
    <2> QED
      BY <1>2 DEF Goes, IInv, Types
  <1>4. n.locked = k.locked /\ n.merged = [k.merged EXCEPT ![k.at] = k.loaded]
    <2> HIDE DEF k, snaps
    <2> QED
      BY <1>1 DEF Loads
  <1> HIDE DEF n, s, snaps
  <1>5. ASSUME k.locked, NEW l \in Layers, n.merged[l] # k.merged[l]
        PROVE  lock[target[p][l]] = p /\ n.merged[l] = content[target[p][l]]
    <2>1. l = k.at /\ n.merged[l] = k.loaded
      BY <1>1, <1>4, <1>5 DEF Loads
    <2>2. lock[k.srcs[k.at]] = p
      BY <1>1, <1>2, <1>5, FoundLocked
    <2> QED
      BY <1>2, <1>5, <2>1, <2>2
  <1> QED
    BY <1>3, <1>4, <1>5 DEF MergesLocked

LEMMA OtherStepsMerge ==
  ASSUME IInv, NEW p \in Procs, LoadStep(p), ~Recheck(p), ~Verify(p)
  PROVE  MergesLocked(p)
  <1> DEFINE k == load[p]
  <1>1. k \in Loads /\ Shape(k)
    BY Known
  <1>2. CASE \E how : Releases(p, how)
    BY <1>2, EndsMergesNothing
  <1>3. ASSUME NEW n, Goes(p, n), n.locked = k.locked, n.merged = k.merged
        PROVE  MergesLocked(p)
    BY <1>3, MergesNothing
  <1>4. CASE Snapshot(p)
    BY <1>1, <1>2, <1>3, <1>4 DEF Snapshot, Loads, Ends
  <1>5. CASE LoadLayer(p)
    BY <1>1, <1>2, <1>3, <1>5 DEF LoadLayer, Loads, Ends
  <1>6. CASE MigrateLayer(p) \/ MigrateTimesOut(p)
    BY <1>1, <1>3, <1>6 DEF MigrateLayer, MigrateTimesOut, Loads
  <1>7. CASE VerifyFails(p)
    BY <1>2, <1>7 DEF VerifyFails, Ends
  <1>8. CASE Conflict(p)
    <2>1. ~[NoLoad EXCEPT !.pc = "relock", !.heldFor = k.heldFor].locked
      BY DEF NoLoad
    <2> QED
      BY <1>8, <2>1, MergesNothing DEF Conflict
  <1>9. CASE Relock(p)
    BY <1>1, <1>2, <1>3, <1>9 DEF Relock, Loads, Ends
  <1>10. CASE Acquire(p)
    BY <1>1, <1>3, <1>10 DEF Acquire, Loads
  <1>11. CASE AcquireTimesOut(p) \/ Return(p) \/ WritePolicy(p)
    BY <1>2, <1>11 DEF AcquireTimesOut, Return, WritePolicy, Ends
  <1> QED
    BY <1>4, <1>5, <1>6, <1>7, <1>8, <1>9, <1>10, <1>11 DEF LoadStep

\* Steps of a process, whichever they are.
LEMMA OwnMerges ==
  ASSUME IInv, NEW p \in Procs,
         \/ StartLoad(p) \/ StartPolicy(p) \/ LoadStep(p) \/ WriterStep(p)
         \/ \E f \in Files : WriterLocks(p, f)
  PROVE  MergesLocked(p)
  <1>1. ~NoLoad.locked
    BY DEF NoLoad
  <1>2. CASE StartLoad(p) \/ StartPolicy(p)
    <2>1. PICK held : Begin(p, held)
      BY <1>2 DEF StartLoad, StartPolicy
    <2> DEFINE n == [NoLoad EXCEPT !.pc = "snapshot", !.heldFor = held, !.srcs = target[p],
                                   !.at = Min(Present(target[p]))]
    <2>2. Goes(p, n)
      BY <2>1 DEF Begin
    <2>3. ~n.locked
      BY DEF NoLoad
    <2> HIDE DEF n
    <2> QED
      BY <2>2, <2>3, MergesNothing
  <1>3. CASE WriterStep(p)
    BY <1>1, <1>3, MergesNothing DEF WriterStep, WriterWrites
  <1>4. CASE \E f \in Files : WriterLocks(p, f)
    <2>1. PICK f \in Files : WriterLocks(p, f)
      BY <1>4
    <2> DEFINE n == [NoLoad EXCEPT !.pc = "writing", !.heldFor = f]
    <2>2. Goes(p, n)
      BY <2>1 DEF WriterLocks
    <2>3. ~n.locked
      BY DEF NoLoad
    <2> HIDE DEF n
    <2> QED
      BY <2>2, <2>3, MergesNothing
  <1>5. CASE LoadStep(p)
    BY <1>5, RecheckMerges, VerifyMerges, OtherStepsMerge
  <1> QED
    BY <1>2, <1>3, <1>4, <1>5

\* Whose steps leave the loads of others as they are.
LEMMA OthersStay ==
  ASSUME IInv, NEW q \in Procs,
         \/ StartLoad(q) \/ StartPolicy(q) \/ LoadStep(q) \/ WriterStep(q)
         \/ \E f \in Files : WriterLocks(q, f)
  PROVE  \A p \in Procs \ {q} : load'[p] = load[p]
  <1>1. CASE StartLoad(q) \/ StartPolicy(q)
    BY <1>1 DEF StartLoad, StartPolicy, Begin, Goes, IInv, Types
  <1>2. CASE WriterStep(q) \/ \E f \in Files : WriterLocks(q, f)
    BY <1>2 DEF WriterStep, WriterWrites, WriterLocks, Goes, IInv, Types
  <1>3. CASE LoadStep(q)
    <2>1. CASE Snapshot(q) \/ LoadLayer(q) \/ Verify(q)
      BY <2>1 DEF Snapshot, LoadLayer, Verify, Ends, Releases, Goes, IInv, Types
    <2>2. CASE MigrateLayer(q) \/ MigrateTimesOut(q) \/ VerifyFails(q) \/ Conflict(q)
      BY <2>2 DEF MigrateLayer, MigrateTimesOut, VerifyFails, Conflict, Ends, Releases, Goes,
                  IInv, Types
    <2>3. CASE Relock(q) \/ Acquire(q) \/ AcquireTimesOut(q) \/ Recheck(q)
      BY <2>3 DEF Relock, Acquire, AcquireTimesOut, Recheck, Ends, Releases, Goes, IInv, Types
    <2>4. CASE Return(q) \/ WritePolicy(q)
      BY <2>4 DEF Return, WritePolicy, Ends, Releases, Goes, IInv, Types
    <2> QED
      BY <1>3, <2>1, <2>2, <2>3, <2>4 DEF LoadStep
  <1> QED
    BY <1>1, <1>2, <1>3

LEMMA EveryStepMerges == IInv /\ [Next]_vars => \A p \in Readers : MergesLocked(p)
  <1> SUFFICES ASSUME IInv, [Next]_vars, NEW p \in Readers
               PROVE  MergesLocked(p)
    OBVIOUS
  <1>1. p \in Procs
    BY DEF Procs
  <1>2. CASE load'[p] = load[p]
    BY <1>2 DEF MergesLocked
  <1>3. ASSUME NEW q \in Procs,
               \/ StartLoad(q) \/ StartPolicy(q) \/ LoadStep(q) \/ WriterStep(q)
               \/ \E f \in Files : WriterLocks(q, f)
        PROVE  MergesLocked(p)
    BY <1>1, <1>2, <1>3, OwnMerges, OthersStay
  <1>4. CASE \E f \in Files : ExternalEdit(f)
    BY <1>2, <1>4 DEF ExternalEdit
  <1>5. CASE \E r \in Readers, l \in Layers, f \in Files \cup {0} : Retarget(r, l, f)
    BY <1>2, <1>5 DEF Retarget
  <1>6. CASE UNCHANGED vars
    BY <1>2, <1>6 DEF vars
  <1> QED
    BY <1>3, <1>4, <1>5, <1>6 DEF Next, Procs

\* loadLayeredSourcesLocked: the second attempt begins with the locks of all the
\* layers there are, and merges only what is said by a file whose lock it holds
\* and to which the path of the layer still leads, however links and layers
\* change while it waits for the locks and reads.
THEOREM OnlyLockedIsMergedHolds == Spec => OnlyLockedIsMerged
  <1> QED
    BY Invariance, EveryStepMerges, PTL DEF Spec, OnlyLockedIsMerged, MergesLocked

-------------------------------------------------------------------------------
(* What interrupts the first attempt to load cannot happen to the second *)

\* Layer l was read as its file says in c.
Current(c, k, l) == k.snap[l] = c[k.srcs[l]]

Ahead(k)  == { l \in Present(k.srcs) : l > k.at }
Behind(k) == { l \in Present(k.srcs) : l < k.at }

\* Under the locks nothing that was read changes, by whatever the load itself
\* writes too: after a layer was migrated, the later layers that are the same
\* file are read again.
UnderLocks(c, k) ==
  /\ k.pc = "snapshot" => \A l \in Behind(k) : Current(c, k, l)
  /\ k.pc = "layer"    => Current(c, k, k.at) /\ \A l \in Ahead(k) : Current(c, k, l)
  /\ k.pc = "migrate"  => /\ k.ident = k.srcs[k.at] /\ Current(c, k, k.at)
                          /\ k.loaded = k.snap[k.at]
                          /\ \A l \in Ahead(k) : Current(c, k, l)
  /\ k.pc = "verify"   => /\ k.ident = k.srcs[k.at] /\ k.loaded = c[k.srcs[k.at]]
                          /\ \A l \in Ahead(k) :
                               Current(c, k, l) \/ k.srcs[l] = k.srcs[k.at]

\* While no other program interferes, the layers t are what the load found.
Undisturbed(t, c, k) ==
  /\ k.pc \notin {"idle", "writing", "relock"} => k.srcs = t
  /\ k.pc \notin {"idle", "writing"} => Present(t) # {}
  /\ k.locked => UnderLocks(c, k)

Failures == {"changed", "moved", "vanished"}

\* Only other programs disturb a load, or make one fail.
OInv ==
  external = 0 =>
    /\ result \in [Readers -> Results]
    /\ \A p \in Readers : /\ Undisturbed(target[p], content, load[p])
                          /\ result[p] \notin Failures

-------------------------------------------------------------------------------
(* Lemmas about steps *)

LEMMA LeastOK == ASSUME NEW k \in Loads, Present(k.srcs) # {}
                 PROVE  First(k) \in Present(k.srcs)
                        /\ \A l \in Present(k.srcs) : First(k) <= l
  <1>1. Present(k.srcs) \subseteq Nat
    BY PresentOK DEF Loads
  <1> QED
    BY <1>1, MinOK DEF First

\* Nothing lies between a layer and the one that follows it.
LEMMA NothingBetween ==
  ASSUME NEW k \in Loads, k.at \in Present(k.srcs), ~IsLast(k), NEW l \in Present(k.srcs)
  PROVE  Following(k) > k.at /\ (l < Following(k) => l <= k.at)
  <1> DEFINE P == Present(k.srcs)
             L == { x \in P : x > k.at }
  <1>1. P \subseteq Nat /\ L \subseteq Nat
    BY PresentOK DEF Loads
  <1>2. Following(k) \in P /\ Following(k) = Min(L)
    BY FollowingOK DEF Following
  <1>3. L # {}
    <2>1. IsFiniteSet(P) /\ P # {}
      BY PresentOK DEF Loads
    <2>2. Max(P) \in P /\ \A y \in P : y <= Max(P)
      <3> HIDE DEF P
      <3> QED
        BY <1>1, <2>1, MaxOK
    <2>3. \A a, m \in P : a <= m /\ a # m => m > a
      BY <1>1
    <2>4. k.at # Max(P)
      BY DEF IsLast
    <2>5. k.at \in P
      OBVIOUS
    <2> HIDE DEF P
    <2> QED
      BY <2>2, <2>3, <2>4, <2>5
  <1>4. Min(L) \in L /\ \A y \in L : Min(L) <= y
    <2> HIDE DEF L
    <2> QED
      BY <1>1, <1>3, MinOK
  <1>5. Following(k) > k.at
    BY <1>2, <1>4
  <1>6. ASSUME l < Following(k), ~(l <= k.at)
        PROVE  FALSE
    <2>1. l \in L
      BY <1>1, <1>6
    <2>2. Min(L) <= l
      BY <1>4, <2>1
    <2>3. Min(L) \in Nat /\ l \in Nat
      BY <1>1, <1>4
    <2> HIDE DEF L
    <2> QED
      BY <1>2, <1>6, <2>2, <2>3
  <1> QED
    BY <1>5, <1>6

LEMMA LastOK ==
  ASSUME NEW k \in Loads, k.at \in Present(k.srcs), IsLast(k), NEW l \in Present(k.srcs)
  PROVE  l <= k.at
  <1> DEFINE P == Present(k.srcs)
  <1>1. P \subseteq Nat /\ IsFiniteSet(P) /\ l \in P /\ k.at = Max(P)
    BY PresentOK DEF Loads, IsLast
  <1> HIDE DEF P
  <1> QED
    BY <1>1, MaxOK

\* A load under locks holds the lock of each of its layers.
LEMMA HoldsAll ==
  ASSUME IInv, NEW p \in Readers, load[p].locked, NEW l \in Present(load[p].srcs)
  PROVE  load[p].srcs[l] \in Files /\ lock[load[p].srcs[l]] = p
  <1> DEFINE k == load[p]
  <1>1. k \in Loads /\ Shape(k) /\ Owns(p)
    BY Known DEF Procs
  <1>2. k.srcs[l] \in Files /\ k.srcs[l] \in Wanted(k)
    BY <1>1 DEF Present, Loads, Wanted
  <1>3. k.srcs[l] \in k.mine \cup {k.heldFor}
    BY <1>1, <1>2 DEF Shape
  <1> QED
    BY <1>1, <1>2, <1>3 DEF Owns

\* What other processes write does not disturb a load.
LEMMA Others ==
  ASSUME IInv, NEW p \in Procs, NEW q \in Readers, q # p,
         Undisturbed(target[q], content, load[q]),
         \A f \in Files : content'[f] # content[f] => lock[f] \in {p, Free}
  PROVE  Undisturbed(target[q], content', load[q])
  <1> DEFINE k == load[q]
  <1>1. CASE ~k.locked
    BY <1>1 DEF Undisturbed
  <1>2. CASE k.locked
    <2>1. UnderLocks(content, k)
      BY <1>2 DEF Undisturbed
    <2>2. \A l \in Present(k.srcs) : content'[k.srcs[l]] = content[k.srcs[l]]
      BY <1>2, HoldsAll, NoFile DEF Procs
    <2>3. k.pc \in {"snapshot", "layer", "migrate", "verify"} => k.at \in Present(k.srcs)
      BY Known DEF Shape, Procs
    <2>4. UnderLocks(content', k)
      <3> HIDE DEF k
      <3> QED
        BY <2>1, <2>2, <2>3 DEF UnderLocks, Current, Ahead, Behind
    <2> QED
      BY <2>4 DEF Undisturbed
  <1> QED
    BY <1>1, <1>2

\* A step of one process.
LEMMA OneOutcome ==
  ASSUME IInv, OInv, NEW p \in Procs, NEW k, Goes(p, k),
         UNCHANGED <<target, external>>,
         \A f \in Files : content'[f] # content[f] => lock[f] \in {p, Free},
         external = 0 =>
           /\ result' \in [Readers -> Results]
           /\ \A q \in Readers \ {p} : result'[q] = result[q]
           /\ p \in Readers => Undisturbed(target[p], content', k) /\ result'[p] \notin Failures
  PROVE  OInv'
  <1> SUFFICES ASSUME external = 0, NEW q \in Readers
               PROVE  /\ Undisturbed(target[q], content', load'[q])
                      /\ result'[q] \notin Failures
    BY DEF OInv
  <1>1. q \in Procs /\ load'[p] = k /\ (q # p => load'[q] = load[q])
    BY DEF Goes, IInv, Types, Procs
  <1>2. CASE q = p
    BY <1>1, <1>2
  <1>3. CASE q # p
    <2>1. Undisturbed(target[q], content, load[q]) /\ result[q] \notin Failures
      BY DEF OInv
    <2>2. Undisturbed(target[q], content', load[q])
      BY <1>3, <2>1, Others
    <2> QED
      BY <1>1, <1>3, <2>1, <2>2
  <1> QED
    BY <1>2, <1>3

\* A step that writes nothing and ends nothing.
LEMMA Proceeds ==
  ASSUME IInv, OInv, NEW p \in Readers, NEW k, Goes(p, k),
         UNCHANGED <<content, target, external, result>>,
         external = 0 => Undisturbed(target[p], content, k)
  PROVE  OInv'
  <1>1. external = 0 => result' \in [Readers -> Results] /\ result'[p] \notin Failures
    BY DEF OInv
  <1> QED
    BY <1>1, OneOutcome DEF Procs

LEMMA NoLoadUndisturbed == ASSUME NEW t, NEW c PROVE Undisturbed(t, c, NoLoad)
  BY DEF Undisturbed, NoLoad

\* A load that ends without a failure.
LEMMA EndsWell ==
  ASSUME IInv, OInv, NEW p \in Readers, NEW how \in Results \ Failures, Releases(p, how),
         UNCHANGED <<target, external>>,
         \A f \in Files : content'[f] # content[f] => lock[f] \in {p, Free}
  PROVE  OInv'
  <1>1. Goes(p, NoLoad) /\ result' = [result EXCEPT ![p] = how]
    BY DEF Releases
  <1>2. external = 0 => /\ result' \in [Readers -> Results]
                        /\ \A q \in Readers \ {p} : result'[q] = result[q]
                        /\ result'[p] \notin Failures
    BY <1>1 DEF OInv
  <1> QED
    BY <1>1, <1>2, NoLoadUndisturbed, OneOutcome DEF Procs

\* What is known of a load that nothing disturbs.
LEMMA Calm ==
  ASSUME IInv, OInv, external = 0, NEW p \in Readers
  PROVE  Undisturbed(target[p], content, load[p])
  BY DEF OInv

-------------------------------------------------------------------------------
(* Each step preserves the invariant *)

\* What is known of a load that reads its layers and is not disturbed.
LEMMA Reading ==
  ASSUME IInv, OInv, external = 0, NEW p \in Procs,
         load[p].pc \in {"snapshot", "layer", "migrate", "verify"}
  PROVE  /\ p \in Readers /\ load[p] \in Loads /\ load[p].srcs = target[p]
         /\ load[p].at \in Present(load[p].srcs) /\ target[p][load[p].at] \in Files
         /\ load[p].locked => UnderLocks(content, load[p])
  <1>1. load[p] \in Loads /\ p \in Readers /\ target[p] \in [Layers -> Files \cup {0}]
        /\ load[p].at \in Present(load[p].srcs)
    BY Known DEF Shape
  <1>2. load[p].srcs = target[p] /\ (load[p].locked => UnderLocks(content, load[p]))
    BY <1>1, Calm DEF Undisturbed
  <1> QED
    BY <1>1, <1>2 DEF Present

LEMMA BeginOutcome ==
  ASSUME IInv, OInv, NEW p \in Readers, NEW held, Begin(p, held),
         UNCHANGED <<content, target, external>>
  PROVE  OInv'
  <1> DEFINE n == [NoLoad EXCEPT !.pc = "snapshot", !.heldFor = held, !.srcs = target[p],
                                 !.at = Min(Present(target[p]))]
  <1>1. Goes(p, n) /\ result' = [result EXCEPT ![p] = "none"] /\ Present(target[p]) # {}
    BY DEF Begin
  <1>2. n.pc = "snapshot" /\ n.srcs = target[p] /\ ~n.locked
    BY DEF NoLoad
  <1> HIDE DEF n
  <1>3. Undisturbed(target[p], content', n)
    BY <1>1, <1>2 DEF Undisturbed
  <1>4. external = 0 => /\ result' \in [Readers -> Results]
                        /\ \A q \in Readers \ {p} : result'[q] = result[q]
                        /\ result'[p] \notin Failures
    BY <1>1 DEF OInv, Results, Failures
  <1> QED
    BY <1>1, <1>3, <1>4, OneOutcome DEF Procs

LEMMA SnapshotOutcome ==
  ASSUME IInv, OInv, NEW p \in Procs, Snapshot(p), external' = 0 PROVE OInv'
  <1> DEFINE k == load[p]
             f == target[p][k.at]
             s == [k EXCEPT !.snap[k.at] = content[f]]
  <1>1. k.pc = "snapshot" /\ external = 0 /\ UNCHANGED <<content, target, external>>
    BY DEF Snapshot, At
  <1>2. p \in Readers /\ k \in Loads /\ k.srcs = target[p] /\ k.at \in Present(k.srcs)
        /\ f \in Files /\ (k.locked => UnderLocks(content, k))
    BY <1>1, Reading
  <1>3. Goes(p, IF IsLast(k) THEN [s EXCEPT !.pc = "layer", !.at = First(k)]
                             ELSE [s EXCEPT !.at = Following(k)])
        /\ UNCHANGED result
    BY <1>2, NoFile DEF Snapshot
  <1>4. Present(k.srcs) \subseteq Nat /\ Present(k.srcs) \subseteq Layers
    BY <1>2, PresentOK DEF Loads, Present
  <1>5. s \in Loads /\ s.locked = k.locked /\ s.srcs = k.srcs /\ s.pc = "snapshot"
        /\ s.snap[k.at] = content[k.srcs[k.at]]
        /\ \A l \in Layers \ {k.at} : s.snap[l] = k.snap[l]
    BY <1>1, <1>2, <1>4 DEF Loads, IInv, Types
  <1> HIDE DEF s, f, k
  <1>6. CASE IsLast(k)
    <2> DEFINE n == [s EXCEPT !.pc = "layer", !.at = First(k)]
    <2>1. n.pc = "layer" /\ n.at = First(k) /\ n.srcs = k.srcs /\ n.locked = k.locked
          /\ n.snap = s.snap
      BY <1>5 DEF Loads
    <2>2. Goes(p, n)
      BY <1>3, <1>6
    <2> HIDE DEF n
    <2>3. ASSUME k.locked, NEW l \in Present(k.srcs)
          PROVE  Current(content, n, l)
      <3>1. l <= k.at
        BY <1>2, <1>6, LastOK
      <3>2. l < k.at => k.snap[l] = content[k.srcs[l]]
        BY <1>1, <1>2, <2>3 DEF UnderLocks, Behind, Current
      <3> QED
        BY <1>2, <1>4, <1>5, <2>1, <3>1, <3>2 DEF Current
    <2>4. First(k) \in Present(k.srcs)
      BY <1>2, LeastOK
    <2>5. k.locked => UnderLocks(content, n)
      BY <2>1, <2>3, <2>4 DEF UnderLocks, Ahead
    <2>6. Undisturbed(target[p], content, n)
      BY <1>2, <2>1, <2>5 DEF Undisturbed
    <2> QED
      BY <1>1, <1>2, <1>3, <2>2, <2>6, Proceeds
  <1>7. CASE ~IsLast(k)
    <2> DEFINE n == [s EXCEPT !.at = Following(k)]
    <2>1. n.pc = "snapshot" /\ n.at = Following(k) /\ n.srcs = k.srcs /\ n.locked = k.locked
          /\ n.snap = s.snap
      BY <1>5 DEF Loads
    <2>2. Goes(p, n)
      BY <1>3, <1>7
    <2> HIDE DEF n
    <2>3. ASSUME k.locked, NEW l \in Present(k.srcs), l < Following(k)
          PROVE  Current(content, n, l)
      <3>1. l <= k.at
        BY <1>2, <1>7, <2>3, NothingBetween
      <3>2. l < k.at => k.snap[l] = content[k.srcs[l]]
        BY <1>1, <1>2, <2>3 DEF UnderLocks, Behind, Current
      <3> QED
        BY <1>2, <1>4, <1>5, <2>1, <3>1, <3>2 DEF Current
    <2>4. k.locked => UnderLocks(content, n)
      BY <2>1, <2>3 DEF UnderLocks, Behind
    <2>5. Undisturbed(target[p], content, n)
      BY <1>2, <2>1, <2>4 DEF Undisturbed
    <2> QED
      BY <1>1, <1>2, <1>3, <2>2, <2>5, Proceeds
  <1> QED
    BY <1>6, <1>7

LEMMA LoadLayerOutcome ==
  ASSUME IInv, OInv, NEW p \in Procs, LoadLayer(p), external' = 0 PROVE OInv'
  <1> DEFINE k == load[p]
             f == target[p][k.at]
  <1>1. k.pc = "layer" /\ external = 0 /\ UNCHANGED <<content, target, external>>
    BY DEF LoadLayer, At
  <1>2. p \in Readers /\ k \in Loads /\ k.srcs = target[p] /\ k.at \in Present(k.srcs)
        /\ f \in Files /\ (k.locked => UnderLocks(content, k))
    BY <1>1, Reading
  <1>3. UNCHANGED result
    BY <1>2, NoFile DEF LoadLayer
  <1>4. PICK pc \in {"migrate", "verify"} :
          Goes(p, [k EXCEPT !.loaded = k.snap[k.at], !.ident = f, !.pc = pc])
    BY <1>2, NoFile DEF LoadLayer
  <1> DEFINE n == [k EXCEPT !.loaded = k.snap[k.at], !.ident = f, !.pc = pc]
  <1>5. n.pc = pc /\ n.at = k.at /\ n.srcs = k.srcs /\ n.locked = k.locked /\ n.snap = k.snap
        /\ n.loaded = k.snap[k.at] /\ n.ident = k.srcs[k.at]
    BY <1>2 DEF Loads
  <1>6. Goes(p, n)
    BY <1>4
  <1> HIDE DEF n, k, f
  <1>7. k.locked => UnderLocks(content, n)
    BY <1>1, <1>2, <1>5 DEF UnderLocks, Ahead, Current
  <1>8. Undisturbed(target[p], content, n)
    BY <1>2, <1>5, <1>7 DEF Undisturbed
  <1> QED
    BY <1>1, <1>2, <1>3, <1>6, <1>8, Proceeds

LEMMA MigrateLayerOutcome ==
  ASSUME IInv, OInv, NEW p \in Procs, MigrateLayer(p), external' = 0 PROVE OInv'
  <1> DEFINE k == load[p]
             f == k.ident
             c == [k.snap[k.at] EXCEPT !.plain = FALSE]
             done == HeldFor(k) \in {0, f} /\ target[p][k.at] = f /\ content[f] = k.snap[k.at]
  <1>1. k.pc = "migrate" /\ external = 0 /\ UNCHANGED <<target, external, result>>
    BY DEF MigrateLayer, At
  <1>2. p \in Readers /\ k \in Loads /\ k.srcs = target[p] /\ k.at \in Present(k.srcs)
        /\ f \in Files /\ (k.locked => UnderLocks(content, k))
    BY <1>1, Reading, Known DEF Shape
  <1>3. /\ done => Stores(f, c) /\ Goes(p, [k EXCEPT !.pc = "verify", !.loaded = c])
        /\ ~done => Goes(p, [k EXCEPT !.pc = "verify"]) /\ UNCHANGED content
    BY DEF MigrateLayer
  <1>4. \A g \in Files : content'[g] # content[g] => lock[g] \in {p, Free}
    BY MigratesCovered
  <1>5. external = 0 => /\ result' \in [Readers -> Results]
                        /\ \A q \in Readers \ {p} : result'[q] = result[q]
                        /\ result'[p] \notin Failures
    BY <1>1, <1>2 DEF OInv
  <1>6. k.locked => done
    BY <1>1, <1>2 DEF UnderLocks, Current, HeldFor
  <1> HIDE DEF c
  <1>7. CASE done
    <2> DEFINE n == [k EXCEPT !.pc = "verify", !.loaded = c]
    <2>1. n.pc = "verify" /\ n.at = k.at /\ n.srcs = k.srcs /\ n.locked = k.locked
          /\ n.snap = k.snap /\ n.loaded = c /\ n.ident = f
      BY <1>2 DEF Loads
    <2>2. Goes(p, n)
      BY <1>3, <1>7
    <2>3. content'[f] = c /\ \A g \in Files \ {f} : content'[g] = content[g]
      BY <1>2, <1>3, <1>7 DEF Stores, IInv, Types
    <2>4. \A l \in Present(k.srcs) : k.srcs[l] \in Files
      BY <1>2 DEF Present, Loads
    <2> HIDE DEF n, done, k, f
    <2>5. k.locked => UnderLocks(content', n)
      <3>1. k.locked => f = k.srcs[k.at] /\ \A l \in Ahead(k) : Current(content, k, l)
        BY <1>1, <1>2 DEF UnderLocks, f
      <3> QED
        BY <1>2, <2>1, <2>3, <2>4, <3>1 DEF UnderLocks, Ahead, Current
    <2>6. Undisturbed(target[p], content', n)
      BY <1>2, <2>1, <2>5 DEF Undisturbed
    <2> QED
      BY <1>1, <1>4, <1>5, <2>2, <2>6, OneOutcome
  <1>8. CASE ~done
    <2> DEFINE n == [k EXCEPT !.pc = "verify"]
    <2>1. n.pc = "verify" /\ n.srcs = k.srcs /\ ~n.locked
      BY <1>2, <1>6, <1>8 DEF Loads
    <2>2. Goes(p, n) /\ UNCHANGED content
      BY <1>3, <1>8
    <2> HIDE DEF n, done, k
    <2>3. Undisturbed(target[p], content, n)
      BY <1>2, <2>1 DEF Undisturbed
    <2> QED
      BY <1>1, <1>2, <2>2, <2>3, Proceeds
  <1> QED
    BY <1>7, <1>8

LEMMA MigrateTimesOutOutcome ==
  ASSUME IInv, OInv, NEW p \in Procs, MigrateTimesOut(p), external' = 0 PROVE OInv'
  <1> DEFINE k == load[p]
             n == [k EXCEPT !.pc = "verify"]
  <1>1. /\ k.pc = "migrate" /\ external = 0 /\ HeldFor(k) = 0 /\ Goes(p, n)
        /\ UNCHANGED <<content, target, external, result>>
    BY DEF MigrateTimesOut, At
  <1>2. p \in Readers /\ k \in Loads /\ k.srcs = target[p] /\ k.at \in Present(k.srcs)
    BY <1>1, Reading
  <1>3. ~k.locked
    BY <1>1, <1>2 DEF HeldFor, Present
  <1>4. n.pc = "verify" /\ n.srcs = k.srcs /\ ~n.locked
    BY <1>2, <1>3 DEF Loads
  <1> HIDE DEF n, k
  <1>5. Undisturbed(target[p], content, n)
    BY <1>2, <1>4 DEF Undisturbed
  <1> QED
    BY <1>1, <1>2, <1>5, Proceeds

LEMMA VerifyOutcome ==
  ASSUME IInv, OInv, NEW p \in Procs, Verify(p), external' = 0 PROVE OInv'
  <1> DEFINE k == load[p]
             c == content[target[p][k.at]]
             w == [l \in Layers |->
                     IF k.locked /\ l > k.at /\ k.srcs[l] # 0 /\ k.srcs[l] = k.srcs[k.at]
                     THEN c ELSE k.snap[l]]
             s == [k EXCEPT !.merged[k.at] = k.loaded, !.snap = w]
  <1>1. /\ k.pc = "verify" /\ external = 0
        /\ UNCHANGED <<content, target, external, result>>
        /\ Goes(p, IF IsLast(k) THEN [s EXCEPT !.pc = "loaded"]
                                ELSE [s EXCEPT !.pc = "layer", !.at = Following(k)])
    BY DEF Verify, At
  <1>2. p \in Readers /\ k \in Loads /\ k.srcs = target[p] /\ k.at \in Present(k.srcs)
        /\ (k.locked => UnderLocks(content, k))
    BY <1>1, Reading
  <1>3. \A l \in Ahead(k) : k.locked => w[l] = content[k.srcs[l]]
    <2>1. \A l \in Ahead(k) : l \in Layers /\ l > k.at /\ k.srcs[l] # 0
      BY DEF Ahead, Present
    <2>2. k.locked => \A l \in Ahead(k) : Current(content, k, l) \/ k.srcs[l] = k.srcs[k.at]
      BY <1>1, <1>2 DEF UnderLocks
    <2> QED
      BY <1>2, <2>1, <2>2 DEF Current
  <1>4. CASE IsLast(k)
    <2> DEFINE n == [s EXCEPT !.pc = "loaded"]
    <2>1. n.pc = "loaded" /\ n.srcs = k.srcs
      BY <1>2 DEF Loads
    <2>2. Goes(p, n)
      BY <1>1, <1>4
    <2>3. Present(target[p]) # {}
      BY <1>2
    <2> HIDE DEF n, s, w, k
    <2>4. Undisturbed(target[p], content, n)
      BY <1>2, <2>1, <2>3 DEF Undisturbed, UnderLocks
    <2> QED
      BY <1>1, <1>2, <2>2, <2>4, Proceeds
  <1>5. CASE ~IsLast(k)
    <2> DEFINE n == [s EXCEPT !.pc = "layer", !.at = Following(k)]
    <2>1. n.pc = "layer" /\ n.at = Following(k) /\ n.srcs = k.srcs /\ n.locked = k.locked
          /\ n.snap = w
      BY <1>2 DEF Loads
    <2>2. Goes(p, n)
      BY <1>1, <1>5
    <2>3. /\ Following(k) \in Present(k.srcs) /\ Following(k) > k.at
          /\ \A l \in Present(k.srcs) : l > Following(k) => l > k.at
      <3>1. Present(k.srcs) \subseteq Nat
        BY <1>2, PresentOK DEF Loads
      <3>2. Following(k) \in Present(k.srcs) /\ Following(k) > k.at
        BY <1>2, <1>5, FollowingOK, NothingBetween
      <3> HIDE DEF k
      <3> QED
        BY <1>2, <3>1, <3>2
    <2> HIDE DEF n, s, w, k
    <2>4. k.locked => UnderLocks(content, n)
      BY <1>3, <2>1, <2>3 DEF UnderLocks, Ahead, Current
    <2>5. Undisturbed(target[p], content, n)
      BY <1>2, <2>1, <2>4 DEF Undisturbed
    <2> QED
      BY <1>1, <1>2, <2>2, <2>5, Proceeds
  <1> QED
    BY <1>4, <1>5

\* Without other programs no layer is found vanished, moved or changed.
LEMMA VerifyFailsOutcome ==
  ASSUME IInv, OInv, NEW p \in Procs, VerifyFails(p), external' = 0 PROVE FALSE
  <1> DEFINE k == load[p]
  <1>1. k.pc = "verify" /\ external = 0
    BY DEF VerifyFails, At
  <1>2. k.srcs = target[p] /\ target[p][k.at] \in Files
        /\ (k.locked => k.ident = k.srcs[k.at] /\ k.loaded = content[k.srcs[k.at]])
    BY <1>1, Reading DEF UnderLocks
  <1>3. target[p][k.at] # 0 /\ ~Moved(p) /\ (k.locked => ~Changed(p))
    BY <1>2, NoFile DEF Moved, Changed
  <1> QED
    BY <1>3 DEF VerifyFails

LEMMA ConflictOutcome ==
  ASSUME IInv, OInv, NEW p \in Procs, Conflict(p), external' = 0 PROVE OInv'
  <1> DEFINE k == load[p]
             n == [NoLoad EXCEPT !.pc = "relock", !.heldFor = k.heldFor]
  <1>1. /\ k.pc = "verify" /\ external = 0 /\ Goes(p, n)
        /\ UNCHANGED <<content, target, external, result>>
    BY DEF Conflict, At
  <1>2. p \in Readers /\ k.srcs = target[p] /\ k.at \in Present(k.srcs)
    BY <1>1, Reading
  <1>3. n.pc = "relock" /\ ~n.locked
    BY DEF NoLoad
  <1> HIDE DEF n
  <1>4. Undisturbed(target[p], content, n)
    BY <1>2, <1>3 DEF Undisturbed
  <1> QED
    BY <1>1, <1>2, <1>4, Proceeds

LEMMA RelockOutcome ==
  ASSUME IInv, OInv, NEW p \in Procs, Relock(p), external' = 0 PROVE OInv'
  <1> DEFINE k == load[p]
             t == target[p]
             files == { t[l] : l \in Present(t) }
             n == [k EXCEPT !.pc = IF k.heldFor # 0 THEN "recheck" ELSE "acquire", !.srcs = t]
  <1>1. k.pc = "relock" /\ external = 0 /\ UNCHANGED <<content, target, external>>
    BY DEF Relock, At
  <1>2. p \in Readers /\ k \in Loads /\ ~k.locked
    BY <1>1, Known DEF Shape
  <1>3. Present(t) # {}
    BY <1>1, <1>2, Calm DEF Undisturbed
  <1>4. CASE Ends(p, "refused")
    BY <1>1, <1>2, <1>4, EndsWell DEF Ends, Results, Failures
  <1>5. CASE Goes(p, n) /\ UNCHANGED result
    <2>1. n.srcs = t /\ ~n.locked
      BY <1>2 DEF Loads
    <2> HIDE DEF n
    <2>2. Undisturbed(t, content, n)
      BY <1>3, <2>1 DEF Undisturbed
    <2> QED
      BY <1>1, <1>2, <1>5, <2>2, Proceeds
  <1>6. files # {}
    BY <1>3
  <1> QED
    BY <1>4, <1>5, <1>6 DEF Relock

LEMMA AcquireOutcome ==
  ASSUME IInv, OInv, NEW p \in Procs, Acquire(p), external' = 0 PROVE OInv'
  <1> DEFINE k == load[p]
             n == [k EXCEPT !.mine = @ \cup {NextLock(k)},
                            !.pc = IF Wanted(k) = k.mine \cup {NextLock(k)}
                                   THEN "recheck" ELSE "acquire"]
  <1>1. /\ k.pc = "acquire" /\ external = 0 /\ Goes(p, n)
        /\ UNCHANGED <<content, target, external, result>>
    BY DEF Acquire, At
  <1>2. p \in Readers /\ k \in Loads /\ ~k.locked
    BY <1>1, Known DEF Shape
  <1>3. k.srcs = target[p] /\ Present(target[p]) # {}
    BY <1>1, <1>2, Calm DEF Undisturbed
  <1>4. n.srcs = k.srcs /\ ~n.locked
    BY <1>2 DEF Loads
  <1> HIDE DEF n
  <1>5. Undisturbed(target[p], content, n)
    BY <1>3, <1>4 DEF Undisturbed
  <1> QED
    BY <1>1, <1>2, <1>5, Proceeds

LEMMA AcquireTimesOutOutcome ==
  ASSUME IInv, OInv, NEW p \in Procs, AcquireTimesOut(p) PROVE OInv'
  <1>1. p \in Readers
    BY Known DEF AcquireTimesOut, At
  <1> QED
    BY <1>1, EndsWell DEF AcquireTimesOut, Ends, Results, Failures

LEMMA RecheckOutcome ==
  ASSUME IInv, OInv, NEW p \in Procs, Recheck(p), external' = 0 PROVE OInv'
  <1> DEFINE k == load[p]
             n == [k EXCEPT !.pc = "snapshot", !.locked = TRUE, !.at = First(k)]
  <1>1. k.pc = "recheck" /\ external = 0 /\ UNCHANGED <<content, target, external>>
    BY DEF Recheck, At
  <1>2. p \in Readers /\ k \in Loads /\ Present(k.srcs) # {}
    BY <1>1, Known DEF Shape
  <1>3. k.srcs = target[p]
    BY <1>1, <1>2, Calm DEF Undisturbed
  <1>4. Goes(p, n) /\ UNCHANGED result
    BY <1>3 DEF Recheck
  <1>5. n.pc = "snapshot" /\ n.srcs = k.srcs /\ n.at = First(k)
    BY <1>2 DEF Loads
  <1>6. First(k) \in Nat /\ \A l \in Present(k.srcs) : l \in Nat /\ First(k) <= l
    BY <1>2, LeastOK, PresentOK DEF Loads
  <1> HIDE DEF n, k
  <1>7. Behind(n) = {}
    BY <1>5, <1>6 DEF Behind
  <1>8. Undisturbed(target[p], content, n)
    BY <1>2, <1>3, <1>5, <1>7 DEF Undisturbed, UnderLocks
  <1> QED
    BY <1>1, <1>2, <1>4, <1>8, Proceeds

LEMMA ReturnOutcome == ASSUME IInv, OInv, NEW p \in Procs, Return(p) PROVE OInv'
  <1>1. p \in Readers
    BY Known DEF Return, At
  <1> QED
    BY <1>1, EndsWell DEF Return, Ends, Results, Failures

LEMMA WritePolicyOutcome == ASSUME IInv, OInv, NEW p \in Procs, WritePolicy(p) PROVE OInv'
  <1>1. p \in Readers
    BY Known DEF WritePolicy, At
  <1>2. \A f \in Files : content'[f] # content[f] => lock[f] \in {p, Free}
    BY PolicyCovered
  <1>3. PICK how \in {"ok", "refused"} : Releases(p, how)
    BY DEF WritePolicy, Ends
  <1>4. UNCHANGED <<target, external>>
    BY DEF WritePolicy
  <1> QED
    BY <1>1, <1>2, <1>3, <1>4, EndsWell DEF Results, Failures

LEMMA WriterOutcome ==
  ASSUME IInv, OInv, NEW w \in Procs, NEW k, Goes(w, k), ~k.locked,
         k.pc \in {"idle", "writing"}, UNCHANGED <<target, external, result>>,
         \A f \in Files : content'[f] # content[f] => lock[f] \in {w, Free}
  PROVE  OInv'
  <1>1. \A t, c : Undisturbed(t, c, k)
    BY DEF Undisturbed
  <1>2. external = 0 => /\ result' \in [Readers -> Results]
                        /\ \A q \in Readers : result'[q] = result[q] /\ result'[q] \notin Failures
    BY DEF OInv
  <1> QED
    BY <1>1, <1>2, OneOutcome

LEMMA WriterLocksOutcome ==
  ASSUME IInv, OInv, NEW w \in Writers, NEW f \in Files, WriterLocks(w, f) PROVE OInv'
  <1> DEFINE n == [NoLoad EXCEPT !.pc = "writing", !.heldFor = f]
  <1>1. w \in Procs /\ Goes(w, n) /\ UNCHANGED <<content, target, external, result>>
    BY DEF WriterLocks, Procs
  <1>2. ~n.locked /\ n.pc = "writing"
    BY DEF NoLoad
  <1> HIDE DEF n
  <1> QED
    BY <1>1, <1>2, WriterOutcome

LEMMA WriterWritesOutcome ==
  ASSUME IInv, OInv, NEW w \in Procs, NEW plain \in BOOLEAN, WriterWrites(w, plain)
  PROVE  OInv'
  <1>1. Goes(w, NoLoad) /\ UNCHANGED <<target, external, result>>
    BY DEF WriterWrites
  <1>2. \A f \in Files : content'[f] # content[f] => lock[f] \in {w, Free}
    BY WriterCovered
  <1>3. ~NoLoad.locked /\ NoLoad.pc = "idle"
    BY DEF NoLoad
  <1> QED
    BY <1>1, <1>2, <1>3, WriterOutcome

-------------------------------------------------------------------------------
(* The specification *)

LEMMA LoadStepOutcome ==
  ASSUME IInv, OInv, NEW p \in Procs, LoadStep(p), external' = 0 PROVE OInv'
  BY SnapshotOutcome, LoadLayerOutcome, MigrateLayerOutcome, MigrateTimesOutOutcome,
     VerifyOutcome, VerifyFailsOutcome, ConflictOutcome, RelockOutcome, AcquireOutcome,
     AcquireTimesOutOutcome, RecheckOutcome, ReturnOutcome, WritePolicyOutcome
  DEF LoadStep

LEMMA StartOutcome ==
  ASSUME IInv, OInv, NEW p \in Procs, StartLoad(p) \/ StartPolicy(p) PROVE OInv'
  <1>1. p \in Readers /\ UNCHANGED <<content, target, external>>
    BY DEF StartLoad, StartPolicy, Readers
  <1>2. PICK held : Begin(p, held)
    BY DEF StartLoad, StartPolicy
  <1> QED
    BY <1>1, <1>2, BeginOutcome

LEMMA InitOutcome == Init => OInv
  <1> SUFFICES ASSUME Init
               PROVE  OInv
    OBVIOUS
  <1>1. result \in [Readers -> Results] /\ \A p \in Readers : result[p] = "none"
    BY DEF Init, Results
  <1>2. \A p \in Readers : load[p] = NoLoad
    BY DEF Init, Procs
  <1> QED
    BY <1>1, <1>2, NoLoadUndisturbed DEF OInv, Failures

LEMMA NextOutcome == IInv /\ OInv /\ [Next]_vars => OInv'
  <1> SUFFICES ASSUME IInv, OInv, [Next]_vars, external' = 0
               PROVE  OInv'
    BY DEF OInv
  <1>1. ASSUME NEW p \in Procs, StartLoad(p) \/ StartPolicy(p) \/ LoadStep(p) \/ WriterStep(p)
        PROVE  OInv'
    BY <1>1, StartOutcome, LoadStepOutcome, WriterWritesOutcome DEF WriterStep
  <1>2. ASSUME NEW w \in Writers, NEW f \in Files, WriterLocks(w, f)
        PROVE  OInv'
    BY <1>2, WriterLocksOutcome
  <1>3. ASSUME NEW f \in Files, ExternalEdit(f)
        PROVE  FALSE
    BY <1>3 DEF ExternalEdit, IInv, Types
  <1>4. ASSUME NEW p \in Readers, NEW l \in Layers, NEW f \in Files \cup {0}, Retarget(p, l, f)
        PROVE  FALSE
    BY <1>4 DEF Retarget, IInv, Types
  <1>5. CASE UNCHANGED vars
    BY <1>5 DEF vars, OInv
  <1> QED
    BY <1>1, <1>2, <1>3, <1>4, <1>5 DEF Next

LEMMA OnlyOthersFail == IInv /\ OInv => WritersNeverFailALoad
  BY DEF IInv, Types, OInv, WritersNeverFailALoad, Readers, Failures

\* loadLayeredOnce and its second attempt under the locks: however often gcx
\* commands write the layers, and whatever the loads themselves migrate, no
\* load ends because a layer changed, moved or vanished, unless a program that
\* takes no lock has interfered.
THEOREM WritersNeverFailALoadHolds == Spec => []WritersNeverFailALoad
  <1> QED
    BY InitOK, NextOK, InitOutcome, NextOutcome, OnlyOthersFail, PTL DEF Spec

-------------------------------------------------------------------------------
(* What a load could have read *)

Total == writes + external

\* A set of views in which the path of layer l led to one file.
Still(S, l) == \A v, w \in S : v.paths[l] = w.paths[l]

\* Of a load k: view v is one at which every layer that stayed in place said
\* what the load has merged, or what it will find unless the layer has been
\* written since. Versions above N were not yet given when v was the view.
Witness(S, t, c, k, v, N) ==
  \A l \in Present(k.srcs) :
    /\ k.snap[l].ver <= N
    /\ Still(S, l) => /\ c[t[l]].ver <= N => v.says[l] = c[t[l]].ver
                      /\ k.pc = "loaded" \/ l < k.at => k.merged[l].ver = v.says[l]

Faithful(S, t, c, n, k) ==
  /\ k.pc \notin {"idle", "relock", "writing"} => \E v \in S : v.paths = k.srcs
  /\ k.pc \in {"snapshot", "relock", "acquire", "recheck"} => \A l \in Layers : k.snap[l].ver <= n
  /\ k.pc \in {"migrate", "verify"} => k.loaded.ver = k.snap[k.at].ver
  /\ k.pc \in {"layer", "migrate", "verify", "loaded"} =>
       \E v \in S : \E N \in Nat : N <= n /\ Witness(S, t, c, k, v, N)

Paths == [Layers -> Files \cup {0}]
Views == [paths : Paths, says : [Layers -> -1..setting.writes + setting.external]]

Bounds ==
  /\ setting \in Settings
  /\ writes <= setting.writes /\ external <= setting.external
  /\ timeouts \in Nat /\ timeouts <= setting.timeouts
  /\ result \in [Readers -> Results]
  /\ \A f \in Files : content[f].ver <= Total

Busy(p) == load[p].pc \notin {"idle", "writing"}

Watched ==
  /\ seen \in [Readers -> SUBSET Views]
  /\ \A p \in Readers : Busy(p) => View(target[p], content) \in seen[p]

VInv ==
  /\ Bounds
  /\ Watched
  /\ \A p \in Readers : Faithful(seen[p], target[p], content, Total, load[p])

-------------------------------------------------------------------------------
(* What holds of the views as time passes *)

LEMMA SettingOK == ASSUME setting \in Settings
                   PROVE  /\ setting.writes \in Nat /\ setting.external \in Nat
                          /\ setting.timeouts \in Nat
  BY LayeredConstantsOK DEF LayeredConstantsOK

LEMMA ViewOK ==
  ASSUME setting \in Settings, writes <= setting.writes, external <= setting.external,
         writes \in Nat, external \in Nat,
         NEW t \in Paths, content \in [Files -> Contents],
         \A f \in Files : content[f].ver <= Total
  PROVE  View(t, content) \in Views /\ View(t, content).paths = t
  <1>1. setting.writes \in Nat /\ setting.external \in Nat
    BY SettingOK
  <1>2. \A f \in Files : content[f].ver \in Nat /\ content[f].ver <= setting.writes + setting.external
    BY <1>1 DEF Contents, Total
  <1>3. \A l \in Layers : (IF t[l] = 0 THEN -1 ELSE content[t[l]].ver)
                            \in -1..setting.writes + setting.external
    BY <1>1, <1>2 DEF Paths
  <1> QED
    BY <1>3 DEF View, Views

\* A file that changes gets a version that no file has had.
Newer(c, d, n) == \A f \in Files : d[f].ver = c[f].ver \/ d[f].ver > n

\* A layer that stays in place is the file it was when the load found it.
LEMMA SamePlace ==
  ASSUME NEW S, NEW t, NEW c, NEW k \in Loads, NEW l \in Present(k.srcs),
         View(t, c) \in S, \E v \in S : v.paths = k.srcs, Still(S, l)
  PROVE  t[l] = k.srcs[l] /\ t[l] \in Files
  <1>1. View(t, c).paths = t
    BY DEF View
  <1>2. t[l] = k.srcs[l]
    BY <1>1 DEF Still
  <1> QED
    BY <1>2 DEF Present, Loads

LEMMA Meanwhile ==
  ASSUME NEW S, NEW S2, S \subseteq S2, NEW t, NEW t2, NEW c \in [Files -> Contents],
         NEW d \in [Files -> Contents], NEW n \in Nat, NEW m \in Nat, n <= m, Newer(c, d, n),
         NEW k \in Loads, k.pc \notin {"idle", "writing"} => View(t, c) \in S /\ View(t2, d) \in S2,
         Faithful(S, t, c, n, k)
  PROVE  Faithful(S2, t2, d, m, k)
  <1>1. \A l : Still(S2, l) => Still(S, l)
    BY DEF Still
  <1>2. k.pc \in {"snapshot", "relock", "acquire", "recheck"} => \A l \in Layers : k.snap[l].ver <= m
    BY DEF Faithful, Loads, Contents, Absent
  <1>3. ASSUME k.pc \in {"layer", "migrate", "verify", "loaded"}
        PROVE  \E v \in S2 : \E N \in Nat : N <= m /\ Witness(S2, t2, d, k, v, N)
    <2>1. PICK v \in S : \E N \in Nat : N <= n /\ Witness(S, t, c, k, v, N)
      BY <1>3 DEF Faithful
    <2>2. PICK N \in Nat : N <= n /\ Witness(S, t, c, k, v, N)
      BY <2>1
    <2>3. ASSUME NEW l \in Present(k.srcs), Still(S2, l), d[t2[l]].ver <= N
          PROVE  v.says[l] = d[t2[l]].ver
      <3>1. \E w \in S : w.paths = k.srcs
        BY <1>3 DEF Faithful
      <3>2. t[l] = k.srcs[l] /\ t2[l] = k.srcs[l] /\ k.srcs[l] \in Files
        BY <1>1, <1>3, <2>3, <3>1, SamePlace
      <3>3. d[t2[l]].ver \in Nat
        BY <3>2 DEF Contents
      <3>4. d[t2[l]].ver = c[t[l]].ver
        BY <2>2, <2>3, <3>2, <3>3 DEF Newer
      <3> QED
        BY <1>1, <2>2, <2>3, <3>4 DEF Witness
    <2>4. Witness(S2, t2, d, k, v, N)
      BY <1>1, <2>2, <2>3 DEF Witness
    <2>5. N <= m
      BY <2>2
    <2> QED
      BY <2>1, <2>4, <2>5
  <1> QED
    BY <1>2, <1>3 DEF Faithful

\* A process that is not loading.
LEMMA AtRest == ASSUME NEW S, NEW t, NEW c, NEW n, NEW k, k.pc \in {"idle", "writing"}
                PROVE  Faithful(S, t, c, n, k)
  BY DEF Faithful

-------------------------------------------------------------------------------
(* Steps *)

\* A step of one process that changes no file.
LEMMA QuietStep ==
  ASSUME IInv, IInv', VInv, NEW p \in Procs, NEW k \in Loads, Goes(p, k),
         UNCHANGED <<setting, content, target, writes, external>>,
         result' \in [Readers -> Results], timeouts' \in Nat, timeouts' <= setting.timeouts,
         NEW S, S \subseteq Views,
         IF p \in Readers THEN seen' = [seen EXCEPT ![p] = S] ELSE seen' = seen,
         p \in Readers => /\ k.pc \notin {"idle", "writing"} => View(target[p], content) \in S
                          /\ Faithful(S, target[p], content, Total, k)
  PROVE  VInv'
  <1>1. seen \in [Readers -> SUBSET Views] /\ load \in [Procs -> Loads]
    BY DEF VInv, Watched, IInv, Types
  <1>2. load'[p] = k /\ \A q \in Procs \ {p} : load'[q] = load[q]
    BY <1>1 DEF Goes
  <1>3. Total' = Total /\ Views' = Views
    BY DEF Total, Views
  <1>4. seen' \in [Readers -> SUBSET Views]
    BY <1>1
  <1>5. Bounds'
    BY <1>3 DEF VInv, Bounds
  <1>6. ASSUME NEW q \in Readers
        PROVE  /\ Busy(q)' => View(target[q], content) \in seen'[q]
               /\ Faithful(seen'[q], target[q], content, Total, load'[q])
    <2>1. CASE q = p
      BY <1>1, <1>2, <2>1 DEF Busy
    <2>2. CASE q # p
      <3>1. q \in Procs /\ seen'[q] = seen[q] /\ load'[q] = load[q]
        BY <1>1, <1>2, <2>2 DEF Readers, Procs
      <3> QED
        BY <3>1 DEF VInv, Watched, Busy
    <2> QED
      BY <2>1, <2>2
  <1>7. Watched'
    BY <1>3, <1>4, <1>6 DEF Watched, View
  <1> QED
    BY <1>3, <1>5, <1>6, <1>7 DEF VInv

\* A load that goes on, one that ends.
LEMMA ViewGoesOn ==
  ASSUME IInv, IInv', VInv, NEW p \in Readers, NEW k \in Loads, Goes(p, k),
         UNCHANGED <<setting, content, target, writes, external, result, seen>>,
         timeouts' \in Nat, timeouts' <= setting.timeouts, Busy(p),
         Faithful(seen[p], target[p], content, Total, k)
  PROVE  VInv'
  <1>1. p \in Procs /\ seen[p] \subseteq Views /\ seen' = [seen EXCEPT ![p] = seen[p]]
    BY DEF Procs, VInv, Watched
  <1>2. View(target[p], content) \in seen[p] /\ result' \in [Readers -> Results]
    BY DEF VInv, Watched, Bounds
  <1> QED
    BY <1>1, <1>2, QuietStep

LEMMA ViewEnds ==
  ASSUME IInv, IInv', VInv, NEW p \in Readers, NEW how \in Results, Ends(p, how),
         UNCHANGED <<setting, content, target, writes, external>>,
         timeouts' \in Nat, timeouts' <= setting.timeouts
  PROVE  VInv'
  <1>1. p \in Procs /\ Goes(p, NoLoad) /\ seen' = [seen EXCEPT ![p] = {}]
        /\ result' = [result EXCEPT ![p] = how]
    BY DEF Procs, Ends, Releases
  <1>2. result' \in [Readers -> Results]
    BY <1>1 DEF VInv, Bounds
  <1>3. NoLoad \in Loads /\ NoLoad.pc = "idle"
    BY NoLoadOK
  <1>4. Faithful({}, target[p], content, Total, NoLoad)
    BY <1>3, AtRest
  <1> QED
    BY <1>1, <1>2, <1>3, <1>4, QuietStep

LEMMA TotalOK == /\ writes \in Nat /\ external \in Nat => Total \in Nat
                 /\ writes' \in Nat /\ external' \in Nat => Total' \in Nat
  BY DEF Total

\* The world moves on: a file is replaced or a path is pointed elsewhere.
LEMMA WorldStep ==
  ASSUME IInv, IInv', VInv, Newer(content, content', Total), Seen(target', content'),
         UNCHANGED setting, Total <= Total',
         writes' <= setting.writes, external' <= setting.external,
         \A f \in Files : content'[f].ver <= Total',
         result' \in [Readers -> Results], timeouts' \in Nat, timeouts' <= setting.timeouts,
         \A q \in Readers : load'[q] = load[q] \/ load'[q] = NoLoad
                            \/ /\ load[q].pc # "idle"
                               /\ load'[q].pc \notin {"idle", "writing"} => Busy(q)
                               /\ \A S, t, d, m : Faithful(S, t, d, m, load[q]) =>
                                                    Faithful(S, t, d, m, load'[q])
  PROVE  VInv'
  <1>1. /\ seen \in [Readers -> SUBSET Views] /\ load \in [Procs -> Loads]
        /\ setting \in Settings /\ Total \in Nat /\ Total' \in Nat
        /\ content \in [Files -> Contents] /\ content' \in [Files -> Contents]
        /\ target \in [Readers -> Paths] /\ target' \in [Readers -> Paths]
        /\ writes' \in Nat /\ external' \in Nat
    <2>1. seen \in [Readers -> SUBSET Views] /\ setting \in Settings
      BY DEF VInv, Watched, Bounds
    <2>2. Types /\ Types'
      BY DEF IInv
    <2>3. writes \in Nat /\ external \in Nat /\ writes' \in Nat /\ external' \in Nat
      BY <2>2 DEF Types
    <2>4. Total \in Nat /\ Total' \in Nat
      BY <2>3, TotalOK
    <2> QED
      BY <2>1, <2>2, <2>3, <2>4 DEF Types, Paths
  <1>2. Views' = Views
    BY DEF Views
  <1>3. \A q \in Readers : View(target'[q], content') \in Views
    <2> SUFFICES ASSUME NEW q \in Readers
                 PROVE  View(target'[q], content') \in Views
      OBVIOUS
    <2>1. setting.writes \in Nat /\ setting.external \in Nat
      BY <1>1, SettingOK
    <2>2. \A f \in Files : content'[f].ver \in Nat
                           /\ content'[f].ver <= setting.writes + setting.external
      BY <1>1, <2>1 DEF Contents, Total
    <2>3. \A l \in Layers : (IF target'[q][l] = 0 THEN -1 ELSE content'[target'[q][l]].ver)
                              \in -1..setting.writes + setting.external
      BY <1>1, <2>1, <2>2 DEF Paths
    <2>4. target'[q] \in Paths
      BY <1>1
    <2> QED
      BY <2>3, <2>4 DEF View, Views
  <1>4. /\ seen' \in [Readers -> SUBSET Views]
        /\ \A q \in Readers : seen'[q] = IF load[q].pc = "idle" THEN {}
                                         ELSE seen[q] \cup {View(target'[q], content')}
    BY <1>1, <1>3 DEF Seen
  <1>5. ASSUME NEW q \in Readers
        PROVE  /\ Busy(q)' => View(target'[q], content') \in seen'[q]
               /\ Faithful(seen'[q], target'[q], content', Total', load'[q])
    <2>1. CASE load'[q] = NoLoad
      BY <2>1, AtRest, NoLoadOK DEF Busy
    <2>2. CASE load[q].pc = "idle" /\ load'[q] = load[q]
      BY <2>2, AtRest DEF Busy
    <2>3. CASE load[q].pc # "idle"
      <3>1. seen[q] \subseteq seen'[q] /\ View(target'[q], content') \in seen'[q]
        BY <1>4, <2>3
      <3>2. q \in Procs /\ load[q] \in Loads
        BY <1>1 DEF Readers, Procs
      <3>3. load[q].pc \notin {"idle", "writing"} => View(target[q], content) \in seen[q]
        BY DEF VInv, Watched, Busy
      <3>4. Faithful(seen[q], target[q], content, Total, load[q])
        BY DEF VInv
      <3>5. Faithful(seen'[q], target'[q], content', Total', load[q])
        <4> DEFINE S == seen[q]
                   S2 == seen'[q]
                   t == target[q]
                   t2 == target'[q]
                   k == load[q]
                   n == Total
                   m == Total'
                   d == content'
                   c == content
        <4>1. /\ S \subseteq S2 /\ n \in Nat /\ m \in Nat /\ n <= m
              /\ c \in [Files -> Contents] /\ d \in [Files -> Contents] /\ Newer(c, d, n)
              /\ k \in Loads
              /\ k.pc \notin {"idle", "writing"} => View(t, c) \in S /\ View(t2, d) \in S2
              /\ Faithful(S, t, c, n, k)
          BY <1>1, <3>1, <3>2, <3>3, <3>4
        <4> HIDE DEF S, S2, t, t2, k, n, m, d, c
        <4>2. Faithful(S2, t2, d, m, k)
          BY <4>1, Meanwhile
        <4> QED
          BY <4>2 DEF S2, t2, k, m, d
      <3>6. Faithful(seen'[q], target'[q], content', Total', load'[q])
        <4>1. CASE load'[q] = load[q]
          BY <3>5, <4>1
        <4>2. CASE \A S, t, d, m : Faithful(S, t, d, m, load[q]) => Faithful(S, t, d, m, load'[q])
          BY <3>5, <4>2
        <4> QED
          BY <2>1, <4>1, <4>2, AtRest, NoLoadOK
      <3> QED
        BY <3>1, <3>6
    <2> QED
      BY <2>1, <2>2, <2>3
  <1>6. Bounds'
    BY <1>1 DEF VInv, Bounds
  <1>7. Watched'
    BY <1>2, <1>4, <1>5 DEF Watched, View
  <1> QED
    BY <1>5, <1>6, <1>7 DEF VInv

-------------------------------------------------------------------------------
(* Each step *)

\* What is known of a reader in the middle of a load.
LEMMA Loading ==
  ASSUME IInv, VInv, NEW p \in Procs, Busy(p)
  PROVE  /\ p \in Readers /\ load[p] \in Loads /\ Shape(load[p])
         /\ target[p] \in [Layers -> Files \cup {0}]
         /\ Faithful(seen[p], target[p], content, Total, load[p])
         /\ View(target[p], content) \in seen[p]
         /\ timeouts \in Nat /\ timeouts <= setting.timeouts
         /\ Total \in Nat
  <1>1. p \in Readers /\ load[p] \in Loads /\ Shape(load[p])
        /\ target[p] \in [Layers -> Files \cup {0}]
    BY Known DEF Busy
  <1>2. Total \in Nat
    BY DEF IInv, Types, Total
  <1>3. Watched /\ Bounds /\ Faithful(seen[p], target[p], content, Total, load[p])
    BY <1>1 DEF VInv
  <1> QED
    BY <1>1, <1>2, <1>3 DEF Watched, Bounds

LEMMA BeginView ==
  ASSUME IInv, IInv', VInv, NEW p \in Readers, NEW held \in Files \cup {0}, Begin(p, held),
         UNCHANGED <<setting, content, target, writes, external, timeouts>>
  PROVE  VInv'
  <1> DEFINE t == target[p]
             n == [NoLoad EXCEPT !.pc = "snapshot", !.heldFor = held, !.srcs = t,
                                 !.at = Min(Present(t))]
             S == {View(t, content)}
  <1>1. p \in Procs /\ t \in Paths /\ Present(t) # {}
    BY DEF Procs, IInv, Types, Begin, Paths
  <1>2. Min(Present(t)) \in Layers
    BY <1>1, FirstOK DEF Present, Paths
  <1>3. Goes(p, n) /\ result' = [result EXCEPT ![p] = "none"] /\ seen' = [seen EXCEPT ![p] = S]
    BY DEF Begin
  <1>4. Bounds /\ Types /\ result' \in [Readers -> Results]
    BY <1>3 DEF VInv, Bounds, IInv, Results
  <1> HIDE DEF t
  <1>5. n \in Loads /\ n.pc = "snapshot" /\ n.srcs = t /\ n.snap = NoneRead
    BY <1>1, <1>2, NoLoadOK DEF Loads, Steps, Paths, NoLoad
  <1>6. View(t, content) \in Views /\ View(t, content).paths = t
    BY <1>1, <1>4, ViewOK DEF Bounds, Types
  <1> HIDE DEF n
  <1>7. Faithful(S, t, content, Total, n)
    <2>1. \A l \in Layers : n.snap[l].ver <= Total
      BY <1>4, <1>5 DEF NoneRead, Absent, Types, Total
    <2> QED
      BY <1>5, <1>6, <2>1 DEF Faithful
  <1>8. timeouts' \in Nat /\ timeouts' <= setting.timeouts
    BY <1>4 DEF Bounds
  <1> QED
    <2>1. S \subseteq Views /\ View(target[p], content) \in S
      BY <1>6 DEF t
    <2>2. Faithful(S, target[p], content, Total, n)
      BY <1>7 DEF t
    <2> HIDE DEF S
    <2> QED
      BY <1>1, <1>3, <1>4, <1>5, <1>8, <2>1, <2>2, QuietStep

LEMMA StartView ==
  ASSUME IInv, IInv', VInv, NEW p \in Procs, StartLoad(p) \/ StartPolicy(p) PROVE VInv'
  <1>1. p \in Readers /\ UNCHANGED <<setting, content, target, writes, external, timeouts>>
    BY DEF StartLoad, StartPolicy, Readers
  <1>2. CASE StartLoad(p)
    BY <1>1, <1>2, BeginView DEF StartLoad
  <1>3. CASE StartPolicy(p)
    <2>1. Begin(p, target[p][Min(Present(target[p]))])
      BY <1>3 DEF StartPolicy
    <2>2. target[p] \in [Layers -> Files \cup {0}] /\ Present(target[p]) # {}
      BY <1>1, <2>1 DEF IInv, Types, Begin
    <2>3. target[p][Min(Present(target[p]))] \in Files
      BY <2>2, FirstOK DEF Present
    <2> QED
      BY <1>1, <2>1, <2>3, BeginView
  <1> QED
    BY <1>2, <1>3

LEMMA SnapshotView ==
  ASSUME IInv, IInv', VInv, NEW p \in Procs, Snapshot(p) PROVE VInv'
  <1> DEFINE k == load[p]
             f == target[p][k.at]
             s == [k EXCEPT !.snap[k.at] = content[f]]
             n == IF IsLast(k) THEN [s EXCEPT !.pc = "layer", !.at = First(k)]
                               ELSE [s EXCEPT !.at = Following(k)]
             S == seen[p]
             t == target[p]
  <1>1. k.pc = "snapshot" /\ Busy(p)
        /\ UNCHANGED <<setting, content, target, writes, external, timeouts>>
    BY DEF Snapshot, At, Busy
  <1>2. /\ p \in Readers /\ k \in Loads /\ k.at \in Present(k.srcs) /\ t \in [Layers -> Files \cup {0}]
        /\ Faithful(S, t, content, Total, k) /\ View(t, content) \in S
        /\ timeouts' \in Nat /\ timeouts' <= setting.timeouts /\ Total \in Nat
    BY <1>1, Loading DEF Shape
  <1>3. CASE f = 0
    BY <1>1, <1>2, <1>3, ViewEnds DEF Snapshot, Results
  <1>4. CASE f # 0
    <2>1. Goes(p, n) /\ UNCHANGED <<result, seen>>
      BY <1>4 DEF Snapshot
    <2>2. f \in Files /\ content[f] \in Contents /\ k.at \in Layers
      BY <1>2, <1>4 DEF Present, IInv, Types, Loads
    <2>3. s \in Loads /\ s.srcs = k.srcs /\ s.pc = "snapshot" /\ s.merged = k.merged
          /\ s.snap = [k.snap EXCEPT ![k.at] = content[f]]
      BY <1>1, <1>2, <2>2 DEF Loads
    <2>4. /\ IsLast(k) => First(k) \in Present(k.srcs) /\ \A l \in Present(k.srcs) : ~(l < First(k))
          /\ ~IsLast(k) => Following(k) \in Present(k.srcs)
      <3>1. k.srcs \in [Layers -> Files \cup {0}] /\ Present(k.srcs) \subseteq Nat
        BY <1>2, PresentOK DEF Loads
      <3>2. First(k) \in Present(k.srcs) /\ \A l \in Present(k.srcs) : First(k) <= l
        BY <1>2, LeastOK
      <3>3. \A l \in Present(k.srcs) : ~(l < First(k))
        BY <3>1, <3>2
      <3> QED
        BY <1>2, <3>2, <3>3, FollowingOK
    <2>5. \A f2 \in Files : content[f2].ver <= Total
      BY DEF VInv, Bounds
    <2> HIDE DEF s
    <2>6. n \in Loads /\ n.srcs = k.srcs /\ n.snap = s.snap
          /\ n.pc = (IF IsLast(k) THEN "layer" ELSE "snapshot")
          /\ n.at = IF IsLast(k) THEN First(k) ELSE Following(k)
      <3>1. Present(k.srcs) \subseteq Layers
        BY DEF Present
      <3> HIDE DEF k
      <3> QED
        BY <2>3, <2>4, <3>1 DEF Loads, Steps
    <2> HIDE DEF n, k, t, S, f
    <2>7. \A l \in Layers : n.snap[l].ver <= Total
      BY <1>1, <1>2, <2>2, <2>3, <2>5, <2>6 DEF Faithful, Loads
    <2>8. \E v \in S : v.paths = n.srcs
      BY <1>1, <1>2, <2>6 DEF Faithful
    <2>9. Faithful(S, t, content, Total, n)
      <3>1. CASE IsLast(k)
        <4> DEFINE v == View(t, content)
        <4>1. \A l \in Present(n.srcs) : Still(S, l) => t[l] \in Files
          BY <1>1, <1>2, <2>6, SamePlace DEF Faithful
        <4>2. \A l \in Present(n.srcs) : l \in Layers
          BY DEF Present
        <4>3. \A l \in Present(n.srcs) : Still(S, l) => v.says[l] = content[t[l]].ver
          BY <4>1, <4>2, NoFile DEF View
        <4> HIDE DEF v
        <4>4. Witness(S, t, content, n, v, Total)
          BY <2>4, <2>6, <2>7, <3>1, <4>2, <4>3 DEF Witness
        <4> QED
          BY <1>2, <2>6, <2>8, <3>1, <4>4 DEF Faithful, v
      <3>2. CASE ~IsLast(k)
        BY <2>6, <2>7, <2>8, <3>2 DEF Faithful
      <3> QED
        BY <3>1, <3>2
    <2> QED
      BY <1>1, <1>2, <2>1, <2>6, <2>9, ViewGoesOn DEF t, S
  <1> QED
    BY <1>3, <1>4

\* What was merged and read before stays as it is.
LEMMA SameRead ==
  ASSUME NEW S, NEW t, NEW c, NEW n, NEW k, NEW j,
         k.pc \in {"layer", "migrate", "verify"}, j.pc \in {"layer", "migrate", "verify"},
         j.srcs = k.srcs, j.snap = k.snap, j.at = k.at, j.merged = k.merged,
         j.pc \in {"migrate", "verify"} => j.loaded.ver = k.snap[k.at].ver,
         Faithful(S, t, c, n, k)
  PROVE  Faithful(S, t, c, n, j)
  <1>1. PICK v \in S : \E N \in Nat : N <= n /\ Witness(S, t, c, k, v, N)
    BY DEF Faithful
  <1>2. PICK N \in Nat : N <= n /\ Witness(S, t, c, k, v, N)
    BY <1>1
  <1>3. Witness(S, t, c, j, v, N)
    BY <1>2 DEF Witness
  <1>4. \E w \in S : w.paths = j.srcs
    BY DEF Faithful
  <1> QED
    BY <1>2, <1>3, <1>4 DEF Faithful

LEMMA LoadLayerView ==
  ASSUME IInv, IInv', VInv, NEW p \in Procs, LoadLayer(p) PROVE VInv'
  <1> DEFINE k == load[p]
             s == k.snap[k.at]
             n == [k EXCEPT !.loaded = s, !.ident = target[p][k.at],
                            !.pc = IF s.plain /\ p \notin Mutators THEN "migrate" ELSE "verify"]
  <1>1. k.pc = "layer" /\ Busy(p)
        /\ UNCHANGED <<setting, content, target, writes, external, timeouts>>
    BY DEF LoadLayer, At, Busy
  <1>2. /\ p \in Readers /\ k \in Loads /\ k.at \in Present(k.srcs)
        /\ target[p] \in [Layers -> Files \cup {0}]
        /\ Faithful(seen[p], target[p], content, Total, k)
        /\ timeouts' \in Nat /\ timeouts' <= setting.timeouts
    BY <1>1, Loading DEF Shape
  <1>3. CASE target[p][k.at] = 0
    BY <1>1, <1>2, <1>3, ViewEnds DEF LoadLayer, Results
  <1>4. CASE target[p][k.at] # 0
    <2>1. Goes(p, n) /\ UNCHANGED <<result, seen>>
      BY <1>4 DEF LoadLayer
    <2>2. k.at \in Layers
      BY <1>2 DEF Present
    <2>3. target[p][k.at] \in Files \cup {0} /\ s \in Contents \cup {Absent}
      BY <1>2, <2>2 DEF Loads
    <2> HIDE DEF s
    <2>4. /\ n \in Loads /\ n.pc \in {"migrate", "verify"} /\ n.loaded = s
          /\ n.srcs = k.srcs /\ n.snap = k.snap /\ n.at = k.at /\ n.merged = k.merged
      <3> HIDE DEF k
      <3> QED
        BY <1>2, <2>3 DEF Loads, Steps
    <2> HIDE DEF n, k
    <2>5. Faithful(seen[p], target[p], content, Total, n)
      BY <1>1, <1>2, <2>4, SameRead DEF s
    <2> QED
      BY <1>1, <1>2, <2>1, <2>4, <2>5, ViewGoesOn
  <1> QED
    BY <1>3, <1>4

LEMMA MigrateView ==
  ASSUME IInv, IInv', VInv, NEW p \in Procs, MigrateLayer(p) PROVE VInv'
  <1> DEFINE k == load[p]
             f == k.ident
             c == [k.snap[k.at] EXCEPT !.plain = FALSE]
             done == HeldFor(k) \in {0, f} /\ target[p][k.at] = f /\ content[f] = k.snap[k.at]
  <1>1. k.pc = "migrate" /\ Busy(p)
        /\ UNCHANGED <<setting, target, lock, result, writes, external, timeouts>>
    BY DEF MigrateLayer, At, Busy
  <1>2. /\ p \in Readers /\ k \in Loads /\ k.at \in Present(k.srcs) /\ f \in Files
        /\ Faithful(seen[p], target[p], content, Total, k)
        /\ timeouts' \in Nat /\ timeouts' <= setting.timeouts /\ Total \in Nat
    BY <1>1, Loading DEF Shape
  <1>3. k.at \in Layers
    BY <1>2 DEF Present
  <1>4. CASE done
    <2> DEFINE n == [k EXCEPT !.pc = "verify", !.loaded = c]
    <2>1. Stores(f, c) /\ Goes(p, n)
      BY <1>4 DEF MigrateLayer
    <2>2. content[f] \in Contents /\ content \in [Files -> Contents]
      BY <1>2 DEF IInv, Types
    <2>3. c.ver = content[f].ver /\ c \in Contents
      BY <1>4, <2>2 DEF Contents
    <2>4. n \in Loads /\ n.pc = "verify" /\ n.loaded = c /\ n.srcs = k.srcs /\ n.snap = k.snap
          /\ n.at = k.at /\ n.merged = k.merged
      <3> HIDE DEF k, c
      <3> QED
        BY <1>2, <2>3 DEF Loads, Steps
    <2>5. content' = [content EXCEPT ![f] = c] /\ Seen(target, content')
      BY <2>1 DEF Stores
    <2>6. Seen(target', content')
      BY <1>1, <2>5
    <2>7. \A g \in Files : content'[g].ver = content[g].ver
      BY <2>2, <2>3, <2>5
    <2>8. Newer(content, content', Total)
      BY <2>7 DEF Newer
    <2>9. n.loaded.ver = k.snap[k.at].ver
      BY <1>4, <2>3, <2>4
    <2> HIDE DEF n, k
    <2>10. ASSUME NEW S, NEW t, NEW d, NEW m, Faithful(S, t, d, m, k)
           PROVE  Faithful(S, t, d, m, n)
      <3>1. /\ k.pc \in {"layer", "migrate", "verify"} /\ n.pc \in {"layer", "migrate", "verify"}
            /\ n.srcs = k.srcs /\ n.snap = k.snap /\ n.at = k.at /\ n.merged = k.merged
            /\ n.pc \in {"migrate", "verify"} => n.loaded.ver = k.snap[k.at].ver
        BY <1>1, <2>4, <2>9
      <3> QED
        BY <2>10, <3>1, SameRead
    <2>11. load \in [Procs -> Loads]
      BY DEF IInv, Types
    <2>12. \A q \in Readers : load'[q] = load[q] \/ (q = p /\ load'[q] = n)
      BY <2>1, <2>11 DEF Goes, Procs, Readers
    <2>13. Total' = Total
      BY <1>1 DEF Total
    <2>14. /\ writes' <= setting.writes /\ external' <= setting.external
           /\ \A g \in Files : content'[g].ver <= Total'
           /\ result' \in [Readers -> Results]
      BY <1>1, <2>7, <2>13 DEF VInv, Bounds
    <2>15. Total <= Total'
      BY <1>2, <2>13
    <2>16. \A q \in Readers : load'[q] = load[q] \/ load'[q] = NoLoad
                               \/ /\ load[q].pc # "idle"
                                  /\ load'[q].pc \notin {"idle", "writing"} => Busy(q)
                                  /\ \A S, t, d, m : Faithful(S, t, d, m, load[q]) =>
                                                       Faithful(S, t, d, m, load'[q])
      BY <1>1, <2>10, <2>12 DEF k
    <2> HIDE DEF c, f, done
    <2> QED
      BY <1>1, <1>2, <2>6, <2>8, <2>14, <2>15, <2>16, WorldStep
  <1>5. CASE ~done
    <2> DEFINE n == [k EXCEPT !.pc = "verify"]
    <2>1. Goes(p, n) /\ UNCHANGED <<content, seen>>
      BY <1>5 DEF MigrateLayer
    <2>2. n \in Loads /\ n.pc = "verify" /\ n.loaded = k.loaded /\ n.srcs = k.srcs
          /\ n.snap = k.snap /\ n.at = k.at /\ n.merged = k.merged
      BY <1>2 DEF Loads, Steps
    <2>3. k.loaded.ver = k.snap[k.at].ver
      BY <1>1, <1>2 DEF Faithful
    <2> HIDE DEF n, done, k
    <2>4. Faithful(seen[p], target[p], content, Total, n)
      BY <1>1, <1>2, <2>2, <2>3, SameRead
    <2> QED
      BY <1>1, <1>2, <2>1, <2>2, <2>4, ViewGoesOn
  <1> QED
    BY <1>4, <1>5

LEMMA MigrateTimesOutView ==
  ASSUME IInv, IInv', VInv, NEW p \in Procs, MigrateTimesOut(p) PROVE VInv'
  <1> DEFINE k == load[p]
             n == [k EXCEPT !.pc = "verify"]
  <1>1. k.pc = "migrate" /\ Busy(p) /\ Goes(p, n)
        /\ UNCHANGED <<setting, content, target, lock, result, writes, external, seen>>
        /\ timeouts < setting.timeouts /\ timeouts' = timeouts + 1
    BY DEF MigrateTimesOut, At, Busy
  <1>2. /\ p \in Readers /\ k \in Loads
        /\ Faithful(seen[p], target[p], content, Total, k)
        /\ timeouts \in Nat /\ setting \in Settings
    BY <1>1, Loading DEF VInv, Bounds
  <1>3. n \in Loads /\ n.pc = "verify" /\ n.loaded = k.loaded /\ n.srcs = k.srcs
        /\ n.snap = k.snap /\ n.at = k.at /\ n.merged = k.merged
    BY <1>2 DEF Loads, Steps
  <1>4. k.loaded.ver = k.snap[k.at].ver
    BY <1>1, <1>2 DEF Faithful
  <1> HIDE DEF n, k
  <1>5. Faithful(seen[p], target[p], content, Total, n)
    BY <1>1, <1>2, <1>3, <1>4, SameRead
  <1>6. timeouts' \in Nat /\ timeouts' <= setting.timeouts
    BY <1>1, <1>2, SettingOK
  <1> QED
    BY <1>1, <1>2, <1>3, <1>5, <1>6, ViewGoesOn

LEMMA VerifyView ==
  ASSUME IInv, IInv', VInv, NEW p \in Procs, Verify(p) PROVE VInv'
  <1> DEFINE k == load[p]
             t == target[p]
             S == seen[p]
             c == content[t[k.at]]
             w == [l \in Layers |->
                     IF k.locked /\ l > k.at /\ k.srcs[l] # 0 /\ k.srcs[l] = k.srcs[k.at]
                     THEN c ELSE k.snap[l]]
             s == [k EXCEPT !.merged[k.at] = k.loaded, !.snap = w]
             n == IF IsLast(k) THEN [s EXCEPT !.pc = "loaded"]
                               ELSE [s EXCEPT !.pc = "layer", !.at = Following(k)]
  <1>1. k.pc = "verify" /\ Busy(p) /\ t[k.at] # 0 /\ c = k.loaded
        /\ UNCHANGED <<setting, content, target, lock, result, writes, external, timeouts, seen>>
        /\ Goes(p, n)
    BY DEF Verify, At, Busy, Changed
  <1>2. /\ p \in Readers /\ k \in Loads /\ k.at \in Present(k.srcs)
        /\ t \in [Layers -> Files \cup {0}]
        /\ Faithful(S, t, content, Total, k)
        /\ timeouts' \in Nat /\ timeouts' <= setting.timeouts
    BY <1>1, Loading DEF Shape
  <1>3. k.at \in Layers /\ c \in Contents /\ Present(k.srcs) \subseteq Nat
        /\ Present(k.srcs) \subseteq Layers /\ t[k.at] \in Files
    <2>1. k.at \in Layers
      BY <1>2 DEF Present
    <2>2. t[k.at] \in Files
      BY <1>1, <1>2, <2>1
    <2>3. Present(k.srcs) \subseteq Nat /\ Present(k.srcs) \subseteq Layers
      BY <1>2, PresentOK DEF Loads, Present
    <2> QED
      BY <2>1, <2>2, <2>3 DEF IInv, Types
  <1>4. \A l \in Layers : w[l] = c \/ w[l] = k.snap[l]
    OBVIOUS
  <1>5. w \in [Layers -> Contents \cup {Absent}]
    BY <1>2, <1>3 DEF Loads
  <1> HIDE DEF w
  <1>6. s \in Loads /\ s.snap = w /\ s.srcs = k.srcs /\ s.at = k.at
        /\ s.merged = [k.merged EXCEPT ![k.at] = k.loaded]
    <2> HIDE DEF k
    <2> QED
      BY <1>2, <1>3, <1>5 DEF Loads
  <1> HIDE DEF s
  <1>7. ~IsLast(k) => Following(k) \in Present(k.srcs) /\ Following(k) \in Layers
    BY <1>2, <1>3, FollowingOK
  <1> HIDE DEF k
  <1>8. /\ n \in Loads /\ n.snap = w /\ n.srcs = k.srcs
        /\ n.merged = [k.merged EXCEPT ![k.at] = k.loaded]
        /\ n.pc = (IF IsLast(k) THEN "loaded" ELSE "layer")
        /\ ~IsLast(k) => n.at = Following(k)
    BY <1>6, <1>7 DEF Loads, Steps
  <1> HIDE DEF n, c
  <1>9. ASSUME NEW l \in Present(k.srcs), n.pc = "loaded" \/ l < n.at
        PROVE  l < k.at \/ l = k.at
    <2>1. l <= k.at
      BY <1>2, <1>8, <1>9, LastOK, NothingBetween
    <2> QED
      BY <1>2, <1>3, <2>1
  <1>10. PICK v \in S : \E N \in Nat : N <= Total /\ Witness(S, t, content, k, v, N)
    BY <1>1, <1>2 DEF Faithful
  <1>11. PICK N \in Nat : N <= Total /\ Witness(S, t, content, k, v, N)
    BY <1>10
  <1>12. c.ver <= N
    BY <1>1, <1>2, <1>11 DEF Faithful, Witness
  <1>13. ASSUME NEW l \in Present(k.srcs)
         PROVE  /\ n.snap[l].ver <= N
                /\ Still(S, l) => /\ content[t[l]].ver <= N => v.says[l] = content[t[l]].ver
                                  /\ n.pc = "loaded" \/ l < n.at => n.merged[l].ver = v.says[l]
    <2>1. n.snap[l].ver <= N
      BY <1>3, <1>4, <1>8, <1>11, <1>12 DEF Witness
    <2>2. Still(S, l) /\ content[t[l]].ver <= N => v.says[l] = content[t[l]].ver
      BY <1>11 DEF Witness
    <2>3. ASSUME Still(S, l), n.pc = "loaded" \/ l < n.at
          PROVE  n.merged[l].ver = v.says[l]
      <3>1. CASE l = k.at
        <4>1. n.merged[l] = c
          BY <1>1, <1>2, <1>3, <1>8, <3>1 DEF Loads
        <4> QED
          BY <1>12, <2>2, <2>3, <3>1, <4>1 DEF c
      <3>2. CASE l < k.at
        <4>1. n.merged[l] = k.merged[l]
          BY <1>2, <1>3, <1>8, <3>2 DEF Loads
        <4> QED
          BY <1>11, <2>3, <3>2, <4>1 DEF Witness
      <3> QED
        BY <1>9, <2>3, <3>1, <3>2
    <2> QED
      BY <2>1, <2>2, <2>3
  <1>14. Witness(S, t, content, n, v, N)
    BY <1>8, <1>13 DEF Witness
  <1>15. \E u \in S : u.paths = n.srcs
    BY <1>1, <1>2, <1>8 DEF Faithful
  <1>16. Faithful(S, t, content, Total, n)
    BY <1>8, <1>11, <1>14, <1>15 DEF Faithful
  <1> HIDE DEF S, t
  <1>17. Faithful(seen[p], target[p], content, Total, n)
    BY <1>16 DEF S, t
  <1> QED
    BY <1>1, <1>2, <1>8, <1>17, ViewGoesOn

LEMMA VerifyFailsView ==
  ASSUME IInv, IInv', VInv, NEW p \in Procs, VerifyFails(p) PROVE VInv'
  <1>1. Busy(p) /\ UNCHANGED <<setting, content, target, writes, external, timeouts>>
    BY DEF VerifyFails, At, Busy
  <1>2. p \in Readers /\ timeouts' \in Nat /\ timeouts' <= setting.timeouts
    BY <1>1, Loading
  <1>3. \E how \in {"vanished", "moved", "changed"} : Ends(p, how)
    BY DEF VerifyFails
  <1> QED
    BY <1>1, <1>2, <1>3, ViewEnds DEF Results

LEMMA ConflictView ==
  ASSUME IInv, IInv', VInv, NEW p \in Procs, Conflict(p) PROVE VInv'
  <1> DEFINE n == [NoLoad EXCEPT !.pc = "relock", !.heldFor = load[p].heldFor]
  <1>1. Busy(p) /\ Goes(p, n)
        /\ UNCHANGED <<setting, content, target, lock, result, writes, external, timeouts, seen>>
    BY DEF Conflict, At, Busy
  <1>2. p \in Readers /\ load[p] \in Loads /\ timeouts' \in Nat /\ timeouts' <= setting.timeouts
        /\ Total \in Nat
    BY <1>1, Loading
  <1>3. n \in Loads /\ n.pc = "relock" /\ n.snap = NoneRead
    BY <1>2, NoLoadOK DEF Loads, Steps, NoLoad
  <1> HIDE DEF n
  <1>4. Faithful(seen[p], target[p], content, Total, n)
    <2>1. \A l \in Layers : n.snap[l].ver <= Total
      BY <1>2, <1>3 DEF NoneRead, Absent
    <2> QED
      BY <1>3, <2>1 DEF Faithful
  <1> QED
    BY <1>1, <1>2, <1>3, <1>4, ViewGoesOn

LEMMA RelockView ==
  ASSUME IInv, IInv', VInv, NEW p \in Procs, Relock(p) PROVE VInv'
  <1> DEFINE k == load[p]
             t == target[p]
             n == [k EXCEPT !.pc = IF k.heldFor # 0 THEN "recheck" ELSE "acquire", !.srcs = t]
  <1>1. Busy(p) /\ k.pc = "relock" /\ UNCHANGED <<setting, content, target, writes, external, timeouts>>
    BY DEF Relock, At, Busy
  <1>2. /\ p \in Readers /\ k \in Loads /\ t \in [Layers -> Files \cup {0}]
        /\ Faithful(seen[p], t, content, Total, k)
        /\ View(t, content) \in seen[p]
        /\ timeouts' \in Nat /\ timeouts' <= setting.timeouts
    BY <1>1, Loading
  <1>3. CASE \E how \in {"vanished", "refused"} : Ends(p, how)
    BY <1>1, <1>2, <1>3, ViewEnds DEF Results
  <1>4. CASE Goes(p, n) /\ UNCHANGED <<result, seen>>
    <2>1. n \in Loads /\ n.pc \in {"recheck", "acquire"} /\ n.srcs = t /\ n.snap = k.snap
      <3> HIDE DEF k, t
      <3> QED
        BY <1>2 DEF Loads, Steps
    <2>2. View(t, content).paths = t
      BY DEF View
    <2> HIDE DEF n
    <2>3. Faithful(seen[p], t, content, Total, n)
      BY <1>1, <1>2, <2>1, <2>2 DEF Faithful
    <2> QED
      BY <1>1, <1>2, <1>4, <2>1, <2>3, ViewGoesOn
  <1> QED
    BY <1>3, <1>4 DEF Relock

LEMMA AcquireView ==
  ASSUME IInv, IInv', VInv, NEW p \in Procs, Acquire(p) PROVE VInv'
  <1> DEFINE k == load[p]
             n == [k EXCEPT !.mine = @ \cup {NextLock(k)},
                            !.pc = IF Wanted(k) = k.mine \cup {NextLock(k)}
                                   THEN "recheck" ELSE "acquire"]
  <1>1. Busy(p) /\ k.pc = "acquire" /\ Goes(p, n)
        /\ UNCHANGED <<setting, content, target, result, writes, external, timeouts, seen>>
    BY DEF Acquire, At, Busy
  <1>2. /\ p \in Readers /\ k \in Loads /\ Shape(k)
        /\ Faithful(seen[p], target[p], content, Total, k)
        /\ timeouts' \in Nat /\ timeouts' <= setting.timeouts
    BY <1>1, Loading
  <1>3. NextLock(k) \in Files
    BY <1>1, <1>2, NextLockOK
  <1> HIDE DEF k
  <1>4. n \in Loads /\ n.pc \in {"recheck", "acquire"} /\ n.srcs = k.srcs /\ n.snap = k.snap
    BY <1>2, <1>3 DEF Loads, Steps
  <1> HIDE DEF n
  <1>5. Faithful(seen[p], target[p], content, Total, n)
    BY <1>1, <1>2, <1>4 DEF Faithful
  <1> QED
    BY <1>1, <1>2, <1>4, <1>5, ViewGoesOn

LEMMA AcquireTimesOutView ==
  ASSUME IInv, IInv', VInv, NEW p \in Procs, AcquireTimesOut(p) PROVE VInv'
  <1>1. Busy(p) /\ timeouts < setting.timeouts /\ timeouts' = timeouts + 1
        /\ Ends(p, "timedOut") /\ UNCHANGED <<setting, content, target, writes, external>>
    BY DEF AcquireTimesOut, At, Busy
  <1>2. p \in Readers /\ timeouts \in Nat /\ setting.timeouts \in Nat
    BY <1>1, Loading, SettingOK DEF VInv, Bounds
  <1>3. timeouts' \in Nat /\ timeouts' <= setting.timeouts
    BY <1>1, <1>2
  <1> QED
    BY <1>1, <1>2, <1>3, ViewEnds DEF Results

LEMMA RecheckView ==
  ASSUME IInv, IInv', VInv, NEW p \in Procs, Recheck(p) PROVE VInv'
  <1> DEFINE k == load[p]
             n == [k EXCEPT !.pc = "snapshot", !.locked = TRUE, !.at = First(k)]
  <1>1. Busy(p) /\ k.pc = "recheck"
        /\ UNCHANGED <<setting, content, target, writes, external, timeouts>>
    BY DEF Recheck, At, Busy
  <1>2. /\ p \in Readers /\ k \in Loads /\ Present(k.srcs) # {}
        /\ Faithful(seen[p], target[p], content, Total, k)
        /\ timeouts' \in Nat /\ timeouts' <= setting.timeouts /\ Total \in Nat
    BY <1>1, Loading DEF Shape
  <1>3. CASE Ends(p, "moved")
    BY <1>1, <1>2, <1>3, ViewEnds DEF Results
  <1>4. CASE Goes(p, n) /\ UNCHANGED <<result, seen>>
    <2>1. First(k) \in Layers
      BY <1>2, LeastOK DEF Present
    <2> HIDE DEF k
    <2>2. n \in Loads /\ n.pc = "snapshot" /\ n.srcs = k.srcs /\ n.snap = k.snap
      BY <1>2, <2>1 DEF Loads, Steps
    <2> HIDE DEF n
    <2>3. \A l \in Layers : n.snap[l].ver <= Total
      BY <1>1, <1>2, <2>2 DEF Faithful
    <2>4. Faithful(seen[p], target[p], content, Total, n)
      BY <1>1, <1>2, <2>2, <2>3 DEF Faithful
    <2> QED
      BY <1>1, <1>2, <1>4, <2>2, <2>4, ViewGoesOn
  <1> QED
    BY <1>3, <1>4 DEF Recheck

LEMMA ReturnView ==
  ASSUME IInv, IInv', VInv, NEW p \in Procs, Return(p) PROVE VInv'
  <1>1. Busy(p) /\ Ends(p, "ok") /\ UNCHANGED <<setting, content, target, writes, external, timeouts>>
    BY DEF Return, At, Busy
  <1>2. p \in Readers /\ timeouts' \in Nat /\ timeouts' <= setting.timeouts
    BY <1>1, Loading
  <1> QED
    BY <1>1, <1>2, ViewEnds DEF Results


\* A file is replaced with what gcx or an editor writes next.
LEMMA StoresView ==
  ASSUME IInv, IInv', VInv, NEW f \in Files, NEW plain \in BOOLEAN, Stores(f, NextContent(plain)),
         UNCHANGED <<setting, target, timeouts>>, Total' = Total + 1,
         writes' <= setting.writes, external' <= setting.external,
         result' \in [Readers -> Results],
         \A q \in Readers : load'[q] = load[q] \/ load'[q] = NoLoad
  PROVE  VInv'
  <1>1. /\ Types /\ Bounds /\ content \in [Files -> Contents]
        /\ Total \in Nat /\ timeouts \in Nat /\ timeouts <= setting.timeouts
    BY TotalOK DEF IInv, Types, VInv, Bounds
  <1>2. content' = [content EXCEPT ![f] = NextContent(plain)] /\ NextContent(plain).ver = Total + 1
    BY DEF Stores, NextContent, Total
  <1>3. content'[f].ver = Total + 1 /\ \A g \in Files \ {f} : content'[g] = content[g]
    BY <1>1, <1>2
  <1>4. Newer(content, content', Total)
    <2> SUFFICES ASSUME NEW g \in Files
                 PROVE  content'[g].ver = content[g].ver \/ content'[g].ver > Total
      BY DEF Newer
    <2> QED
      BY <1>1, <1>3
  <1>5. \A g \in Files : content'[g].ver <= Total'
    <2>1. \A g \in Files : content[g].ver \in Nat /\ content[g].ver <= Total
      BY <1>1 DEF Bounds, Contents
    <2> QED
      BY <1>1, <1>3, <2>1
  <1>6. Seen(target', content')
    BY <1>2 DEF Stores
  <1>7. Total <= Total'
    BY <1>1
  <1> QED
    BY <1>1, <1>4, <1>5, <1>6, <1>7, WorldStep

LEMMA WritePolicyView ==
  ASSUME IInv, IInv', VInv, NEW p \in Procs, WritePolicy(p) PROVE VInv'
  <1> DEFINE k == load[p]
             m == k.merged[First(k)]
  <1>1. Busy(p) /\ UNCHANGED <<setting, target, external, timeouts>>
    BY DEF WritePolicy, At, Busy
  <1>2. p \in Readers /\ timeouts' \in Nat /\ timeouts' <= setting.timeouts
    BY <1>1, Loading
  <1>3. CASE Ends(p, "refused") /\ UNCHANGED <<content, writes>>
    BY <1>1, <1>2, <1>3, ViewEnds DEF Results
  <1>4. CASE /\ content[k.heldFor] = m
             /\ writes < setting.writes
             /\ writes' = writes + 1
             /\ Stores(k.heldFor, NextContent(m.plain))
             /\ Releases(p, "ok")
    <2>1. k.heldFor \in Files /\ m.plain \in BOOLEAN
      BY <1>4, PolicyOK DEF WritePolicy
    <2>2. load' = [load EXCEPT ![p] = NoLoad] /\ result' = [result EXCEPT ![p] = "ok"]
      BY <1>4 DEF Releases, Goes
    <2> HIDE DEF k, m
    <2>3. Types /\ Bounds
      BY DEF IInv, VInv
    <2>4. result' \in [Readers -> Results] /\ \A q \in Readers : load'[q] = load[q] \/ load'[q] = NoLoad
      BY <1>2, <2>2, <2>3 DEF Bounds, Types, Readers, Procs, Results
    <2>5. /\ writes' <= setting.writes /\ external' <= setting.external
          /\ Total' = Total + 1
      BY <1>1, <1>4, <2>3, SettingOK DEF Bounds, Types, Total
    <2> QED
      BY <1>1, <1>4, <2>1, <2>4, <2>5, StoresView
  <1> QED
    BY <1>3, <1>4 DEF WritePolicy

LEMMA WriterLocksView ==
  ASSUME IInv, IInv', VInv, NEW w \in Writers, NEW f \in Files, WriterLocks(w, f) PROVE VInv'
  <1> DEFINE n == [NoLoad EXCEPT !.pc = "writing", !.heldFor = f]
  <1>1. /\ w \in Procs /\ Goes(w, n)
        /\ UNCHANGED <<setting, content, target, result, writes, external, timeouts, seen>>
    BY DEF WriterLocks, Procs
  <1>2. n \in Loads /\ n.pc = "writing"
    BY NoLoadOK DEF Loads, Steps, NoLoad
  <1> HIDE DEF n
  <1>3. Bounds /\ seen \in [Readers -> SUBSET Views]
    BY DEF VInv, Watched
  <1>4. result' \in [Readers -> Results] /\ timeouts' \in Nat /\ timeouts' <= setting.timeouts
    BY <1>1, <1>3 DEF Bounds
  <1> DEFINE S == IF w \in Readers THEN seen[w] ELSE {}
  <1>5. S \subseteq Views /\ IF w \in Readers THEN seen' = [seen EXCEPT ![w] = S] ELSE seen' = seen
    BY <1>1, <1>3
  <1> HIDE DEF S
  <1>6. Faithful(S, target[w], content, Total, n)
    BY <1>2, AtRest
  <1> QED
    BY <1>1, <1>2, <1>4, <1>5, <1>6, QuietStep

LEMMA WriterWritesView ==
  ASSUME IInv, IInv', VInv, NEW w \in Procs, NEW plain \in BOOLEAN, WriterWrites(w, plain)
  PROVE  VInv'
  <1> DEFINE f == load[w].heldFor
             S == IF w \in Readers THEN seen[w] ELSE {}
  <1>1. f \in Files
    BY Known DEF WriterWrites, At, Shape
  <1>2. Goes(w, NoLoad) /\ UNCHANGED <<target, result, external, timeouts>>
    BY DEF WriterWrites
  <1>3. Types /\ Bounds /\ seen \in [Readers -> SUBSET Views]
    BY DEF IInv, VInv, Watched
  <1>4. result' \in [Readers -> Results] /\ timeouts' \in Nat /\ timeouts' <= setting.timeouts
    BY <1>2, <1>3 DEF Bounds
  <1>5. CASE writes < setting.writes /\ writes' = writes + 1 /\ Stores(f, NextContent(plain))
             /\ UNCHANGED setting
    <2>1. \A q \in Readers : load'[q] = load[q] \/ load'[q] = NoLoad
      BY <1>2, <1>3 DEF Types, Goes, Readers, Procs
    <2>2. /\ writes' <= setting.writes /\ external' <= setting.external
          /\ Total' = Total + 1
      BY <1>2, <1>3, <1>5, SettingOK DEF Bounds, Types, Total
    <2> HIDE DEF f
    <2> QED
      BY <1>1, <1>2, <1>4, <1>5, <2>1, <2>2, StoresView
  <1>6. CASE UNCHANGED <<setting, content, writes, seen>>
    <2>1. S \subseteq Views /\ IF w \in Readers THEN seen' = [seen EXCEPT ![w] = S] ELSE seen' = seen
      BY <1>3, <1>6
    <2> HIDE DEF S, f
    <2>2. Faithful(S, target[w], content, Total, NoLoad)
      BY NoLoadOK, AtRest
    <2> QED
      BY <1>2, <1>4, <1>6, <2>1, <2>2, NoLoadOK, QuietStep
  <1> QED
    BY <1>5, <1>6 DEF WriterWrites

LEMMA ExternalEditView ==
  ASSUME IInv, IInv', VInv, NEW f \in Files, ExternalEdit(f) PROVE VInv'
  <1>1. /\ external < setting.external /\ external' = external + 1
        /\ Stores(f, NextContent(FALSE))
        /\ UNCHANGED <<setting, target, load, result, writes, timeouts>>
    BY DEF ExternalEdit
  <1>2. Types /\ Bounds
    BY DEF IInv, VInv
  <1>3. result' \in [Readers -> Results] /\ writes' <= setting.writes
    BY <1>1, <1>2 DEF Bounds
  <1>4. external' <= setting.external /\ Total' = Total + 1
    BY <1>1, <1>2, SettingOK DEF Bounds, Types, Total
  <1> QED
    BY <1>1, <1>3, <1>4, StoresView

LEMMA RetargetView ==
  ASSUME IInv, IInv', VInv, NEW p \in Readers, NEW l \in Layers, NEW f \in Files \cup {0},
         Retarget(p, l, f)
  PROVE  VInv'
  <1>1. /\ external < setting.external /\ external' = external + 1
        /\ Seen(target', content')
        /\ UNCHANGED <<setting, content, load, result, writes, timeouts>>
    BY DEF Retarget
  <1>2. Types /\ Bounds
    BY DEF IInv, VInv
  <1>3. /\ result' \in [Readers -> Results] /\ writes' <= setting.writes
        /\ timeouts' \in Nat /\ timeouts' <= setting.timeouts
    BY <1>1, <1>2 DEF Bounds
  <1>4. external' <= setting.external /\ Total' = Total + 1 /\ Total \in Nat
    BY <1>1, <1>2, SettingOK DEF Bounds, Types, Total
  <1>5. Newer(content, content', Total)
    BY <1>1 DEF Newer
  <1>6. \A g \in Files : content'[g].ver <= Total'
    <2>1. \A g \in Files : content[g].ver \in Nat /\ content[g].ver <= Total
      BY <1>2 DEF Bounds, Types, Contents
    <2> QED
      BY <1>1, <1>4, <2>1
  <1>7. Total <= Total'
    BY <1>4
  <1> QED
    BY <1>1, <1>3, <1>4, <1>5, <1>6, <1>7, WorldStep

-------------------------------------------------------------------------------
(* The specification *)

LEMMA InitView == Init => VInv
  <1> SUFFICES ASSUME Init
               PROVE  VInv
    OBVIOUS
  <1>1. setting \in Settings /\ setting.writes \in Nat /\ setting.external \in Nat
        /\ setting.timeouts \in Nat
    BY SettingOK DEF Init
  <1>2. result \in [Readers -> Results]
    BY DEF Init, Results
  <1>3. Total = 0 /\ timeouts = 0 /\ writes = 0 /\ external = 0
    BY DEF Init, Total
  <1>4. \A f \in Files : content[f].ver = 0
    BY DEF Init
  <1>5. \A p \in Readers : load[p] = NoLoad
    BY DEF Init, Procs
  <1>6. Bounds
    BY <1>1, <1>2, <1>3, <1>4 DEF Bounds
  <1>7. Watched
    BY <1>5, NoLoadOK DEF Init, Watched, Busy
  <1>8. \A p \in Readers : Faithful(seen[p], target[p], content, Total, load[p])
    BY <1>5, NoLoadOK, AtRest
  <1> QED
    BY <1>6, <1>7, <1>8 DEF VInv

LEMMA LoadStepView ==
  ASSUME IInv, IInv', VInv, NEW p \in Procs, LoadStep(p) PROVE VInv'
  BY SnapshotView, LoadLayerView, MigrateView, MigrateTimesOutView, VerifyView, VerifyFailsView,
     ConflictView, RelockView, AcquireView, AcquireTimesOutView, RecheckView, ReturnView,
     WritePolicyView
  DEF LoadStep

LEMMA NextView == IInv /\ IInv' /\ VInv /\ [Next]_vars => VInv'
  <1> SUFFICES ASSUME IInv, IInv', VInv, [Next]_vars
               PROVE  VInv'
    OBVIOUS
  <1>1. ASSUME NEW p \in Procs, StartLoad(p) \/ StartPolicy(p) \/ LoadStep(p) \/ WriterStep(p)
        PROVE  VInv'
    BY <1>1, StartView, LoadStepView, WriterWritesView DEF WriterStep
  <1>2. ASSUME NEW w \in Writers, NEW f \in Files, WriterLocks(w, f)
        PROVE  VInv'
    BY <1>2, WriterLocksView
  <1>3. ASSUME NEW f \in Files, ExternalEdit(f)
        PROVE  VInv'
    BY <1>3, ExternalEditView
  <1>4. ASSUME NEW p \in Readers, NEW l \in Layers, NEW f \in Files \cup {0}, Retarget(p, l, f)
        PROVE  VInv'
    BY <1>4, RetargetView
  <1>5. CASE UNCHANGED vars
    <2>1. UNCHANGED <<setting, content, target, load, result, writes, external, timeouts, seen>>
      BY <1>5 DEF vars
    <2>2. Total' = Total /\ Views' = Views
      BY <2>1 DEF Total, Views
    <2>3. Bounds' /\ Watched'
      BY <2>1, <2>2 DEF VInv, Bounds, Watched, View, Busy
    <2> QED
      BY <2>1, <2>2, <2>3 DEF VInv
  <1> QED
    BY <1>1, <1>2, <1>3, <1>4, <1>5 DEF Next

LEMMA ViewsTyped == IInv /\ VInv => TypeOK
  BY DEF IInv, Types, Owns, VInv, Bounds, Watched, Views, Paths, TypeOK

LEMMA ViewsConsistent == IInv /\ VInv => ConsistentView
  <1> SUFFICES ASSUME IInv, VInv, NEW p \in Readers, At(p, "loaded")
               PROVE  \E v \in seen[p] : \A l \in Present(load[p].srcs) :
                        InPlace(p, l) => v.says[l] = load[p].merged[l].ver
    BY DEF ConsistentView
  <1>1. load[p].pc = "loaded"
    BY DEF At
  <1>2. PICK v \in seen[p] : \E N \in Nat : Witness(seen[p], target[p], content, load[p], v, N)
    BY <1>1 DEF VInv, Faithful
  <1>3. \A l : InPlace(p, l) => Still(seen[p], l)
    BY DEF InPlace, Still
  <1> QED
    BY <1>1, <1>2, <1>3 DEF Witness

\* The types of the variables, the bounds of the model and what a load has seen;
\* and every process holds exactly the locks its load has taken or was given.
THEOREM TypeCorrect == Spec => []TypeOK
  <1> QED
    BY InitOK, NextOK, InitView, NextView, ViewsTyped, PTL DEF Spec

\* loadLayeredSources, without locks and under them: what a load merges from
\* the layers whose paths stayed in place was in all of them at one moment of
\* the load, however many processes write them, migrate them, edit them or
\* relink the others meanwhile. The moment is the last read of the preflight
\* snapshot.
THEOREM ConsistentViewHolds == Spec => []ConsistentView
  <1> QED
    BY InitOK, NextOK, InitView, NextView, ViewsConsistent, PTL DEF Spec

===============================================================================
