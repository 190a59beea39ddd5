------------------------------ MODULE LayeredLoad ------------------------------
(***************************************************************************)
(* Loading the layers of the configuration (system, user, repository) into *)
(* one config while other gcx processes write them                         *)
(* (internal/config/loader.go, layered_lock.go).                           *)
(*                                                                         *)
(* A load first tries without locks: it reads every layer, loads each from *)
(* what it read, and reads the layer again to see that it is unchanged. A  *)
(* change sends it to a second attempt under the write locks of all        *)
(* layers, taken in the order of their canonical names. The command that   *)
(* sets the keychain policy runs the same load while it holds the write    *)
(* lock of the only layer, and then writes that layer.                     *)
(*                                                                         *)
(* Layers are numbered in merge order; files by their canonical names,     *)
(* which two layers may share through a symbolic link; 0 is no file. The   *)
(* write of one document, with its revision check, is one step here:       *)
(* ConfigStore is its detail.                                              *)
(*                                                                         *)
(* A setting says which processes run, what their layers may be, and the   *)
(* bounds: `writes`, `external` changes by programs that take no lock      *)
(* (edits, links set or removed), `timeouts`, expired waits.               *)
(***************************************************************************)
EXTENDS Integers, FiniteSets, FiniteSetsExt

CONSTANTS Loaders,    \* processes that load all layers
          Mutators,   \* processes that change the keychain policy
          Writers,    \* processes that write one file under its lock
          Layers, Files,
          Settings, Free

Readers == Loaders \cup Mutators
Procs   == Readers \cup Writers

ASSUME LayeredConstantsOK ==
  /\ Layers \in SUBSET (Nat \ {0}) /\ IsFiniteSet(Layers) /\ Layers # {}
  /\ Files \in SUBSET (Nat \ {0}) /\ IsFiniteSet(Files)
  /\ \A g \in Settings : /\ g.active \subseteq Procs
                          /\ g.targets \subseteq [Layers -> Files \cup {0}]
                          /\ {g.writes, g.external, g.timeouts} \subseteq Nat
  /\ Free \notin Procs

\* What a file says: `ver` stands for its meaning, `plain` tells whether a
\* secret is still written in it, which a load moves to the keychain.
Contents == [ver : Nat, plain : BOOLEAN]
Absent   == [ver |-> -1, plain |-> FALSE]

VARIABLES setting,    \* never changes
          content,    \* of every file
          target,     \* the file each process finds at the path of each layer
          lock,       \* the process holding the write lock of each file
          load,       \* the load each process is running
          result,     \* how its last load ended
          writes, external, timeouts,
          seen        \* history: the views each running load could have read

vars == <<setting, content, target, lock, load, result, writes, external, timeouts, seen>>

Steps == {"idle", "snapshot", "layer", "migrate", "verify", "relock", "acquire",
          "recheck", "loaded", "writing"}

Loads == [pc      : Steps,
          heldFor : Files \cup {0},               \* writeLockHeldFor
          srcs    : [Layers -> Files \cup {0}],   \* sources and their identities
          locked  : BOOLEAN,                      \* the second attempt
          mine    : SUBSET Files,                 \* locks taken by the load
          at      : Layers \cup {0},
          snap    : [Layers -> Contents \cup {Absent}],
          loaded  : Contents \cup {Absent},
          ident   : Files \cup {0},               \* sourceIdentity of the layer
          merged  : [Layers -> Contents \cup {Absent}]]

Results == {"none", "ok", "changed", "moved", "vanished", "timedOut", "refused"}

NoneRead == [l \in Layers |-> Absent]

NoLoad == [pc |-> "idle", heldFor |-> 0, srcs |-> [l \in Layers |-> 0],
           locked |-> FALSE, mine |-> {}, at |-> 0, snap |-> NoneRead,
           loaded |-> Absent, ident |-> 0, merged |-> NoneRead]

Present(t) == { l \in Layers : t[l] # 0 }

\* Where the layers are, and what a load that read them all at once would find.
View(t, c) == [paths |-> t, says |-> [l \in Layers |-> IF t[l] = 0 THEN -1 ELSE c[t[l]].ver]]

At(p, step)  == load[p].pc = step
Goes(p, k)   == load' = [load EXCEPT ![p] = k]
First(k)     == Min(Present(k.srcs))
IsLast(k)    == k.at = Max(Present(k.srcs))
Following(k) == Min({ l \in Present(k.srcs) : l > k.at })

\* Every load that runs could have read what is there after this step.
Seen(t, c) == seen' = [p \in Readers |-> IF load[p].pc = "idle" THEN {}
                                         ELSE seen[p] \cup {View(t[p], c)}]

Stores(f, c) == content' = [content EXCEPT ![f] = c]
                /\ Seen(target, [content EXCEPT ![f] = c])

\* History: what is written is new. The numbers stand for contents of which no
\* two have the same revision.
NextContent(p) == [ver |-> writes + external + 1, plain |-> p]

\* Mutant: an attempt that fails leaves the locks it has taken.
KeepsOnError(p, how) ==
  /\ Goes(p, NoLoad)
  /\ result' = [result EXCEPT ![p] = how]
  /\ lock' = [f \in Files |-> IF lock[f] = p /\ (how = "ok" \/ f \notin load[p].mine)
                             THEN Free ELSE lock[f]]

\* Every way out of a load releases the locks of the process.
Releases(p, how) ==
  /\ Goes(p, NoLoad)
  /\ result' = [result EXCEPT ![p] = how]
  /\ lock' = [f \in Files |-> IF lock[f] = p THEN Free ELSE lock[f]]

Ends(p, how) == Releases(p, how) /\ seen' = [seen EXCEPT ![p] = {}]

-------------------------------------------------------------------------------
(* Starting *)

Begin(p, held) ==
  /\ Present(target[p]) # {}
  /\ Goes(p, [NoLoad EXCEPT !.pc = "snapshot", !.heldFor = held, !.srcs = target[p],
                            !.at = Min(Present(target[p]))])
  /\ result' = [result EXCEPT ![p] = "none"]
  /\ seen' = [seen EXCEPT ![p] = {View(target[p], content)}]

StartLoad(p) ==
  /\ p \in Loaders \cap setting.active
  /\ At(p, "idle") /\ result[p] = "none"
  /\ Begin(p, 0)
  /\ UNCHANGED <<setting, content, target, lock, writes, external, timeouts>>

\* Without --file the policy is written to the only layer there is.
StartPolicy(p) ==
  /\ p \in Mutators \cap setting.active
  /\ At(p, "idle") /\ result[p] = "none"
  /\ Cardinality(Present(target[p])) = 1
  /\ LET f == target[p][Min(Present(target[p]))]
     IN  /\ lock[f] = Free
         /\ lock' = [lock EXCEPT ![f] = p]
         /\ Begin(p, f)
  /\ UNCHANGED <<setting, content, target, writes, external, timeouts>>

-------------------------------------------------------------------------------
(* Reading the layers: preflight, load, verification *)

Snapshot(p) ==
  /\ At(p, "snapshot")
  /\ LET k == load[p]
         f == target[p][k.at]
     IN  IF f = 0
         THEN Ends(p, "vanished")
         ELSE /\ LET s == [k EXCEPT !.snap[k.at] = content[f]]
                 IN  Goes(p, IF IsLast(k) THEN [s EXCEPT !.pc = "layer", !.at = First(k)]
                                          ELSE [s EXCEPT !.at = Following(k)])
              /\ UNCHANGED <<lock, result, seen>>
  /\ UNCHANGED <<setting, content, target, writes, external, timeouts>>

\* Mutant: the layer is read when it is loaded, not before all the others.
ReadsLate(p) ==
  /\ At(p, "layer")
  /\ LET k == load[p]
         f == target[p][k.at]
     IN  IF f = 0
         THEN Ends(p, "vanished")
         ELSE /\ Goes(p, [k EXCEPT !.snap[k.at] = content[f], !.loaded = content[f], !.ident = f,
                                   !.pc = IF content[f].plain /\ p \notin Mutators
                                          THEN "migrate" ELSE "verify"])
              /\ UNCHANGED <<lock, result, seen>>
  /\ UNCHANGED <<setting, content, target, writes, external, timeouts>>

\* A layer is loaded from its snapshot. A plaintext secret is moved to the
\* keychain at once, except by the command that is changing the policy.
LoadLayer(p) ==
  /\ At(p, "layer")
  /\ LET k == load[p]
         s == k.snap[k.at]
     IN  IF target[p][k.at] = 0
         THEN Ends(p, "vanished")
         ELSE /\ Goes(p, [k EXCEPT !.loaded = s, !.ident = target[p][k.at],
                                   !.pc = IF s.plain /\ p \notin Mutators
                                          THEN "migrate" ELSE "verify"])
              /\ UNCHANGED <<lock, result, seen>>
  /\ UNCHANGED <<setting, content, target, writes, external, timeouts>>

\* The lock the load claims to hold while it loads a layer (writeLockHeldFor).
HeldFor(k) == IF k.locked THEN k.srcs[k.at] ELSE k.heldFor

\* The migration's write takes the lock, unless the one that is held covers
\* it, and replaces the file if it is still what was loaded. A migration that
\* cannot be written is only warned about.
MigrateLayer(p) ==
  /\ At(p, "migrate")
  /\ LET k == load[p]
         f == k.ident
         c == [k.snap[k.at] EXCEPT !.plain = FALSE]
     IN  /\ HeldFor(k) = 0 => lock[f] = Free
         /\ IF /\ HeldFor(k) \in {0, f}
               /\ target[p][k.at] = f
               /\ content[f] = k.snap[k.at]
            THEN /\ Stores(f, c)
                 /\ Goes(p, [k EXCEPT !.pc = "verify", !.loaded = c])
            ELSE /\ Goes(p, [k EXCEPT !.pc = "verify"])
                 /\ UNCHANGED <<setting, content, seen>>
  /\ UNCHANGED <<setting, target, lock, result, writes, external, timeouts>>

MigrateTimesOut(p) ==
  /\ At(p, "migrate")
  /\ HeldFor(load[p]) = 0
  /\ timeouts < setting.timeouts
  /\ timeouts' = timeouts + 1
  /\ Goes(p, [load[p] EXCEPT !.pc = "verify"])
  /\ UNCHANGED <<setting, content, target, lock, result, writes, external, seen>>

\* Under the locks the layer must still be the file that was locked.
Moved(p) == LET k == load[p]
            IN  k.locked /\ (target[p][k.at] # k.srcs[k.at] \/ k.ident # k.srcs[k.at])

\* A layer whose file is no longer what was loaded ends the attempt.
Changed(p) == content[target[p][load[p].at]] # load[p].loaded

Verify(p) ==
  /\ At(p, "verify")
  /\ target[p][load[p].at] # 0
  /\ ~Moved(p)
  /\ ~Changed(p)
  /\ LET k == load[p]
         c == content[target[p][k.at]]
         \* Later layers that are the same file use what has just been read.
         s == [k EXCEPT !.merged[k.at] = k.loaded,
                        !.snap = [l \in Layers |->
                          IF k.locked /\ l > k.at /\ k.srcs[l] # 0 /\ k.srcs[l] = k.srcs[k.at]
                          THEN c ELSE k.snap[l]]]
     IN  Goes(p, IF IsLast(k) THEN [s EXCEPT !.pc = "loaded"]
                              ELSE [s EXCEPT !.pc = "layer", !.at = Following(k)])
  /\ UNCHANGED <<setting, content, target, lock, result, writes, external, timeouts, seen>>

VerifyFails(p) ==
  /\ At(p, "verify")
  /\ \/ target[p][load[p].at] = 0 /\ Ends(p, "vanished")
     \/ target[p][load[p].at] # 0 /\ Moved(p) /\ Ends(p, "moved")
     \/ /\ target[p][load[p].at] # 0 /\ ~Moved(p) /\ Changed(p)
        /\ load[p].locked
        /\ Ends(p, "changed")
  /\ UNCHANGED <<setting, content, target, writes, external, timeouts>>

\* The first attempt turns to the locks instead.
Conflict(p) ==
  /\ At(p, "verify")
  /\ target[p][load[p].at] # 0
  /\ Changed(p)
  /\ ~load[p].locked
  /\ Goes(p, [NoLoad EXCEPT !.pc = "relock", !.heldFor = load[p].heldFor])
  /\ UNCHANGED <<setting, content, target, lock, result, writes, external, timeouts, seen>>

-------------------------------------------------------------------------------
(* The second attempt, under the locks *)

\* The sources are discovered again. A caller that holds a lock locks nothing
\* more: every layer must be the file it holds.
Relock(p) ==
  /\ At(p, "relock")
  /\ LET k == load[p]
         files == { target[p][l] : l \in Present(target[p]) }
     IN  \/ files = {} /\ Ends(p, "vanished")
         \/ k.heldFor # 0 /\ files \notin {{}, {k.heldFor}} /\ Ends(p, "refused")
         \/ /\ files # {}
            /\ k.heldFor # 0 => files = {k.heldFor}
            /\ Goes(p, [k EXCEPT !.pc = IF k.heldFor # 0 THEN "recheck" ELSE "acquire",
                                 !.srcs = target[p]])
            /\ UNCHANGED <<lock, result, seen>>
  /\ UNCHANGED <<setting, content, target, writes, external, timeouts>>

Wanted(k) == { k.srcs[l] : l \in Present(k.srcs) }

\* Mutant: the locks are taken in the order of the layers.
ByLayer(k) == k.srcs[Min({ l \in Present(k.srcs) : k.srcs[l] \notin k.mine })]

\* Each file once, in the order of the canonical names.
NextLock(k) == Min(Wanted(k) \ k.mine)

Acquire(p) ==
  /\ At(p, "acquire")
  /\ LET k == load[p]
         f == NextLock(k)
     IN  /\ lock[f] = Free
         /\ lock' = [lock EXCEPT ![f] = p]
         /\ Goes(p, [k EXCEPT !.mine = @ \cup {f},
                              !.pc = IF Wanted(k) = k.mine \cup {f} THEN "recheck" ELSE "acquire"])
  /\ UNCHANGED <<setting, content, target, result, writes, external, timeouts, seen>>

\* One budget for the whole set: when it runs out everything is given back.
AcquireTimesOut(p) ==
  /\ At(p, "acquire")
  /\ timeouts < setting.timeouts
  /\ timeouts' = timeouts + 1
  /\ Ends(p, "timedOut")
  /\ UNCHANGED <<setting, content, target, writes, external>>

\* Mutant: the locks are given back once the sources are known.
ReleasesEarly(p) ==
  /\ At(p, "recheck")
  /\ LET k == load[p]
     IN  IF target[p] = k.srcs
         THEN /\ Goes(p, [k EXCEPT !.pc = "snapshot", !.locked = TRUE, !.at = First(k)])
              /\ lock' = [f \in Files |-> IF f \in k.mine THEN Free ELSE lock[f]]
              /\ UNCHANGED <<result, seen>>
         ELSE Ends(p, "moved")
  /\ UNCHANGED <<setting, content, target, writes, external, timeouts>>

\* Mutant: the layers there are now are loaded, not those that were locked.
LoadsCurrent(p) ==
  /\ At(p, "recheck")
  /\ LET k == [load[p] EXCEPT !.srcs = target[p]]
     IN  IF Present(k.srcs) # {}
         THEN /\ Goes(p, [k EXCEPT !.pc = "snapshot", !.locked = TRUE, !.at = First(k)])
              /\ UNCHANGED <<lock, result, seen>>
         ELSE Ends(p, "vanished")
  /\ UNCHANGED <<setting, content, target, writes, external, timeouts>>

\* What was locked must be what the layers are now.
Recheck(p) ==
  /\ At(p, "recheck")
  /\ LET k == load[p]
     IN  IF target[p] = k.srcs
         THEN /\ Goes(p, [k EXCEPT !.pc = "snapshot", !.locked = TRUE, !.at = First(k)])
              /\ UNCHANGED <<lock, result, seen>>
         ELSE Ends(p, "moved")
  /\ UNCHANGED <<setting, content, target, writes, external, timeouts>>

-------------------------------------------------------------------------------
(* Afterwards *)

\* The merged config is returned, the locks of the load are released. The
\* views are dropped with the next load of the process.
Return(p) ==
  /\ At(p, "loaded")
  /\ load[p].heldFor = 0
  /\ Ends(p, "ok")
  /\ UNCHANGED <<setting, content, target, writes, external, timeouts>>

\* Mutant: a held lock is taken to cover whatever file is written.
WritesUncovered(p) ==
  /\ At(p, "loaded")
  /\ load[p].heldFor # 0
  /\ LET k == load[p]
         l == First(k)
         f == target[p][l]
     IN  IF f # 0 /\ Cardinality(Present(k.srcs)) = 1 /\ content[f] = k.merged[l]
         THEN /\ writes < setting.writes
              /\ writes' = writes + 1
              /\ Stores(f, NextContent(k.merged[l].plain))
              /\ Releases(p, "ok")
         ELSE /\ Ends(p, "refused")
              /\ UNCHANGED <<setting, content, writes>>
  /\ UNCHANGED <<setting, target, external, timeouts>>

\* The policy is written to the layer that was loaded, if that is still one,
\* and the one whose lock is held, and unchanged.
WritePolicy(p) ==
  /\ At(p, "loaded")
  /\ load[p].heldFor # 0
  /\ LET k == load[p]
         l == First(k)
         f == target[p][l]
     IN  IF f = k.heldFor /\ Cardinality(Present(k.srcs)) = 1 /\ content[f] = k.merged[l]
         THEN /\ writes < setting.writes
              /\ writes' = writes + 1
              /\ Stores(f, NextContent(k.merged[l].plain))
              /\ Releases(p, "ok")
         ELSE /\ Ends(p, "refused")
              /\ UNCHANGED <<setting, content, writes>>
  /\ UNCHANGED <<setting, target, external, timeouts>>

\* Another command writes a file (ConfigStore).
WriterLocks(w, f) ==
  /\ w \in Writers \cap setting.active
  /\ At(w, "idle")
  /\ lock[f] = Free
  /\ writes < setting.writes
  /\ lock' = [lock EXCEPT ![f] = w]
  /\ Goes(w, [NoLoad EXCEPT !.pc = "writing", !.heldFor = f])
  /\ UNCHANGED <<setting, content, target, result, writes, external, timeouts, seen>>

WriterWrites(w, plain) ==
  /\ At(w, "writing")
  /\ LET f == load[w].heldFor
     IN  /\ IF writes < setting.writes
            THEN /\ writes' = writes + 1
                 /\ Stores(f, NextContent(plain))
            ELSE UNCHANGED <<setting, content, writes, seen>>
         /\ lock' = [lock EXCEPT ![f] = Free]
  /\ Goes(w, NoLoad)
  /\ UNCHANGED <<setting, target, result, external, timeouts>>

\* Programs that know nothing of the locks.
ExternalEdit(f) ==
  /\ external < setting.external
  /\ external' = external + 1
  /\ Stores(f, NextContent(FALSE))
  /\ UNCHANGED <<setting, target, lock, load, result, writes, timeouts>>

Retarget(p, l, f) ==
  /\ external < setting.external
  /\ external' = external + 1
  /\ p \in setting.active /\ target[p][l] # f
  /\ target' = [target EXCEPT ![p][l] = f]
  /\ Seen(target', content)
  /\ UNCHANGED <<setting, content, lock, load, result, writes, timeouts>>

-------------------------------------------------------------------------------

Init ==
  /\ setting \in Settings
  /\ content \in [Files -> [ver : {0}, plain : BOOLEAN]]
  /\ target \in [Readers -> setting.targets \cup {[l \in Layers |-> 0]}]
  /\ \A p \in Readers : p \in setting.active <=> Present(target[p]) # {}
  /\ lock = [f \in Files |-> Free]
  /\ load = [p \in Procs |-> NoLoad]
  /\ result = [p \in Readers |-> "none"]
  /\ writes = 0 /\ external = 0 /\ timeouts = 0
  /\ seen = [p \in Readers |-> {}]

LoadStep(p) ==
  \/ Snapshot(p) \/ LoadLayer(p) \/ MigrateLayer(p) \/ MigrateTimesOut(p)
  \/ Verify(p) \/ VerifyFails(p) \/ Conflict(p)
  \/ Relock(p) \/ Acquire(p) \/ AcquireTimesOut(p) \/ Recheck(p)
  \/ Return(p) \/ WritePolicy(p)

WriterStep(w) == \E plain \in BOOLEAN : WriterWrites(w, plain)

Next ==
  \/ \E p \in Procs : StartLoad(p) \/ StartPolicy(p) \/ LoadStep(p) \/ WriterStep(p)
  \/ \E w \in Writers, f \in Files : WriterLocks(w, f)
  \/ \E f \in Files : ExternalEdit(f)
  \/ \E p \in Readers, l \in Layers, f \in Files \cup {0} : Retarget(p, l, f)

Spec == Init /\ [][Next]_vars

-------------------------------------------------------------------------------
(* Properties *)

\* The types of the variables; and a process holds exactly the locks that its
\* load has taken, or that it works under, and none when it has ended.
TypeOK ==
  /\ \A p \in Procs, f \in Files : lock[f] = p <=> f \in load[p].mine \cup {load[p].heldFor}
  /\ content \in [Files -> Contents]
  /\ target \in [Readers -> [Layers -> Files \cup {0}]]
  /\ lock \in [Files -> Procs \cup {Free}]
  /\ load \in [Procs -> Loads]
  /\ result \in [Readers -> Results]
  /\ writes <= setting.writes /\ external <= setting.external /\ timeouts <= setting.timeouts
  /\ seen \in [Readers -> SUBSET [paths : [Layers -> Files \cup {0}],
                                 says  : [Layers -> -1..setting.writes + setting.external]]]

\* While process p was loading, the path of layer l led to one file.
InPlace(p, l) == \A v, w \in seen[p] : v.paths[l] = w.paths[l]

\* loadLayeredSources merges a state of the configuration that existed: at one
\* moment during the load every layer it found said what was merged. Nothing
\* is locked in the first attempt; that each layer is read before any is
\* loaded, and again afterwards, is what makes it so. A layer whose path is
\* pointed at another file meanwhile is not covered: the revisions tell
\* contents apart, not files, so a path that leads to an equal file when it is
\* read again, or back to the first one, goes unnoticed.
ConsistentView ==
  \A p \in Readers : At(p, "loaded") =>
    \E v \in seen[p] : \A l \in Present(load[p].srcs) :
      InPlace(p, l) => v.says[l] = load[p].merged[l].ver

\* However often gcx commands write the layers, no load fails for it: what
\* interrupts the first attempt is excluded from the second. Only programs
\* that take no lock, or a wait that ends, can make a load fail.
WritersNeverFailALoad ==
  \A p \in Loaders : result[p] \in {"changed", "moved", "vanished"} => external > 0

\* The lock process p waits for, if it waits for one.
WaitsFor(p) == IF At(p, "acquire") THEN {NextLock(load[p])}
               ELSE IF At(p, "migrate") /\ HeldFor(load[p]) = 0 THEN {load[p].ident}
               ELSE {}

\* lockLayeredSources: processes whose layers are the same files in another
\* order, or that are in the middle of a load under locks, never wait for one
\* another in a circle, nor for themselves.
NoCircularWait ==
  \A S \in SUBSET Procs :
    S # {} => \E p \in S : \A f \in WaitsFor(p) : lock[f] \notin S

\* loadLayeredSourcesLocked: "Never read a new source under a lock that protects
\* a different path or canonical identity." The second attempt starts when the
\* load holds the lock of every layer there is, and of those it merges what the
\* file says whose lock it holds, wherever layers appear, vanish or lead while it
\* waits for the locks and reads.
OnlyLockedIsMerged ==
  [][\A p \in Readers : load'[p].locked =>
       /\ ~load[p].locked =>
            \A l \in Layers : /\ load'[p].srcs[l] = target[p][l]
                             /\ target[p][l] # 0 => lock[target[p][l]] = p
       /\ \A l \in Layers : load'[p].merged[l] # load[p].merged[l] =>
            lock[target[p][l]] = p /\ load'[p].merged[l] = content[target[p][l]]]_vars

\* writeLockCovers: no gcx process replaces a file while another holds its
\* lock, whatever the lock it holds itself was taken for.
NoUnlockedWrite ==
  [][\A f \in Files : content'[f] # content[f] =>
       \/ external' # external
       \/ \E p \in Procs : load'[p] # load[p] /\ lock[f] \in {p, Free}]_vars

===============================================================================
