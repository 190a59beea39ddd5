---------------------------- MODULE MCResourcePush ----------------------------
(* ResourcePush with small batches.                                           *)
EXTENDS ResourcePush, TLC

Of(kind, name, key, parent) ==
  [kind |-> kind, name |-> name, key |-> key, parent |-> parent, gate |-> "ok"]

CONSTANTS r1, r2, r3, r4, n1, n2, n3, n4, k1, k2

Object(kind, key, by) == [kind |-> kind, key |-> key, rv |-> 1, by |-> by]

EmptyStore == [n \in Names |-> None]
EmptyStores == {EmptyStore}

Folder(name, parent) == Of("folder", name, None, parent)

\* A folder, one or two below it, a dashboard in the lowest.
Chain == r1 :> Folder(n1, None) @@ r2 :> Folder(n2, n1) @@ r3 :> Of("plain", n3, None, n2)

\* Two roots, a child whose parent is not in the batch, a dashboard.
Forest == r1 :> Folder(n1, None) @@ r2 :> Folder(n2, n4) @@ r3 :> Folder(n3, n1)
          @@ r4 :> Of("plain", n4, None, n3)

\* A cycle; two folders of one name; only folders.
Cycle  == r1 :> Folder(n1, n2) @@ r2 :> Folder(n2, n1) @@ r3 :> Of("plain", n3, None, n2)
Twins  == r1 :> Folder(n1, None) @@ r2 :> Folder(n1, None) @@ r3 :> Of("plain", n3, None, n1)

\* What stops before a request, in each place of the chain.
Gated == { [Chain EXCEPT ![r].gate = g] : r \in {r1, r2, r3}, g \in Gates }

FolderBatches == {Forest, Cycle, Twins} \cup Gated

KeyedPair(kind, a, b) == r1 :> Of(kind, a, k1, None) @@ r2 :> Of(kind, b, k2, None)

\* Names that this server has given to nothing.
KeyedBatches ==
  { KeyedPair(kind, a, b) : kind \in {"keyed", "unique"}, a \in {None, n4}, b \in {None, n3} }

\* One or two objects of the first key, one of the second, or nothing.
KeyedStores ==
  { [n \in Names |-> IF n \in S THEN Object(kind, IF n = n2 THEN k ELSE k1, "other") ELSE None] :
      S \in SUBSET {n1, n2}, k \in {k1, k2}, kind \in {"keyed", "unique"} }

ServerNames == {n1, n2}

\* The names of the manifests, the other way round on this server.
NativeBatches == { KeyedPair("native", n1, n2), KeyedPair("native", None, n2) }
NativeStores ==
  { [n \in Names |-> IF n = n1 THEN Object("native", a, by)
                     ELSE IF n = n2 /\ both THEN Object("native", IF a = k1 THEN k2 ELSE k1, "other")
                     ELSE None] :
      a \in {k1, k2}, by \in {"other", "provisioned"}, both \in BOOLEAN } \cup {EmptyStore}

DryBatches == { r1 :> Of(a, n1, None, None) @@ r2 :> Of(b, n2, k1, None) :
                  a \in {"folder", "plain", "legacy"}, b \in {"native", "keyed", "unique"} }
DryStores == { [n \in Names |-> IF n = n1 /\ a # None THEN Object(a, None, "other")
                                ELSE IF n = n2 /\ b # None THEN Object(b, k1, "other") ELSE None] :
                 a \in {None, "folder", "plain", "legacy"}, b \in {None, "native", "keyed", "unique"} }

Honoured == {"folder", "plain"}

Given(batches, stores, assignable, dry, runs, fails, others) ==
  { [batch |-> b, store |-> s, assignable |-> assignable, dry |-> dry, honours |-> Honoured,
     assumed |-> {}, pushes |-> runs, faults |-> fails, foreign |-> others] :
      b \in batches, s \in stores }

\* Dry runs of which the user says that kinds honour them: rightly, wrongly, or
\* of adapters, which do not ask.
Asserted(settings) ==
  { [g EXCEPT !.honours = Honoured \cup h, !.assumed = a] :
      g \in settings, h \in {{}, {"legacy", "native"}}, a \in {{"legacy", "keyed"}, {"native"}} }

DryRuns == Given(DryBatches, DryStores, {n1, n2, n3}, TRUE, 1, 1, 0)

\* Trees of folders; two pushes of what has natural keys; natives among other
\* clients; dry runs.
AllSettings ==
  Given(FolderBatches, EmptyStores, ServerNames, FALSE, 1, 1, 1)
    \cup Given(KeyedBatches, KeyedStores, ServerNames, FALSE, 2, 2, 0)
    \cup Given(NativeBatches, NativeStores, {n1, n2, n3}, FALSE, 1, 1, 1)
    \cup DryRuns \cup Asserted(DryRuns)

\* What the theorems about natural keys and about what was pushed assume holds
\* of these settings.
ASSUME SettingsAlone == Alone
ASSUME SettingsDistinct == Distinct

===============================================================================
