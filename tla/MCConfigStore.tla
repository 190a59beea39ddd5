---------------------------- MODULE MCConfigStore -----------------------------
(* ConfigStore on small instances. Symmetry is used only in runs that check   *)
(* no liveness property.                                                      *)
EXTENDS ConfigStore, TLC

EditSymmetry == Permutations(Edits)
Symmetry == Permutations(Procs) \cup Permutations(Edits)

===============================================================================
