-------------------------- MODULE MCLegacyMigration ---------------------------
(* LegacyMigration with two processes.                                        *)
EXTENDS LegacyMigration

CONSTANTS p1, p2

TwoKinds == { [p \in Procs |-> IF p = p1 THEN a ELSE b] : a \in {"explicit", "single"}, b \in Kinds }

Given(saves, edits, faults, deaths, losses) ==
  { [kind |-> k, saves |-> saves, edits |-> edits, faults |-> faults, deaths |-> deaths,
     losses |-> losses] : k \in TwoKinds }

\* Failing steps and a death; an older gcx beside them; deaths and power losses.
AllSettings == Given(0, 1, 3, 1, 0) \cup Given(2, 1, 1, 0, 0) \cup Given(1, 1, 1, 1, 2)

===============================================================================
