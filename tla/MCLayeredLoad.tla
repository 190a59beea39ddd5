---------------------------- MODULE MCLayeredLoad -----------------------------
(* LayeredLoad with up to three layers and two files.                         *)
EXTENDS LayeredLoad

CONSTANTS l1, l2, m1, w1

ThreeLayers == 1..3
TwoFiles    == 1..2

\* Two layers, in either order: the repository of one process may be the home
\* directory of another.
EitherOrder == { [l \in ThreeLayers |-> IF l = 3 THEN 0 ELSE t[l]] :
                   t \in { [l \in 1..2 |-> l], [l \in 1..2 |-> 3 - l] } }

\* Also one layer alone, and one file that is both layers through a link.
AnyTarget == { t \in [ThreeLayers -> 0..2] : t[3] = 0 /\ Present(t) # {} }

OneLayer == { [l \in ThreeLayers |-> IF l = 1 THEN 1 ELSE 0] }

\* System, user and repository, of which the first and the last are one file.
AllThree == { [l \in ThreeLayers |-> IF l = 2 THEN 2 ELSE 1] }

Given(active, targets, wrote, foreign, expired) ==
  [active |-> active, targets |-> targets, writes |-> wrote, external |-> foreign,
   timeouts |-> expired]

\* One load among writes and foreign changes, with two layers and with three;
\* two loads that can meet under the locks; the policy command beside a load
\* that migrates.
AllSettings == { Given({l1, w1}, AnyTarget, 3, 1, 1),
                 Given({l1, w1}, AllThree, 2, 1, 1),
                 Given({l1, l2, w1}, EitherOrder, 2, 0, 1),
                 Given({l1, m1}, OneLayer, 1, 2, 1) }

===============================================================================
