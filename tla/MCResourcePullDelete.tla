------------------------- MODULE MCResourcePullDelete -------------------------
(* ResourcePullDelete with two filters and four items.                        *)
EXTENDS ResourcePullDelete

CONSTANTS f1, f2, i1, i2, i3, i4

Rec(type, items, kind, owned) == [type |-> type, items |-> items, kind |-> kind, owned |-> owned]

First  == { Rec(type, {i1, i2}, kind, owned) : type \in {"all", "multiple"},
                                               kind \in {"listable", "unlistable", "unavailable"},
                                               owned \in BOOLEAN }
Second == { Rec("all", {i3, i4}, "listable", FALSE), Rec("single", {i3}, "listable", FALSE),
            Rec("single", {i3}, "unlistable", FALSE), Rec("multiple", {i3, i4}, "listable", TRUE) }

Asks(command, stop, dry, everything, a, b) ==
  [command |-> command, stop |-> stop, dry |-> dry, everything |-> everything,
   filters |-> [f \in Filters |-> IF f = f1 THEN a ELSE b]]

AllRequests ==
  { Asks(c, stop, dry, all, a, b) : c \in Commands, stop \in BOOLEAN, dry \in BOOLEAN,
                                    all \in BOOLEAN, a \in First, b \in Second }

Sensible ==
  { q \in AllRequests :
      /\ q.everything => \A f \in Filters : q.filters[f].type = "all"
      /\ q.dry => q.command # "pull"
      /\ q.command = "deleteFiles" => \A f \in Filters : /\ q.filters[f].type = "all"
                                                         /\ q.filters[f].kind = "listable"
                                                         /\ ~q.everything }

Named == { q \in Sensible : q.command = "delete" /\ ~q.stop /\ ~q.dry }

===============================================================================
