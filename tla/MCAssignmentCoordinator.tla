----------------------- MODULE MCAssignmentCoordinator -----------------------
EXTENDS AssignmentCoordinator, FiniteSets, TLC
CONSTANTS p0, i0, a, b, n1, e1, o1, o2
(* At most three leases are ever allocated, and at most two are revoked. *)
MCBound ==
  /\ Cardinality({c \in Caps : db.pin[c] # None}) <= 3
  /\ Cardinality(dead) <= 2
MCSymmetry == Permutations({a, b}) \cup Permutations(Ops)
=============================================================================
