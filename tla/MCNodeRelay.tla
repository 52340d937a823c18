----------------------------- MODULE MCNodeRelay -----------------------------
EXTENDS NodeRelay, TLC
CONSTANTS s1, r1, r2, MaxNet, NodeStates
(* At most MaxNet snapshots travel at once; a subset of the node's states. *)
MCBound == Cardinality(net) <= MaxNet /\ node.state \in NodeStates /\ node.up
MCSymmetry == Permutations(Relays)
=============================================================================
