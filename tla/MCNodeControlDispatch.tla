------------------------ MODULE MCNodeControlDispatch ------------------------
EXTENDS NodeControlDispatch, TLC
CONSTANTS c1, c2, c3, n1, n2
MCSymmetry == Permutations({c1, c2, c3}) \cup Permutations({n1, n2})
=============================================================================
