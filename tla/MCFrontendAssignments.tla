------------------------ MODULE MCFrontendAssignments ------------------------
EXTENDS FrontendAssignments, TLC
CONSTANTS p0, i0, a, b, n1, n2, e1, e2, o1, o2, o3
MCSymmetry == Permutations({a, b}) \cup Permutations({n1, n2}) \cup Permutations(Ops)
                \cup Permutations(Endpoints)
=============================================================================
