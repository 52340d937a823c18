----------------------------- MODULE MCLeasePool -----------------------------
EXTENDS LeasePool, TLC
CONSTANTS s1, s2, s3
MCSymmetry == Permutations(Sessions)
=============================================================================
