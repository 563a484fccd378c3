---------------------------- MODULE MCQueryCache ----------------------------
EXTENDS QueryCache, TLC
CONSTANTS q1, q2
QuerySymmetry == Permutations({q1, q2})
=============================================================================
