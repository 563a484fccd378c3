---------------------------- MODULE MCHostDaemon ----------------------------
EXTENDS HostDaemon, TLC
CONSTANTS s1, s2
P(g, q, r) == [git |-> g, query |-> q, group |-> r]
\* A profile, and one for each way in which another session may differ from it.
OneProfile == {P(1, 1, 1)}
FourProfiles == {P(1, 1, 1), P(2, 1, 1), P(1, 2, 1), P(1, 1, 2)}
SessionSymmetry == Permutations({s1, s2})
=============================================================================
