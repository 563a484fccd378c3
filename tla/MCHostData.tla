----------------------------- MODULE MCHostData -----------------------------
EXTENDS HostData, TLC
CONSTANTS u1, u2
\* Two ups meet in one workspace; nobody opens the other one any more.
OneHome == [u \in Ups |-> {1}]
Symmetry == Permutations(Ups)
=============================================================================
