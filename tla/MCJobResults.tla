---------------------------- MODULE MCJobResults ----------------------------
EXTENDS JobResults, TLC

CONSTANTS c1, c2

MCClients == {c1, c2}

ClientSymmetry == Permutations(MCClients)
=============================================================================
