------------------------ MODULE MCArchitectureCache ------------------------
EXTENDS ArchitectureCache, TLC

CONSTANTS s1, s2, c1, c2

MCSessions == {s1, s2}
MCClients  == {c1, c2}

MCSymmetry == Permutations(MCSessions) \union Permutations(MCClients)
=============================================================================
