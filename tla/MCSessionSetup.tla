--------------------------- MODULE MCSessionSetup ---------------------------
EXTENDS SessionSetup, TLC

CONSTANTS c1, c2, s1, s2, regional, global, u1, u2

MCClients  == {c1, c2}
MCSessions == {s1, s2}
MCArns     == {regional, global}
MCRegions  == {"us-east-1", "eu-north-1"}
MCUris     == {u1, u2}
MCAccount  == [s \in MCSessions |-> "account"]

MCArnRegion ==
  [a \in MCArns |-> IF a = regional THEN "eu-north-1" ELSE None]

Symmetry == {p @@ q @@ r : p \in Permutations(MCClients),
                           q \in Permutations(MCSessions),
                           r \in Permutations(MCUris)}
=============================================================================
