--------------------------- MODULE MCSessionPools ---------------------------
(* Finite instances of SessionPools: all jobs belong to the first session.  *)
EXTENDS SessionPools

CONSTANTS s1, j1, j2
MCSessionOf == [j \in Jobs |-> s1]
=============================================================================
