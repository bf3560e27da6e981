----------------------------- MODULE MCDeviceJob -----------------------------
(* Finite instances of DeviceJob.                                          *)
EXTENDS DeviceJob, TLC

CONSTANTS c1, c2, v1, v2

MCClients == {c1, c2}
MCConfigs == {v1, v2}
OneConfig == {v1}

ClientSymmetry == Permutations(MCClients) \union Permutations(MCConfigs)
=============================================================================
