----------------------------- MODULE MCRecovery ----------------------------
(* Instances of Recovery for TLC.                                          *)
EXTENDS Recovery, TLC

\* Two of the three private keys.
TwoSecrets == <<"master", "self_signing">>

Alike == Permutations(KeyIds) \cup Permutations(Devices)
=============================================================================
