----------------------------- MODULE MCRoomKeys -----------------------------
(* Instances of RoomKeys for TLC.                                          *)
EXTENDS RoomKeys

CONSTANTS k1, k2

\* Products: two that keep copies of their keys, one that writes to a scope, one
\* that takes over history.
Products == {{"backup", "vault"}, {"backup", "decrypt"}, {"rooms"}, {"history"}}

TwoBundles == {{k1}, {k1, k2}}
=============================================================================
