---------------------------- MODULE MCRequestPump ----------------------------
(***************************************************************************)
(* Instances of RequestPump for TLC: the calls of verification.rs and      *)
(* signing.rs as the sequences of kinds they queue.                        *)
(***************************************************************************)
EXTENDS RequestPump, TLC

\* create_identity, with no device keys left to upload.
CreateIdentity ==
    [locked |-> TRUE,
     calls |-> <<"SigningKeysUpload", "SignatureUpload",
                 "AccountKeysQueryOutOfBand">>]
\* bootstrap_identity or create_identity refused for want of an answer.
GateRefused ==
    [locked |-> TRUE, calls |-> <<"AccountKeysQueryOutOfBand">>]
\* confirm_flow, before and after the other side confirmed: then with the
\* signature the completed flow produces.
ConfirmFlow ==
    [locked |-> FALSE, calls |-> <<"ToDevice">>]
ConfirmAndClose ==
    [locked |-> FALSE, calls |-> <<"ToDevice", "SignatureUpload">>]

OrderPrograms   == {ConfirmAndClose, CreateIdentity, GateRefused}
OverlapPrograms == {GateRefused, ConfirmFlow}

CallersAlike == Permutations(Callers)
AllAlike     == CallersAlike \cup Permutations(Drains) \cup Permutations(Reports)
=============================================================================
