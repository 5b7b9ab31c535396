-------------------------- MODULE MCSigningIdentity --------------------------
(***************************************************************************)
(* Instances of SigningIdentity for TLC.                                   *)
(***************************************************************************)
EXTENDS SigningIdentity
=============================================================================
