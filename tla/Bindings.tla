------------------------------ MODULE Bindings ------------------------------
(***************************************************************************)
(* The words this crate answers in and how they reach the product.         *)
(*                                                                         *)
(* A core error or answer becomes the FFI variant of the same name.  An    *)
(* enum crosses as the position of its variant in the Rust declaration,    *)
(* from 1, and the generated TypeScript reads the number back as the       *)
(* variant at that position of the declaration it was generated from.  So  *)
(* the order of each enum is part of what the product is told, and each is *)
(* written here in the order of its declaration.                           *)
(***************************************************************************)
EXTENDS Naturals, Sequences

-----------------------------------------------------------------------------
(* What the core says: the names only, their order is free.                *)

\* MachineError, by the calls that end with them. StoreErrors are those of
\* create_machine, besides the one every other call starts with.
StoreErrors == {"AlreadyInitialised", "MalformedIdentifier", "Store",
                "MismatchedAccount"}
FlowErrors == {"UnknownFlow", "WrongStage", "MaterialNotReady", "UnknownDevice"}
IdentityErrors == {"AccountKeysNotFetched", "IdentityAlreadyExists",
                   "IdentityNotKnown"}
RecoveryErrors == {"PrivateKeysNotHeld", "RecoveryNotSetUp", "RecoveryKeyIncorrect",
                   "RecoveryDataMalformed", "RecoveryAlreadyExists"}
CodeErrors == {"PeerIdentityNotKnown", "CodeNotOffered", "ScannedCodeRefused",
               "ScannedCodeUnrecognised", "ScannedCodeMalformed",
               "ScannedCodeForAnotherFlow", "PeerCannotScan"}

MachineErrors == {"NotInitialised"} \cup StoreErrors \cup FlowErrors \cup IdentityErrors
                     \cup RecoveryErrors \cup CodeErrors

\* SessionError: of any call and of the pump's reports; of decrypt_event.
PumpErrors == {"MalformedPayload", "MalformedIdentifier", "NotInitialised", "Failed",
               "UnknownRequest", "NotAFailureStatus"}
DecryptErrors == {"MissingKey", "UnsharedSession", "UnknownDevice", "Undecryptable",
                  "SessionRefused", "SenderNotTrusted"}
SessionErrors == PumpErrors \cup DecryptErrors

\* FlowStage; its KeysExchanged and CodeScanned are "exchanged" and "scanned" here.
FlowStages == {"requested", "ready", "started", "exchanged", "scanned", "confirmed",
               "done", "cancelled"}

\* TrustState, SenderVerification and SenderTrustRequirement.
TrustStates == {"Unverified", "Recognized", "Verified"}
SenderVerifications == {"Verified", "UnverifiedIdentity", "VerificationViolation",
                        "UnsignedDevice", "NoDeviceMissing",
                        "NoDeviceInsecureSource", "MismatchedSender"}
Requirements == {"Any", "IdentitySignedOrLegacy", "IdentitySigned"}

\* CryptoSignal: a comparison ends in a trust change, a scan in a completion.
Signals == {"TrustChanged", "VerificationRequested", "VerificationCompleted"}

-----------------------------------------------------------------------------
(* What crosses, in the order of declaration.                              *)

MachineFfiError ==
    <<"NotInitialised", "AlreadyInitialised", "MalformedIdentifier", "Store",
      "MismatchedAccount", "UnknownFlow", "WrongStage", "MaterialNotReady",
      "UnknownDevice", "AccountKeysNotFetched", "IdentityAlreadyExists",
      "IdentityNotKnown", "PrivateKeysNotHeld", "RecoveryNotSetUp",
      "RecoveryKeyIncorrect", "RecoveryDataMalformed", "RecoveryAlreadyExists",
      "PeerIdentityNotKnown", "CodeNotOffered", "ScannedCodeRefused",
      "ScannedCodeUnrecognised", "ScannedCodeMalformed", "ScannedCodeForAnotherFlow",
      "PeerCannotScan">>

SessionFfiError ==
    <<"MalformedPayload", "NotInitialised", "Failed", "UnknownRequest", "MissingKey",
      "UnsharedSession", "UnknownDevice", "Undecryptable", "SessionRefused",
      "MalformedIdentifier", "NotAFailureStatus", "SenderNotTrusted">>

BackupFfiError ==
    <<"MalformedIdentifier", "MalformedPayload", "NotInitialised", "Failed", "WrongKey">>

HistoryFfiError ==
    <<"MalformedIdentifier", "MalformedPayload", "NotInitialised", "Failed", "NoOffer",
      "SenderNotTrusted", "BundleUnreadable">>

VaultFfiError == <<"NotInitialised", "Failed", "MalformedPayload", "WrongPassphrase">>

\* "scanned" is last: a variant is appended, never inserted.
VerificationStage ==
    <<"requested", "ready", "started", "exchanged", "confirmed", "done", "cancelled",
      "scanned">>

TrustState == <<"Unverified", "Recognized", "Verified">>

SenderVerification ==
    <<"Verified", "UnverifiedIdentity", "VerificationViolation", "UnsignedDevice",
      "NoDeviceMissing", "NoDeviceInsecureSource", "MismatchedSender">>

SenderTrustRequirement == <<"Any", "IdentitySignedOrLegacy", "IdentitySigned">>

CryptoSignal == <<"TrustChanged", "VerificationRequested", "VerificationCompleted">>

-----------------------------------------------------------------------------
(* The crossing.                                                           *)

\* Mutant of Generated: bindings from before the last variant was declared first.
GeneratedStale(enum) == Tail(enum) \o <<Head(enum)>>

\* The declaration the committed bindings were generated from is the present one.
Generated(enum) == enum

LowerEnum(enum, name) == CHOOSE n \in DOMAIN enum : enum[n] = name
LiftEnum(enum, ordinal) == Generated(enum)[ordinal]

Crossed(enum, name) == LiftEnum(enum, LowerEnum(enum, name))
=============================================================================
