----------------------------- MODULE SenderTrust -----------------------------
(***************************************************************************)
(* What the library says of another person's devices (device_statuses) and *)
(* of who sent an event (Envelope::sender_verification), and the chain     *)
(* behind the strongest of those words: an identity of ours, one of        *)
(* theirs, a comparison or a scan, our signature on their master key,      *)
(* uploaded, and read back from the homeserver.                            *)
(*                                                                         *)
(* One other person with one identity at a time, who may replace it.  The  *)
(* product sends what the pump hands out one by one, in its order, and     *)
(* sends again what was refused; its reports pass the gate (ResponseGate). *)
(* That order is RequestPump's, how a flow completes is FlowRegistry's and *)
(* CodeExchange's.                                                         *)
(***************************************************************************)
EXTENDS ResponseGate, Bindings

CONSTANTS
    Devices,        \* the other person's devices
    MaxIdentities,  \* bound: identities that person ever publishes
    MaxFlows,       \* bound: comparisons and scans
    MaxRestarts     \* bound: restarts of the process

ASSUME SenderAssumption ==
    /\ MaxIdentities \in Nat /\ MaxFlows \in Nat /\ MaxRestarts \in Nat

VARIABLES
    branches,       \* the product looks at the status before it reports
    \* The homeserver.
    theirs,         \* the identity it holds, and the devices it signed
    signatures,     \* their identities that carry our signature
    \* The store.
    ours,           \* a private identity of our own, which is verified
    known,          \* what the last answer about the person said
    previously_verified,
    locally_trusted,
    session,        \* the inbound session of a scope key: what is known of its sender
    \* The process and the wire.
    requests,       \* handed out and unresolved, in their order
    response,       \* what came back for the first of them, if anything
    flows, restarts,
    \* Auxiliary.
    compared,       \* devices, and identities, that a person compared or scanned
    owed,           \* identities scanned in this process that nothing replaced since
    overtaken       \* those of them whose read-back left before the signature

store == <<ours, known, previously_verified, locally_trusted, session>>
homeserver == <<theirs, signatures>>
wire == <<requests, response>>
ghosts == <<compared, owed, overtaken>>
vars == <<branches, homeserver, store, wire, flows, restarts, ghosts>>

None == 0
Nobody == [identity |-> None, signed |-> {}]
Unasked == [identity |-> None, signed |-> {}, devices |-> {}, signature |-> FALSE]
NoSession == [data |-> "none"]
NoResponse == [status |-> 1]

Init ==
    /\ branches \in BOOLEAN
    /\ theirs = Nobody /\ signatures = {}
    /\ ours = FALSE /\ known = Unasked /\ previously_verified = FALSE
    /\ locally_trusted = {} /\ session = NoSession
    /\ requests = <<>> /\ response = NoResponse
    /\ flows = 0 /\ restarts = 0
    /\ compared = [devices |-> {}, identities |-> {}]
    /\ owed = {} /\ overtaken = {}

-----------------------------------------------------------------------------
(* What the store says of a device.                                        *)

\* Device::is_cross_signed_by_owner: we are not consulted.
CrossSignedByOwner(d) == known.identity # None /\ d \in known.signed

\* Device::is_cross_signing_trusted: our signature, as it stands in our store.
CrossSigningTrusted(d) == ours /\ known.signature /\ CrossSignedByOwner(d)

\* device_statuses: upstream's is_verified, one boolean, so never "Recognized".
device_statuses ==
    [d \in known.devices |->
        Crossed(TrustState, IF d \in locally_trusted \/ CrossSigningTrusted(d)
                            THEN "Verified" ELSE "Unverified")]

\* SenderData::from_device, for a key that came from d, or from no device.
SenderDataOf(d) ==
    CASE d \notin known.devices -> "UnknownDevice"
      [] d \in known.devices /\ ~CrossSignedByOwner(d) -> "DeviceInfo"
      [] d \in known.devices /\ CrossSigningTrusted(d) -> "SenderVerified"
      [] d \in known.devices /\ CrossSignedByOwner(d) /\ ~CrossSigningTrusted(d) ->
            IF previously_verified THEN "VerificationViolation" ELSE "SenderUnverified"

\* What the session says of a claimed sender: upstream's VerificationState.
VerificationState(data, honest) ==
    CASE data = "imported" -> "InsecureSource"
      [] data = "UnknownDevice" -> "MissingDevice"
      [] data \notin {"imported", "UnknownDevice"} /\ ~honest -> "MismatchedSender"
      [] data = "DeviceInfo" /\ honest -> "UnsignedDevice"
      [] data = "SenderUnverified" /\ honest -> "UnverifiedIdentity"
      [] data = "SenderVerified" /\ honest -> "Verified"
      [] data = "VerificationViolation" /\ honest -> "VerificationViolation"

\* In this crate's words.
sender_verification(state) ==
    CASE state = "MissingDevice"  -> "NoDeviceMissing"
      [] state = "InsecureSource" -> "NoDeviceInsecureSource"
      [] OTHER -> state

-----------------------------------------------------------------------------
(* Keys and events.                                                        *)

\* What receive_sync_changes asks of the sender of a to-device message.
decryption_settings == "Untrusted"

Ingests(d) == decryption_settings = "Untrusted" \/ CrossSignedByOwner(d)

\* A scope key arrives from device d; its sender is judged then.
KeyArrives(d) ==
    /\ Ingests(d)
    /\ session' = [data |-> SenderDataOf(d), device |-> d, of |-> known.identity]
    /\ UNCHANGED <<branches, homeserver, ours, known, previously_verified, locally_trusted,
                   wire, flows, restarts, ghosts>>

\* A key that came out of a backup, a vault or a bundle says nothing of its sender.
ImportKey ==
    /\ session' = [data |-> "imported", device |-> "none", of |-> None]
    /\ UNCHANGED <<branches, homeserver, ours, known, previously_verified, locally_trusted,
                   wire, flows, restarts, ghosts>>

\* Upstream judges again where the last judgement was not about an identity it
\* took as it is: history does not improve when the sender is verified later.
Recalculated ==
    IF session.data \in {"UnknownDevice", "DeviceInfo", "VerificationViolation"}
    THEN [session EXCEPT !.data = SenderDataOf(session.device), !.of = known.identity]
    ELSE session

\* What decrypt_event hands over: upstream echoes the sender the event claims, and
\* says beside it how much of that claim it knows.
Envelope(honest) ==
    [sender |-> IF honest THEN "owner" ELSE "another",
     sender_verification |->
         Crossed(SenderVerification,
                 sender_verification(VerificationState(Recalculated.data, honest)))]

\* decrypt_event; what it answers is the Envelope, for an outer sender who is the
\* owner of the key or is not.
DecryptEvent ==
    /\ session # NoSession /\ session' = Recalculated
    /\ UNCHANGED <<branches, homeserver, ours, known, previously_verified, locally_trusted,
                   wire, flows, restarts, ghosts>>

-----------------------------------------------------------------------------
(* The chain.                                                              *)

\* create_identity and its confirmation (SigningIdentity): steps one and two.
Bootstrap ==
    /\ ~ours /\ ours' = TRUE
    /\ UNCHANGED <<branches, homeserver, known, previously_verified, locally_trusted, session,
                   wire, flows, restarts, ghosts>>

\* The other person publishes an identity that signs some devices, over any
\* earlier one: step three.
TheyPublish(signed) ==
    /\ theirs.identity < MaxIdentities
    /\ theirs' = [identity |-> theirs.identity + 1, signed |-> signed]
    /\ owed' = {} /\ overtaken' = {}
    /\ UNCHANGED <<branches, signatures, store, wire, flows, restarts, compared>>

Query(kind) == [kind |-> kind, identity |-> None]
Upload == [kind |-> "SignatureUpload", identity |-> known.identity]

\* The person is tracked, or a sync lists them as changed: upstream asks, step
\* four.
Notice ==
    /\ \A n \in 1 .. Len(requests) : requests[n].kind # "KeysQuery"
    /\ requests' = Append(requests, Query("KeysQuery"))
    /\ UNCHANGED <<branches, homeserver, store, response, flows, restarts, ghosts>>

\* The two people hold the same master key: what a comparison's last messages and
\* a scanned code check. Otherwise a comparison covers the device alone.
SameIdentity == known.identity # None /\ known.identity = theirs.identity

CompareIdentities(d, ids) ==
    /\ flows < MaxFlows /\ flows' = flows + 1
    /\ compared' = [devices |-> compared.devices \cup d,
                    identities |-> compared.identities \cup ids]

\* Mutant of Compare: every identity held is signed, whatever was compared.
CompareAnything(d) ==
    /\ d \in known.devices
    /\ CompareIdentities({d}, IF SameIdentity THEN {known.identity} ELSE {})
    /\ locally_trusted' = locally_trusted \cup {d}
    /\ requests' = IF ours THEN Append(requests, Upload) ELSE requests
    /\ UNCHANGED <<branches, homeserver, ours, known, previously_verified, session, response,
                   restarts, owed, overtaken>>

\* confirm_flow to the end: the device is trusted locally, and the identity signed
\* where there is one of ours to sign it with. Nothing asks for it to be read back.
Compare(d) ==
    /\ d \in known.devices
    /\ CompareIdentities({d}, IF SameIdentity THEN {known.identity} ELSE {})
    /\ locally_trusted' = locally_trusted \cup {d}
    /\ requests' = IF SameIdentity /\ ours THEN Append(requests, Upload) ELSE requests
    /\ UNCHANGED <<branches, homeserver, ours, known, previously_verified, session, response,
                   restarts, owed, overtaken>>

\* Mutant of QueuePeerKeyQueries: nobody asks.
QueueNoPeerKeyQueries(queue) == queue

\* queue_peer_key_queries.
QueuePeerKeyQueries(queue) == Append(queue, Query("PeerKeysQueryOutOfBand"))

\* A scan of one of the two screens to the end: it names no device, its whole
\* outcome is the signature, and the sync that ends it asks for the read-back. They
\* leave in that order, unless that sync cut a drain in two (RequestPump): then the
\* drain carries the read-back, and the next one the signature.
Scan(cut) ==
    /\ ours /\ SameIdentity
    /\ CompareIdentities({}, {known.identity})
    /\ requests' = IF cut THEN Append(QueuePeerKeyQueries(requests), Upload)
                   ELSE QueuePeerKeyQueries(Append(requests, Upload))
    /\ owed' = owed \cup {known.identity}
    /\ overtaken' = IF cut THEN overtaken \cup ({known.identity} \ owed)
                    ELSE overtaken \ {known.identity}
    /\ UNCHANGED <<branches, homeserver, store, response, restarts>>

-----------------------------------------------------------------------------
(* The wire.                                                               *)

Waiting == requests # <<>> /\ response = NoResponse
Request == Head(requests)
Snapshot == [identity |-> theirs.identity, signed |-> theirs.signed,
             devices |-> Devices, signature |-> theirs.identity \in signatures]

\* The homeserver serves the first request: it stores a signature on the identity
\* it has, names one on another under failures, and answers a query as of now.
Serve ==
    /\ signatures' = IF Request.kind = "SignatureUpload" /\ Request.identity = theirs.identity
                     THEN signatures \cup {theirs.identity} ELSE signatures
    /\ UNCHANGED <<branches, theirs, store, requests, flows, restarts, ghosts>>

ServedBody == Object(IF Request.kind = "SignatureUpload" THEN {"failures"}
                     ELSE {"device_keys", "master_keys"})

Accepted ==
    /\ Waiting /\ Serve
    /\ response' = [status |-> 200, body |-> ServedBody, says |-> {Snapshot}]

\* It is served, and the answer lost.
AnswerLost ==
    /\ Waiting /\ Serve
    /\ response' = [status |-> 0, body |-> NoBytes, says |-> {}]

\* It is refused, with a body that says so or with none.
Refused(body) ==
    /\ Waiting
    /\ response' = [status |-> 503, body |-> body, says |-> {}]
    /\ UNCHANGED <<branches, homeserver, store, requests, flows, restarts, ghosts>>

\* Upstream takes in what a query was told: an identity is never unlearned, and
\* that ours once verified it is kept over a replacement.
Learn(told) ==
    LET heard == {s \in told : Request.kind \in Queries} IN
    /\ known' = IF heard = {} THEN known
                ELSE LET s == CHOOSE s \in heard : TRUE IN
                     IF s.identity = None THEN [known EXCEPT !.devices = s.devices] ELSE s
    /\ previously_verified' = (previously_verified \/ (ours /\ known'.signature))

Reports == branches => response.status \in 200 .. 299

\* mark_request_sent, with whatever came back if the product does not look.
MarkSent ==
    /\ response # NoResponse /\ Reports
    /\ AnswerToSent(Request.kind, response.body) = "ok"
    /\ Learn(response.says)
    /\ requests' = Tail(requests) /\ response' = NoResponse
    /\ UNCHANGED <<branches, homeserver, ours, locally_trusted, session, flows, restarts, ghosts>>

\* mark_request_failed, or a mark_request_sent the gate refuses: the request stays
\* where it was and is sent again.
MarkFailed ==
    /\ response # NoResponse
    /\ IF Reports THEN AnswerToSent(Request.kind, response.body) # "ok"
       ELSE AnswerToFailed(response.status) = "ok"
    /\ response' = NoResponse
    /\ UNCHANGED <<branches, homeserver, store, requests, flows, restarts, ghosts>>

\* What was not sent is gone with the process, the signature too.
Restart ==
    /\ restarts < MaxRestarts /\ restarts' = restarts + 1
    /\ requests' = <<>> /\ response' = NoResponse /\ owed' = {} /\ overtaken' = {}
    /\ UNCHANGED <<branches, homeserver, store, flows, compared>>

Next ==
    \/ \E d \in Devices : KeyArrives(d) \/ Compare(d)
    \/ ImportKey
    \/ DecryptEvent
    \/ Bootstrap
    \/ \E signed \in SUBSET Devices : TheyPublish(signed)
    \/ Notice
    \/ \E cut \in BOOLEAN : Scan(cut)
    \/ Accepted
    \/ AnswerLost
    \/ \E body \in {NoBytes, Object({"errcode"}), Object({"message"})} : Refused(body)
    \/ MarkSent
    \/ MarkFailed
    \/ Restart

Spec == Init /\ [][Next]_vars

\* The product goes on sending and reporting, and a homeserver that is asked again
\* and again accepts in the end.
Fairness == SF_vars(Accepted) /\ WF_vars(MarkSent) /\ WF_vars(MarkFailed)

FairSpec == Spec /\ Fairness

-----------------------------------------------------------------------------
(* Properties.                                                             *)

TypeOK ==
    /\ theirs.identity \in 0 .. MaxIdentities /\ theirs.signed \subseteq Devices
    /\ signatures \subseteq 1 .. MaxIdentities
    /\ known.identity \in 0 .. MaxIdentities
    /\ known.signed \subseteq Devices /\ known.devices \in {{}, Devices}
    /\ locally_trusted \subseteq Devices
    /\ \A n \in 1 .. Len(requests) : requests[n].kind \in Kinds
    /\ session # NoSession => \A honest \in BOOLEAN :
          Envelope(honest).sender_verification \in SenderVerifications
    /\ device_statuses \in [known.devices -> TrustStates]

\* "Nothing except the real chain produces Verified": an event reads Verified only
\* if its sender told the truth and somebody compared or scanned the identity behind
\* it, and our signature of that identity reached the homeserver; it reads
\* VerificationViolation only past that; and another person's device is called
\* verified only if it, or its owner's present identity, was compared.
VerdictsAreEarned ==
    /\ TypeOK
    /\ session # NoSession => \A honest \in BOOLEAN :
          LET is == Envelope(honest).sender_verification IN
          /\ is = "Verified" =>
                honest /\ Recalculated.of \in compared.identities \cap signatures
          /\ is = "VerificationViolation" => compared.identities \cap signatures # {}
    /\ \A d \in known.devices : device_statuses[d] = "Verified" =>
          d \in compared.devices \/ known.identity \in compared.identities

\* queue_peer_key_queries: what the library says about somebody it verified by a
\* scan stops being wrong. Unless the process dies or they replace their identity
\* first, every device their identity signed reads verified in the end, however often
\* the upload and the query are refused or their answers lost. Where a sync cut the
\* drain in two the read-back was answered too early and none is queued again: then
\* the signature reaches the homeserver, and the devices read verified from the next
\* answer about that person on, which nothing here asks for.
ScannedReadsVerified ==
    \A i \in 1 .. MaxIdentities :
        branches /\ i \in owed ~>
            \/ i \notin owed
            \/ i \in overtaken /\ i \in signatures
            \/ /\ known.identity = i
               /\ \A d \in known.signed : device_statuses[d] = "Verified"

\* The gate lets through every success of every kind and nothing that shows it is
\* a refusal, whatever of a success stands beside its marker. So a product that
\* reports whatever comes back loses a request to a refusal only where the refusal
\* says nothing at all.
GateSeparates ==
    /\ Separated
    /\ response # NoResponse /\ AnswerToSent(Request.kind, response.body) = "ok" =>
          response.status = 200 \/ response.body \in MuteRefusals
=============================================================================
