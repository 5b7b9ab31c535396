-------------------------- MODULE SenderTrustProofs --------------------------
(***************************************************************************)
(* Proofs about SenderTrust and ResponseGate, for any devices, identities, *)
(* comparisons, scans, answers and restarts.                               *)
(***************************************************************************)
EXTENDS SenderTrust, TLAPS

-----------------------------------------------------------------------------
(* The gate.                                                               *)

\* A success of a kind has the fields a success may hold and must hold, and none
\* that marks a refusal.
LEMMA SuccessFields ==
    ASSUME NEW kind \in Kinds
    PROVE  /\ Specified(kind) = declared_response_fields(kind)
           /\ Required(kind) \subseteq Specified(kind)
           /\ Specified(kind) \cap Markers = {}
<1>1. CASE kind \in Queries
    BY <1>1 DEF Specified, declared_response_fields, Required, tag, QueryFields, Markers
<1>2. CASE kind \in Kinds \ Queries
    <2>1. kind \in {"KeysUpload", "KeysClaim", "ToDevice", "SignatureUpload",
                    "RoomMessage", "SigningKeysUpload", "RoomKeyBackup"} /\ kind \notin Queries
        BY <1>2 DEF Kinds
    <2>2. QED
        BY <2>1 DEF Specified, declared_response_fields, Required, tag, Markers
<1>3. QED
    BY <1>1, <1>2

LEMMA SuccessTaken ==
    ASSUME NEW kind \in Kinds, NEW body \in Successes(kind)
    PROVE  AnswerToSent(kind, body) = "ok"
<1>1. CASE \E some \in SUBSET Specified(kind) : body = Object(Required(kind) \cup some)
    <2>1. body.shape = "object" /\ body.fields \subseteq declared_response_fields(kind)
        BY <1>1, SuccessFields DEF Object
    <2>2. Required(kind) \subseteq body.fields /\ body.fields \cap Markers = {}
        BY <1>1, <2>1, SuccessFields DEF Object
    <2>3. QED
        BY <2>1, <2>2 DEF AnswerToSent, refuse_a_non_response
<1>2. CASE Specified(kind) # {} /\ body = Object(Specified(kind) \cup {"later"})
    <2>1. body.shape = "object" /\ body.fields = Specified(kind) \cup {"later"}
        BY <1>2 DEF Object
    <2>2. "later" \notin Markers
        BY DEF Markers
    <2>3. body.fields \cap Markers = {} /\ body.fields \cap declared_response_fields(kind) # {}
        BY <1>2, <2>1, <2>2, SuccessFields
    <2>4. QED
        BY <2>1, <2>3, SuccessFields DEF AnswerToSent, refuse_a_non_response
<1>3. CASE Required(kind) = {} /\ body = NoBytes
    BY <1>3 DEF NoBytes, AnswerToSent, refuse_a_non_response
<1>4. QED
    BY <1>1, <1>2, <1>3 DEF Successes

LEMMA RefusalRefused ==
    ASSUME NEW kind \in Kinds, NEW body \in Refusals(kind)
    PROVE  AnswerToSent(kind, body) # "ok"
<1>1. CASE body = NoObject
    BY <1>1 DEF NoObject, AnswerToSent, refuse_a_non_response
<1>2. CASE \E marks \in (SUBSET Markers) \ {{}} : body = Object(marks \cup Specified(kind))
    <2>1. body.fields \cap Markers # {}
        BY <1>2 DEF Object
    <2>2. QED
        BY <2>1 DEF AnswerToSent, refuse_a_non_response
<1>3. CASE \E f, g \in Fields \ Specified(kind) : body = Object({f, g})
    <2>1. body.fields # {} /\ body.fields \cap declared_response_fields(kind) = {}
        BY <1>3, SuccessFields DEF Object
    <2>2. QED
        BY <2>1 DEF AnswerToSent, refuse_a_non_response
<1> DEFINE Marked == {Object(marks \cup Specified(kind)) : marks \in (SUBSET Markers) \ {{}}}
           Other == Fields \ Specified(kind)
           Strange == {Object({f, g}) : f \in Other, g \in Other}
<1>4. body \in Strange => \E f, g \in Other : body = Object({f, g})
    BY DEF Object
<1>5. body \in Marked =>
         \E marks \in (SUBSET Markers) \ {{}} : body = Object(marks \cup Specified(kind))
    OBVIOUS
<1>6. Refusals(kind) = {NoObject} \cup Marked \cup Strange
    BY DEF Refusals
<1> HIDE DEF Marked, Strange
<1>7. QED
    BY <1>1, <1>2, <1>3, <1>4, <1>5, <1>6

\* A final status has one of the two reports to go to.
LEMMA StatusHasOneReport ==
    ASSUME NEW status \in {0} \cup 200 .. 599
    PROVE  (AnswerToFailed(status) = "ok") = (status \notin 200 .. 299)
BY DEF AnswerToFailed, is_a_failure_status

LEMMA GateIsSeparated == Separated
BY SuccessTaken, RefusalRefused, StatusHasOneReport DEF Separated

\* What comes back is a success, nothing, or a body that says it is a refusal.
AnswersInv ==
    response # NoResponse =>
        \/ response.status = 200
        \/ response.body \in {NoBytes, Object({"errcode"}), Object({"message"})}

LEMMA AnswersStep ==
    ASSUME AnswersInv, [Next]_vars
    PROVE  AnswersInv'
<1>1. CASE UNCHANGED response
    BY <1>1 DEF AnswersInv
<1>2. CASE response' = NoResponse
    BY <1>2 DEF AnswersInv
<1>3. CASE Accepted
    BY <1>3 DEF Accepted, AnswersInv
<1>4. CASE AnswerLost
    BY <1>4 DEF AnswerLost, AnswersInv
<1>5. ASSUME NEW body \in {NoBytes, Object({"errcode"}), Object({"message"})}, Refused(body)
      PROVE  AnswersInv'
    BY <1>5 DEF Refused, AnswersInv
<1>6. QED
    BY <1>1, <1>2, <1>3, <1>4, <1>5
       DEF Next, KeyArrives, Compare, ImportKey, DecryptEvent, Bootstrap, TheyPublish, Notice,
           Scan, MarkSent, MarkFailed, Restart, CompareIdentities, vars, wire

\* A body that marks a refusal, or holds a field no success has, is refused for
\* every kind.
LEMMA MarkedRefused ==
    ASSUME NEW kind, NEW field \in {"errcode", "message"}
    PROVE  AnswerToSent(kind, Object({field})) # "ok"
<1>1. field \in Markers \/ field \notin declared_response_fields(kind)
    BY DEF Markers, declared_response_fields, QueryFields
<1>2. QED
    BY <1>1 DEF Object, AnswerToSent, refuse_a_non_response

\* The gate separates, in every reachable state: a product that reports whatever
\* comes back loses a request to a refusal only where the refusal says nothing.
THEOREM GateSeparatesHolds == Spec => []GateSeparates
<1>1. Init => AnswersInv
    BY DEF Init, AnswersInv
<1>2. AnswersInv => GateSeparates
    BY GateIsSeparated, MarkedRefused DEF AnswersInv, GateSeparates, MuteRefusals
<1>3. QED
    BY <1>1, <1>2, AnswersStep, PTL DEF Spec

-----------------------------------------------------------------------------
(* Words.                                                                  *)

\* A word an enum declares is read back as what it was.
LEMMA WordCrosses ==
    ASSUME NEW enum, NEW w, \E n \in DOMAIN enum : enum[n] = w
    PROVE  Crossed(enum, w) = w
BY DEF Crossed, LiftEnum, LowerEnum, Generated

\* What a session says of its sender, and nothing else does it say.
Words == {"imported", "UnknownDevice", "DeviceInfo", "SenderVerified", "SenderUnverified",
          "VerificationViolation"}

\* An event reads Verified only off a verified session with an honest sender, and
\* VerificationViolation only off a session that says so.
LEMMA WordsAreKept ==
    ASSUME NEW data \in Words, NEW honest \in BOOLEAN,
           NEW is, is = Crossed(SenderVerification,
                                sender_verification(VerificationState(data, honest)))
    PROVE  /\ is \in SenderVerifications
           /\ is = "Verified" => data = "SenderVerified" /\ honest
           /\ is = "VerificationViolation" => data = "VerificationViolation"
<1> DEFINE state == VerificationState(data, honest)
           word == sender_verification(state)
<1>1. /\ state \in {"InsecureSource", "MissingDevice", "MismatchedSender", "UnsignedDevice",
                    "UnverifiedIdentity", "Verified", "VerificationViolation"}
      /\ state = "Verified" => data = "SenderVerified" /\ honest
      /\ state = "VerificationViolation" => data = "VerificationViolation"
    BY DEF VerificationState, Words
<1> HIDE DEF state
<1>2. /\ word \in SenderVerifications
      /\ word = "Verified" => state = "Verified"
      /\ word = "VerificationViolation" => state = "VerificationViolation"
    BY <1>1 DEF sender_verification, SenderVerifications
<1> HIDE DEF word
<1>3. \E n \in DOMAIN SenderVerification : SenderVerification[n] = word
    BY <1>2 DEF SenderVerifications, SenderVerification
<1>4. is = word
    BY <1>3, WordCrosses DEF word, state
<1>5. QED
    BY <1>1, <1>2, <1>4

\* device_statuses says Verified of a device that is trusted, and of no other.
LEMMA StatusIsKept ==
    /\ device_statuses \in [known.devices -> TrustStates]
    /\ \A d \in known.devices :
          device_statuses[d] = "Verified" <=> d \in locally_trusted \/ CrossSigningTrusted(d)
<1>1. \A w \in TrustStates : \E n \in DOMAIN TrustState : TrustState[n] = w
    BY DEF TrustStates, TrustState
<1>2. \A w \in {"Verified", "Unverified"} : w \in TrustStates
    BY DEF TrustStates
<1>3. \A w \in {"Verified", "Unverified"} : Crossed(TrustState, w) = w
    BY <1>1, <1>2, WordCrosses
<1> DEFINE said(d) == IF d \in locally_trusted \/ CrossSigningTrusted(d)
                      THEN "Verified" ELSE "Unverified"
<1>4. \A d \in known.devices : said(d) \in {"Verified", "Unverified"}
    OBVIOUS
<1>5. \A d \in known.devices : said(d) = "Verified" <=> d \in locally_trusted \/ CrossSigningTrusted(d)
    OBVIOUS
<1> HIDE DEF said
<1>6. device_statuses = [d \in known.devices |-> Crossed(TrustState, said(d))]
    BY DEF device_statuses, said
<1>7. device_statuses = [d \in known.devices |-> said(d)]
    BY <1>3, <1>4, <1>6
<1>8. QED
    BY <1>2, <1>4, <1>5, <1>7

-----------------------------------------------------------------------------
(* Verdicts.                                                               *)

Identities == 0 .. MaxIdentities
Requests == [kind : Kinds, identity : Identities]
Answers == [identity : Identities, signed : SUBSET Devices, devices : {{}, Devices},
            signature : BOOLEAN]
Sessions == [data : Words, device : Devices \cup {"none"}, of : Identities]

TypeInv ==
    /\ theirs \in [identity : Identities, signed : SUBSET Devices]
    /\ signatures \subseteq 1 .. MaxIdentities
    /\ compared.identities \subseteq 1 .. MaxIdentities
    /\ known \in Answers
    /\ locally_trusted \subseteq Devices
    /\ requests \in Seq(Requests)
    /\ response # NoResponse => requests # <<>> /\ response.says \subseteq Answers
    /\ session = NoSession \/ session \in Sessions

\* What can make a verdict has been earned: a signature that is to go up, or went
\* up, is of an identity that was compared; an answer that shows one is of an
\* identity that carries it, and so is what the store and a session made of one; a
\* device that is trusted locally was compared.
EarnedInv ==
    /\ TypeInv
    /\ \A n \in 1 .. Len(requests) :
          requests[n].kind = "SignatureUpload" => requests[n].identity \in compared.identities
    /\ signatures \subseteq compared.identities
    /\ known.signature => known.identity \in signatures
    /\ response # NoResponse =>
          \A s \in response.says : s.signature => s.identity \in signatures
    /\ previously_verified => signatures # {}
    /\ session \in Sessions => /\ session.data = "SenderVerified" => session.of \in signatures
                               /\ session.data = "VerificationViolation" => signatures # {}
    /\ locally_trusted \subseteq compared.devices

\* A judgement of a device's keys, now.
LEMMA JudgedNow ==
    ASSUME EarnedInv, NEW d
    PROVE  /\ SenderDataOf(d) \in Words
           /\ SenderDataOf(d) = "SenderVerified" => known.identity \in signatures
           /\ SenderDataOf(d) = "VerificationViolation" => signatures # {}
BY DEF SenderDataOf, CrossSigningTrusted, EarnedInv, Words

\* And of a session that is judged again.
LEMMA RecalculatedEarned ==
    ASSUME EarnedInv, session \in Sessions
    PROVE  /\ Recalculated \in Sessions
           /\ Recalculated.data = "SenderVerified" => Recalculated.of \in signatures
           /\ Recalculated.data = "VerificationViolation" => signatures # {}
<1>1. CASE session.data \in {"UnknownDevice", "DeviceInfo", "VerificationViolation"}
    <2>1. known.identity \in Identities
        BY DEF EarnedInv, TypeInv, Answers
    <2>2. Recalculated = [data |-> SenderDataOf(session.device), device |-> session.device,
                          of |-> known.identity]
        BY <1>1 DEF Recalculated, Sessions
    <2>3. QED
        BY <2>1, <2>2, JudgedNow DEF Sessions
<1>2. CASE session.data \notin {"UnknownDevice", "DeviceInfo", "VerificationViolation"}
    BY <1>2 DEF Recalculated, EarnedInv
<1>3. QED
    BY <1>1, <1>2

\* NoSession is none of the sessions.
LEMMA NoSessionIsNone == NoSession \notin Sessions
BY DEF NoSession, Sessions, Words

\* The invariant makes every verdict earned.
LEMMA EarnedVerdicts ==
    ASSUME EarnedInv
    PROVE  VerdictsAreEarned
<1>1. ASSUME session # NoSession, NEW honest \in BOOLEAN
      PROVE  LET is == Envelope(honest).sender_verification IN
             /\ is \in SenderVerifications
             /\ is = "Verified" =>
                   honest /\ Recalculated.of \in compared.identities \cap signatures
             /\ is = "VerificationViolation" => compared.identities \cap signatures # {}
    <2> DEFINE is == Envelope(honest).sender_verification
    <2>1. session \in Sessions
        BY <1>1 DEF EarnedInv, TypeInv
    <2>2. Recalculated.data \in Words
        BY <2>1, RecalculatedEarned DEF Sessions
    <2>3. is = Crossed(SenderVerification,
                       sender_verification(VerificationState(Recalculated.data, honest)))
        BY DEF Envelope
    <2> HIDE DEF is
    <2>4. /\ is \in SenderVerifications
          /\ is = "Verified" => Recalculated.data = "SenderVerified" /\ honest
          /\ is = "VerificationViolation" => Recalculated.data = "VerificationViolation"
        BY <2>2, <2>3, WordsAreKept
    <2>5. /\ is = "Verified" => Recalculated.of \in signatures
          /\ is = "VerificationViolation" => signatures # {}
        BY <2>1, <2>4, RecalculatedEarned
    <2>6. signatures \subseteq compared.identities
        BY DEF EarnedInv
    <2>7. QED
        BY <2>4, <2>5, <2>6 DEF is
<1>2. \A d \in known.devices : device_statuses[d] = "Verified" =>
          d \in compared.devices \/ known.identity \in compared.identities
    BY StatusIsKept DEF CrossSigningTrusted, EarnedInv
<1>3. TypeOK
    <2>1. \A n \in 1 .. Len(requests) : requests[n].kind \in Kinds
        <3>1. requests \in Seq(Requests)
            BY DEF EarnedInv, TypeInv
        <3>2. \A n \in 1 .. Len(requests) : requests[n] \in Requests
            BY <3>1
        <3>3. \A r \in Requests : r.kind \in Kinds
            BY DEF Requests
        <3>4. QED
            BY <3>2, <3>3
    <2>2. /\ theirs.identity \in 0 .. MaxIdentities /\ theirs.signed \subseteq Devices
          /\ known.identity \in 0 .. MaxIdentities
          /\ known.signed \subseteq Devices /\ known.devices \in {{}, Devices}
        BY DEF EarnedInv, TypeInv, Answers, Identities
    <2>3. QED
        BY <1>1, <2>1, <2>2, StatusIsKept DEF TypeOK, EarnedInv, TypeInv
<1>4. QED
    BY <1>1, <1>2, <1>3 DEF VerdictsAreEarned

-----------------------------------------------------------------------------
(* The steps.                                                              *)

\* A request that is queued behind the others.
LEMMA QueuedEarned ==
    ASSUME EarnedInv, NEW r \in Requests, requests' = Append(requests, r),
           r.kind = "SignatureUpload" => r.identity \in compared'.identities,
           compared.identities \subseteq compared'.identities,
           compared'.identities \subseteq 1 .. MaxIdentities,
           compared.devices \subseteq compared'.devices,
           locally_trusted' \subseteq compared'.devices, locally_trusted' \subseteq Devices,
           UNCHANGED <<homeserver, known, previously_verified, session, response>>
    PROVE  EarnedInv'
<1>1. requests \in Seq(Requests)
    BY DEF EarnedInv, TypeInv
<1>2. requests' \in Seq(Requests) /\ requests' # <<>>
    BY <1>1
<1>3. \A n \in 1 .. Len(requests') : \/ requests'[n] = r
                                     \/ n \in 1 .. Len(requests) /\ requests'[n] = requests[n]
    BY <1>1
<1>4. \A n \in 1 .. Len(requests') :
         requests'[n].kind = "SignatureUpload" => requests'[n].identity \in compared'.identities
    BY <1>3 DEF EarnedInv
<1>5. TypeInv'
    BY <1>2 DEF EarnedInv, TypeInv, homeserver
<1>6. QED
    BY <1>4, <1>5 DEF EarnedInv, homeserver

\* What is compared, with nothing queued.
LEMMA ComparedEarned ==
    ASSUME EarnedInv, UNCHANGED <<homeserver, known, previously_verified, session, wire>>,
           compared.identities \subseteq compared'.identities,
           compared'.identities \subseteq 1 .. MaxIdentities,
           compared.devices \subseteq compared'.devices,
           locally_trusted' \subseteq compared'.devices, locally_trusted' \subseteq Devices
    PROVE  EarnedInv'
<1>1. TypeInv'
    BY DEF EarnedInv, TypeInv, homeserver, wire
<1>2. QED
    BY <1>1 DEF EarnedInv, homeserver, wire

LEMMA KeyArrivesEarned ==
    ASSUME EarnedInv, NEW d \in Devices, KeyArrives(d)
    PROVE  EarnedInv'
<1>1. /\ session' = [data |-> SenderDataOf(d), device |-> d, of |-> known.identity]
      /\ UNCHANGED <<homeserver, known, previously_verified, locally_trusted, wire, compared>>
    BY DEF KeyArrives, ghosts
<1>2. known.identity \in Identities
    BY DEF EarnedInv, TypeInv, Answers
<1>3. session' \in Sessions
    BY <1>1, <1>2, JudgedNow DEF Sessions
<1>4. TypeInv'
    BY <1>1, <1>3 DEF EarnedInv, TypeInv, homeserver, wire
<1>5. QED
    BY <1>1, <1>4, JudgedNow DEF EarnedInv, homeserver, wire

LEMMA ImportKeyEarned ==
    ASSUME EarnedInv, ImportKey
    PROVE  EarnedInv'
<1>1. /\ session' = [data |-> "imported", device |-> "none", of |-> None]
      /\ UNCHANGED <<homeserver, known, previously_verified, locally_trusted, wire, compared>>
    BY DEF ImportKey, ghosts
<1>2. session' \in Sessions
    BY <1>1, SenderAssumption DEF Sessions, Words, Identities, None
<1>3. TypeInv'
    BY <1>1, <1>2 DEF EarnedInv, TypeInv, homeserver, wire
<1>4. QED
    BY <1>1, <1>3 DEF EarnedInv, homeserver, wire

LEMMA DecryptEventEarned ==
    ASSUME EarnedInv, DecryptEvent
    PROVE  EarnedInv'
<1>1. /\ session \in Sessions /\ session' = Recalculated
      /\ UNCHANGED <<homeserver, known, previously_verified, locally_trusted, wire, compared>>
    BY DEF DecryptEvent, ghosts, EarnedInv, TypeInv
<1>2. TypeInv'
    BY <1>1, RecalculatedEarned DEF EarnedInv, TypeInv, homeserver, wire
<1>3. QED
    BY <1>1, <1>2, RecalculatedEarned DEF EarnedInv, homeserver, wire

LEMMA TheyPublishEarned ==
    ASSUME EarnedInv, NEW signed \in SUBSET Devices, TheyPublish(signed)
    PROVE  EarnedInv'
<1>1. /\ theirs' = [identity |-> theirs.identity + 1, signed |-> signed]
      /\ theirs.identity < MaxIdentities
      /\ UNCHANGED <<signatures, store, wire, compared>>
    BY DEF TheyPublish
<1>2. theirs.identity + 1 \in Identities
    BY <1>1, SenderAssumption DEF EarnedInv, TypeInv, Identities
<1>3. TypeInv'
    BY <1>1, <1>2 DEF EarnedInv, TypeInv, store, wire
<1>4. QED
    BY <1>1, <1>3 DEF EarnedInv, store, wire

LEMMA QueryIsRequest ==
    ASSUME NEW kind \in Kinds
    PROVE  Query(kind) \in Requests
BY SenderAssumption DEF Query, Requests, Identities, None

LEMMA UploadIsRequest ==
    ASSUME EarnedInv
    PROVE  Upload \in Requests
<1>1. "SignatureUpload" \in Kinds /\ known.identity \in Identities
    BY DEF Kinds, EarnedInv, TypeInv, Answers
<1>2. QED
    BY <1>1 DEF Upload, Requests

\* An identity that is compared is one that was published.
LEMMA HeldIsPublished ==
    ASSUME EarnedInv, SameIdentity
    PROVE  known.identity \in 1 .. MaxIdentities
BY SenderAssumption DEF SameIdentity, None, EarnedInv, TypeInv, Answers, Identities

LEMMA NoticeEarned ==
    ASSUME EarnedInv, Notice
    PROVE  EarnedInv'
<1>1. Query("KeysQuery") \in Requests /\ Query("KeysQuery").kind # "SignatureUpload"
    BY QueryIsRequest DEF Kinds, Queries, Query
<1>2. QED
    BY <1>1, QueuedEarned DEF Notice, store, ghosts, EarnedInv, TypeInv

LEMMA CompareEarned ==
    ASSUME EarnedInv, NEW d \in Devices, Compare(d)
    PROVE  EarnedInv'
<1>1. /\ compared' = [devices |-> compared.devices \cup {d},
                      identities |-> compared.identities
                                         \cup IF SameIdentity THEN {known.identity} ELSE {}]
      /\ locally_trusted' = locally_trusted \cup {d}
      /\ UNCHANGED <<homeserver, known, previously_verified, session, response>>
    BY DEF Compare, CompareIdentities
<1>2. /\ compared.identities \subseteq compared'.identities
      /\ compared.devices \subseteq compared'.devices
      /\ locally_trusted' \subseteq compared'.devices /\ locally_trusted' \subseteq Devices
      /\ compared'.identities \subseteq 1 .. MaxIdentities
    BY <1>1, HeldIsPublished DEF EarnedInv, TypeInv
<1>3. CASE SameIdentity /\ ours
    <2>1. requests' = Append(requests, Upload) /\ Upload.identity \in compared'.identities
        BY <1>1, <1>3 DEF Compare, Upload
    <2>2. QED
        BY <1>1, <1>2, <2>1, UploadIsRequest, QueuedEarned
<1>4. CASE ~(SameIdentity /\ ours)
    BY <1>1, <1>2, <1>4, ComparedEarned DEF Compare, wire
<1>5. QED
    BY <1>3, <1>4

LEMMA ScanEarned ==
    ASSUME EarnedInv, NEW cut \in BOOLEAN, Scan(cut)
    PROVE  EarnedInv'
<1> DEFINE ask == Query("PeerKeysQueryOutOfBand")
           sig == Upload
<1>1. /\ compared' = [devices |-> compared.devices \cup {},
                      identities |-> compared.identities \cup {known.identity}]
      /\ \/ requests' = Append(Append(requests, sig), ask)
         \/ requests' = Append(Append(requests, ask), sig)
      /\ UNCHANGED <<homeserver, store, response>>
    BY DEF Scan, CompareIdentities, QueuePeerKeyQueries
<1>2. requests \in Seq(Requests) /\ sig \in Requests /\ ask \in Requests
    BY UploadIsRequest, QueryIsRequest DEF EarnedInv, TypeInv, Kinds, Queries
<1>3. sig.identity = known.identity /\ ask.kind # "SignatureUpload"
    BY DEF Upload, Query
<1> HIDE DEF ask, sig
<1>4. requests' \in Seq(Requests) /\ requests' # <<>>
    BY <1>1, <1>2
<1>5. \A n \in 1 .. Len(requests') :
         requests'[n] \in {sig, ask} \/ (n \in 1 .. Len(requests) /\ requests'[n] = requests[n])
    BY <1>1, <1>2
<1>6. \A n \in 1 .. Len(requests') :
         requests'[n].kind = "SignatureUpload" => requests'[n].identity \in compared'.identities
    BY <1>1, <1>3, <1>5 DEF EarnedInv
<1>7. known.identity \in 1 .. MaxIdentities
    BY HeldIsPublished DEF Scan
<1>8. TypeInv'
    BY <1>1, <1>4, <1>7 DEF EarnedInv, TypeInv, homeserver, store
<1>9. QED
    BY <1>1, <1>6, <1>8 DEF EarnedInv, homeserver, store

\* What a homeserver that serves the first request does, and what it shows of what
\* it had before.
LEMMA ServeEarned ==
    ASSUME EarnedInv, Waiting, Serve, response'.says \subseteq {Snapshot}
    PROVE  EarnedInv'
<1>1. /\ signatures' = IF Request.kind = "SignatureUpload" /\ Request.identity = theirs.identity
                       THEN signatures \cup {theirs.identity} ELSE signatures
      /\ UNCHANGED <<theirs, store, requests, compared>>
    BY DEF Serve, ghosts
<1>2. requests # <<>> /\ Request = requests[1] /\ 1 \in 1 .. Len(requests)
    BY DEF Waiting, Request, EarnedInv, TypeInv
<1>3. signatures \subseteq signatures' /\ signatures' \subseteq compared.identities
    BY <1>1, <1>2 DEF EarnedInv
<1>4. Snapshot \in Answers /\ (Snapshot.signature => Snapshot.identity \in signatures)
    <2>1. theirs.identity \in Identities /\ theirs.signed \in SUBSET Devices
        BY DEF EarnedInv, TypeInv
    <2>2. /\ Snapshot.signature = (theirs.identity \in signatures)
          /\ Snapshot.identity = theirs.identity
        BY DEF Snapshot
    <2>3. Snapshot \in Answers
        BY <2>1 DEF Snapshot, Answers
    <2>4. QED
        BY <2>2, <2>3
<1>5. TypeInv'
    BY <1>1, <1>2, <1>3, <1>4 DEF EarnedInv, TypeInv, store
<1>6. \A s \in response'.says : s.signature => s.identity \in signatures'
    BY <1>3, <1>4
<1>7. known.signature => known.identity \in signatures'
    BY <1>3 DEF EarnedInv
<1>8. session \in Sessions =>
         /\ session.data = "SenderVerified" => session.of \in signatures'
         /\ session.data = "VerificationViolation" => signatures' # {}
    BY <1>3 DEF EarnedInv
<1>9. QED
    BY <1>1, <1>3, <1>5, <1>6, <1>7, <1>8 DEF EarnedInv, store

\* What a query that is told the person's keys is told makes of the store.
LEMMA LearnEarned ==
    ASSUME EarnedInv, response # NoResponse, Learn(response.says)
    PROVE  /\ known' \in Answers
           /\ known'.signature => known'.identity \in signatures
           /\ previously_verified' => signatures # {}
<1> DEFINE heard == {s \in response.says : Request.kind \in Queries}
           s == CHOOSE s \in heard : TRUE
<1>1. heard \subseteq Answers /\ \A t \in heard : t.signature => t.identity \in signatures
    BY DEF EarnedInv, TypeInv
<1>2. /\ known' = IF heard = {} THEN known
                  ELSE IF s.identity = None THEN [known EXCEPT !.devices = s.devices] ELSE s
      /\ previously_verified' = (previously_verified \/ (ours /\ known'.signature))
    BY DEF Learn
<1>3. heard # {} => s \in heard
    OBVIOUS
<1> HIDE DEF heard, s
<1>4. known \in Answers /\ (known.signature => known.identity \in signatures)
    BY DEF EarnedInv, TypeInv
<1>5. CASE heard = {}
    BY <1>2, <1>4, <1>5 DEF EarnedInv
<1>6. CASE heard # {} /\ s.identity # None
    BY <1>1, <1>2, <1>3, <1>6 DEF EarnedInv
<1>7. CASE heard # {} /\ s.identity = None
    <2>1. known' = [known EXCEPT !.devices = s.devices] /\ s \in Answers
        BY <1>1, <1>2, <1>3, <1>7
    <2>2. /\ known' \in Answers
          /\ known'.signature = known.signature /\ known'.identity = known.identity
        BY <1>4, <2>1 DEF Answers
    <2>3. QED
        BY <1>2, <1>4, <2>2 DEF EarnedInv
<1>8. QED
    BY <1>5, <1>6, <1>7

LEMMA MarkSentEarned ==
    ASSUME EarnedInv, MarkSent
    PROVE  EarnedInv'
<1>1. /\ response # NoResponse /\ Learn(response.says)
      /\ requests' = Tail(requests) /\ response' = NoResponse
      /\ UNCHANGED <<homeserver, locally_trusted, session, compared>>
    BY DEF MarkSent, ghosts
<1>2. requests \in Seq(Requests) /\ requests # <<>>
    BY <1>1 DEF EarnedInv, TypeInv
<1>3. requests' \in Seq(Requests)
    BY <1>1, <1>2
<1>4. \A n \in 1 .. Len(requests') : n + 1 \in 1 .. Len(requests) /\ requests'[n] = requests[n + 1]
    BY <1>1, <1>2
<1>5. \A n \in 1 .. Len(requests') :
         requests'[n].kind = "SignatureUpload" => requests'[n].identity \in compared.identities
    BY <1>4 DEF EarnedInv
<1>6. TypeInv'
    BY <1>1, <1>3, LearnEarned DEF EarnedInv, TypeInv, homeserver
<1>7. QED
    BY <1>1, <1>5, <1>6, LearnEarned DEF EarnedInv, homeserver

LEMMA MarkFailedEarned ==
    ASSUME EarnedInv, UNCHANGED <<homeserver, store, requests, compared>>,
           response' = NoResponse \/ (Waiting /\ response'.says = {})
    PROVE  EarnedInv'
<1>1. TypeInv'
    BY DEF EarnedInv, TypeInv, homeserver, store, Waiting
<1>2. QED
    BY <1>1 DEF EarnedInv, homeserver, store

LEMMA RestartEarned ==
    ASSUME EarnedInv, Restart
    PROVE  EarnedInv'
<1>1. /\ requests' = <<>> /\ response' = NoResponse
      /\ UNCHANGED <<homeserver, store, compared>>
    BY DEF Restart
<1>2. TypeInv'
    BY <1>1 DEF EarnedInv, TypeInv, homeserver, store
<1>3. QED
    BY <1>1, <1>2 DEF EarnedInv, homeserver, store

LEMMA EarnedStep ==
    ASSUME EarnedInv, [Next]_vars
    PROVE  EarnedInv'
<1>1. CASE Bootstrap
    BY <1>1, ComparedEarned DEF Bootstrap, ghosts, EarnedInv, TypeInv
<1>2. CASE Accepted
    BY <1>2, ServeEarned DEF Accepted
<1>3. CASE AnswerLost
    BY <1>3, ServeEarned DEF AnswerLost
<1>4. ASSUME NEW body, Refused(body)
      PROVE  EarnedInv'
    BY <1>4, MarkFailedEarned DEF Refused, ghosts
<1>5. CASE MarkFailed
    BY <1>5, MarkFailedEarned DEF MarkFailed, ghosts
<1>6. CASE UNCHANGED vars
    BY <1>6, ComparedEarned DEF vars, store, ghosts, EarnedInv, TypeInv
<1>7. QED
    BY <1>1, <1>2, <1>3, <1>4, <1>5, <1>6, KeyArrivesEarned, CompareEarned, ImportKeyEarned,
       DecryptEventEarned, TheyPublishEarned, NoticeEarned, ScanEarned, MarkSentEarned,
       RestartEarned
       DEF Next

\* "Nothing except the real chain produces Verified", for any devices and any number
\* of identities, comparisons, scans, replacements, refusals and restarts.
THEOREM VerdictsAreEarnedHolds == Spec => []VerdictsAreEarned
<1>1. Init => EarnedInv
    <2>1. SUFFICES ASSUME Init
                   PROVE  EarnedInv
        OBVIOUS
    <2>2. known \in Answers /\ ~known.signature
        BY <2>1, SenderAssumption DEF Init, Unasked, Answers, Identities, None
    <2>3. theirs \in [identity : Identities, signed : SUBSET Devices]
        BY <2>1, SenderAssumption DEF Init, Nobody, Identities, None
    <2>4. /\ signatures = {} /\ locally_trusted = {} /\ ~previously_verified
          /\ requests = <<>> /\ response = NoResponse /\ session = NoSession
          /\ compared.identities = {}
        BY <2>1 DEF Init
    <2>5. TypeInv
        BY <2>2, <2>3, <2>4 DEF TypeInv
    <2>6. QED
        BY <2>2, <2>4, <2>5, NoSessionIsNone DEF EarnedInv
<1>2. EarnedInv => VerdictsAreEarned
    BY EarnedVerdicts
<1>3. QED
    BY <1>1, <1>2, EarnedStep, PTL DEF Spec
=============================================================================
