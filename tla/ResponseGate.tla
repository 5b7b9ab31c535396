---------------------------- MODULE ResponseGate ----------------------------
(***************************************************************************)
(* What mark_request_sent and mark_request_failed make of an answer the    *)
(* product reports: the gate of session.rs (refuse_a_non_response) and the *)
(* parse behind it.  No status crosses with a body, so a refusal that is   *)
(* reported as sent has to be told from a success by its shape.            *)
(*                                                                         *)
(* A body is nothing at all, not an object, or an object of which only the *)
(* names of its top-level fields matter.  What a field holds is not        *)
(* modelled: a declared field is taken to be readable.                     *)
(***************************************************************************)
EXTENDS Naturals, FiniteSets

Queries == {"KeysQuery", "AccountKeysQuery", "AccountKeysQueryOutOfBand",
            "PeerKeysQueryOutOfBand"}

Kinds == Queries \cup {"KeysUpload", "KeysClaim", "ToDevice", "SignatureUpload",
                       "RoomMessage", "SigningKeysUpload", "RoomKeyBackup"}

\* PendingKind::tag: the name of a kind on the wire, one for all queries.
tag(kind) ==
    CASE kind \in Queries           -> "keys_query"
      [] kind = "KeysUpload"        -> "keys_upload"
      [] kind = "KeysClaim"         -> "keys_claim"
      [] kind = "ToDevice"          -> "to_device"
      [] kind = "SignatureUpload"   -> "signature_upload"
      [] kind = "RoomMessage"       -> "room_message"
      [] kind = "SigningKeysUpload" -> "signing_keys_upload"
      [] kind = "RoomKeyBackup"     -> "room_key_backup"

QueryFields == {"failures", "device_keys", "master_keys", "self_signing_keys",
                "user_signing_keys"}

\* What a success of the kind may hold.
declared_response_fields(kind) ==
    CASE tag(kind) = "keys_query"       -> QueryFields
      [] tag(kind) = "keys_upload"      -> {"one_time_key_counts"}
      [] tag(kind) = "keys_claim"       -> {"failures", "one_time_keys"}
      [] tag(kind) = "signature_upload" -> {"failures"}
      [] tag(kind) = "room_message"     -> {"event_id"}
      [] tag(kind) = "room_key_backup"  -> {"etag", "count"}
      [] OTHER -> {}

-----------------------------------------------------------------------------
(* Bodies.                                                                 *)

Object(fields) == [shape |-> "object", fields |-> fields]
NoBytes == [shape |-> "none", fields |-> {}]
NoObject == [shape |-> "other", fields |-> {}]    \* an array, a page, spaces

Markers == {"errcode", "error", "flows"}
Foreign == {"message", "detail"}                  \* fields no response declares

\* ruma's own parse: the fields without a default, which a body must have. No
\* bytes are an empty object to it.
Required(kind) ==
    CASE tag(kind) = "keys_upload"     -> {"one_time_key_counts"}
      [] tag(kind) = "keys_claim"      -> {"one_time_keys"}
      [] tag(kind) = "room_message"    -> {"event_id"}
      [] tag(kind) = "room_key_backup" -> {"etag", "count"}
      [] OTHER -> {}

\* Mutant of refuse_a_non_response: it asks only whether a body looks like an error.
refuse_a_marked_response(kind, body) ==
    \/ body.shape = "other"
    \/ body.fields \cap Markers # {}

refuse_a_non_response(kind, body) ==
    \/ body.shape = "other"
    \/ body.fields \cap Markers # {}
    \/ body.fields # {} /\ body.fields \cap declared_response_fields(kind) = {}

\* mark_request_sent, up to what the answer says: http_response gives every body
\* status 200.
AnswerToSent(kind, body) ==
    IF refuse_a_non_response(kind, body) \/ ~(Required(kind) \subseteq body.fields)
    THEN "MalformedPayload"
    ELSE "ok"

\* 0 is no response at all.
is_a_failure_status(status) == status = 0 \/ status \in 300 .. 599

AnswerToFailed(status) ==
    IF is_a_failure_status(status) THEN "ok" ELSE "NotAFailureStatus"

-----------------------------------------------------------------------------
(* What a homeserver, or something in front of it, really sends.           *)

\* The fields the specification gives a success of the kind.
Specified(kind) ==
    CASE tag(kind) = "keys_query" ->
            {"failures", "device_keys", "master_keys", "self_signing_keys",
             "user_signing_keys"}
      [] tag(kind) = "keys_upload" -> {"one_time_key_counts"}
      [] tag(kind) = "keys_claim" -> {"failures", "one_time_keys"}
      [] tag(kind) = "signature_upload" -> {"failures"}
      [] tag(kind) = "room_message" -> {"event_id"}
      [] tag(kind) = "room_key_backup" -> {"etag", "count"}
      [] tag(kind) \in {"to_device", "signing_keys_upload"} -> {}

Fields == UNION {Specified(kind) : kind \in Kinds} \cup Markers \cup Foreign

\* A success has what it must have and nothing but what is specified, or what a
\* later specification adds to that. With nothing to say it may have no bytes.
Successes(kind) ==
    {Object(Required(kind) \cup some) : some \in SUBSET Specified(kind)}
    \cup (IF Specified(kind) # {} THEN {Object(Specified(kind) \cup {"later"})} ELSE {})
    \cup (IF Required(kind) = {} THEN {NoBytes} ELSE {})

\* Bodies that show that the request was refused: a page; a Matrix error, a
\* challenge or a gateway's error, also beside fields of a success; an object of
\* fields that are no success of this kind.
Refusals(kind) ==
    {NoObject}
    \cup {Object(marks \cup Specified(kind)) : marks \in (SUBSET Markers) \ {{}}}
    \cup {Object({f, g}) : f \in Fields \ Specified(kind), g \in Fields \ Specified(kind)}

\* Refusals that do not: of these only the status tells.
MuteRefusals == {NoBytes, Object({})}

\* Every success of every kind is taken, nothing that shows it is a refusal is, and
\* of the statuses a final answer can have each has one of the two calls to go to.
Separated ==
    /\ \A kind \in Kinds :
          /\ \A body \in Successes(kind) : AnswerToSent(kind, body) = "ok"
          /\ \A body \in Refusals(kind) : AnswerToSent(kind, body) # "ok"
    /\ \A status \in {0} \cup 200 .. 599 :
          (AnswerToFailed(status) = "ok") = (status \notin 200 .. 299)
=============================================================================
