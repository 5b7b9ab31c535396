----------------------------- MODULE RequestPump -----------------------------
(***************************************************************************)
(* The outbound request pump of session.rs: the process-wide RequestState  *)
(* behind STATE, the calls that queue into it, the drain that hands        *)
(* requests out (take_outgoing_requests), and the report that resolves one *)
(* (mark_request_sent).                                                    *)
(*                                                                         *)
(* Two locks meet here: the machine lock of with_machine, under which      *)
(* upstream is read or changed, and STATE.  STATE is only ever taken for a *)
(* moment, sometimes inside the machine lock (signing.rs queues there),    *)
(* and never across it.  A call that needs both is several steps, and the  *)
(* steps of other calls run between them.  One action is one section.      *)
(*                                                                         *)
(* Transaction ids are naturals in the order they were minted.  The code   *)
(* never compares two ids except for equality, and neither do the actions. *)
(* The order of a batch is that of its entries' sequences, under which all *)
(* of them are in `pending` when the batch leaves.                         *)
(***************************************************************************)
EXTENDS Naturals, Sequences, FiniteSets

CONSTANTS
    Callers,           \* concurrent calls into the crate that queue requests
    Drains,            \* concurrent calls of take_outgoing_requests
    Programs,          \* what a caller may queue, and whether under the machine lock
    ReactionKinds,     \* kinds upstream may queue by itself on a sync
    Needs,             \* standing needs upstream re-derives on every drain
    Sharing,           \* whether callers share scope keys
    Overlap,           \* what the product lets run while a drain is under way
    Reports,           \* concurrent calls of mark_request_sent
    MaxIds,            \* bound: transaction ids minted in a behaviour
    MaxRepeatAt,       \* bound: the sequence after which no action is repeated
    MaxActionAt,       \* bound: the id after which no flow asks for an action
    MaxSyncAt          \* bound: the id after which no sync makes upstream react

Ids == 0 .. (MaxIds - 1)

Kinds == {"KeysUpload", "KeysQuery", "AccountKeysQuery",
          "AccountKeysQueryOutOfBand", "PeerKeysQueryOutOfBand", "KeysClaim",
          "ToDevice", "SignatureUpload", "RoomMessage", "SigningKeysUpload",
          "RoomKeyBackup"}

\* The kinds queue_action_request is given.
ActionKinds == {"KeysUpload", "ToDevice", "SignatureUpload", "RoomMessage"}

\* The two kinds kept in a slot of their own, and the appended one.
SlotKinds == {"SigningKeysUpload", "AccountKeysQueryOutOfBand"}

QueueableKinds == ActionKinds \cup SlotKinds \cup {"PeerKeysQueryOutOfBand"}

AccountKinds == {"AccountKeysQuery", "AccountKeysQueryOutOfBand"}

\* describe_outgoing: the kinds of upstream's own requests.
OutgoingKinds == {"KeysUpload", "KeysQuery", "KeysClaim", "ToDevice",
                  "SignatureUpload", "RoomMessage"}

\* account_scoped: a key query that names this account is told apart.
AccountScoped(kind, named) ==
    IF kind = "KeysQuery" /\ named THEN "AccountKeysQuery" ELSE kind

\* What upstream derives anew on every drain, and what it queues once.
StandingKinds == {AccountScoped(kind, named) :
                    kind \in {"KeysUpload", "KeysQuery"}, named \in BOOLEAN}
QueuedKinds == (OutgoingKinds \ {"KeysUpload", "KeysQuery", "KeysClaim"})
                 \cup {"RoomKeyBackup"}

\* AnswerAboutAccount: what an accepted response settles.
AnswerAboutAccount == {"NotAsked", "Settled", "Unsettled"}

ASSUME PumpAssumption ==
    /\ MaxIds \in Nat
    /\ MaxRepeatAt \in Nat /\ MaxActionAt \in Nat /\ MaxSyncAt \in Nat
    /\ Programs \subseteq [locked : BOOLEAN,
                          calls : Seq(QueueableKinds \ {"PeerKeysQueryOutOfBand"})]
    /\ ReactionKinds \subseteq QueuedKinds
    /\ Needs \subseteq StandingKinds
    /\ Sharing \in BOOLEAN
    /\ Overlap \subseteq {"sync", "report"}

-----------------------------------------------------------------------------
VARIABLES
    \* RequestState, behind STATE.  An Option is a set of at most one element.
    queued_to_device,      \* ids
    pending_claim,         \* Option of an id
    queued_action,         \* entries stamped with a sequence
    queued_signing_keys,   \* Option of a stamped entry
    queued_account_query,  \* Option of a stamped entry
    queued_peer_queries,   \* ids, unstamped
    pending,               \* id -> [kind, sequence], handed out and unresolved
    account_keys_answered,
    account_keys_answer_unsettled,
    next_sequence,
    \* The upstream machine, as far as its requests go.
    reactions,             \* requests upstream queued for itself, unsent
    unshared,              \* to-device requests of share_room_key, unsent
    needs,                 \* standing needs
    derived,               \* the ids of the last derivation of those needs
    nextId,
    \* Calls in progress.
    holder,                \* Option of the caller inside with_machine
    inHand,                \* caller -> requests obtained, not queued yet
    sharing,               \* caller -> Option of what share_scope_key obtained
    snapshot,              \* drain  -> Option of what upstream offered it
    marking,               \* reports of a response in progress
    \* What has left the pump.
    handed,                \* every request handed out so far
    \* Auxiliary: what the properties need to remember.
    latest,                \* group -> ids of the last batch holding that group
    precedes               \* pairs of requests whose hand-out order matters

state    == <<queued_to_device, pending_claim, queued_action,
              queued_signing_keys, queued_account_query, queued_peer_queries,
              pending, next_sequence>>
flags    == <<account_keys_answered, account_keys_answer_unsettled>>
upstream == <<reactions, unshared, needs, derived>>
out      == <<handed, latest>>
vars     == <<state, flags, upstream, nextId, holder, inHand, sharing, snapshot,
              marking, out, precedes>>

Request == [id : Ids, kind : Kinds]

\* Why one request has to leave before another: an acknowledgement produced
\* in reaction follows the action queued before it; signatures follow the
\* publication; the query that reads a signature back follows its upload.
\* "cut" is such a query whose sync came between the two sections of a drain,
\* which read upstream before it and may take the query alone.
Reasons == {"reaction", "signature", "readback", "cut"}
Pair(first, second, why) == [first |-> first, second |-> second, why |-> why]

-----------------------------------------------------------------------------
\* Mutant of EvictionGroup: the out-of-band query about this account is named
\* by its tag, like the ordinary key queries.
EvictionGroupByTag(kind) ==
    CASE kind = "KeysUpload" -> "keys_upload"
      [] kind \in {"KeysQuery", "AccountKeysQuery",
                   "AccountKeysQueryOutOfBand"} -> "keys_query"
      [] kind = "KeysClaim" -> "keys_claim"
      [] kind = "SigningKeysUpload" -> "signing_keys_upload"
      [] OTHER -> "none"

(* PendingKind::eviction_group: which unresolved requests a fresh one      *)
(* makes pointless to keep.  "none" is the code's None.                    *)

NoGroup == "none"

EvictionGroup(kind) ==
    CASE kind = "KeysUpload" -> "keys_upload"
      [] kind \in {"KeysQuery", "AccountKeysQuery"} -> "keys_query"
      [] kind = "KeysClaim" -> "keys_claim"
      [] kind = "SigningKeysUpload" -> "signing_keys_upload"
      [] kind = "AccountKeysQueryOutOfBand" -> "account_keys_query_out_of_band"
      [] OTHER -> NoGroup

Groups == {"keys_upload", "keys_query", "keys_claim", "signing_keys_upload",
           "account_keys_query_out_of_band"}

\* The order in which take_outgoing_requests builds its `fresh` vector, for
\* the entries that carry no stamp of their own.
Rank(source, kind) ==
    CASE source = "upstream" /\ kind = "KeysUpload" -> 1
      [] source = "upstream" /\ kind \in {"KeysQuery", "AccountKeysQuery"} -> 2
      [] source = "upstream" /\ kind \in QueuedKinds \ {"RoomKeyBackup"} -> 3
      [] source = "upstream" /\ kind = "RoomKeyBackup" -> 4
      [] source = "to_device" -> 5
      [] source = "claim" -> 6
      [] OTHER -> 7

-----------------------------------------------------------------------------
Init ==
    /\ queued_to_device = {}
    /\ pending_claim = {}
    /\ queued_action = {}
    /\ queued_signing_keys = {}
    /\ queued_account_query = {}
    /\ queued_peer_queries = {}
    /\ pending = [i \in {} |-> [kind |-> "ToDevice", sequence |-> 0]]
    /\ account_keys_answered = FALSE
    /\ account_keys_answer_unsettled = FALSE
    /\ next_sequence = 0
    /\ reactions = {}
    /\ unshared = {}
    /\ needs = Needs
    /\ derived = {}
    /\ nextId = 0
    /\ holder = {}
    /\ inHand = [c \in Callers |-> <<>>]
    /\ sharing = [c \in Callers |-> {}]
    /\ snapshot = [d \in Drains |-> {}]
    /\ marking = {}
    /\ handed = {}
    /\ latest = [g \in Groups |-> {}]
    /\ precedes = {}

InHand(c) == {inHand[c][n] : n \in DOMAIN inHand[c]}

Idle(c) == inHand[c] = <<>> /\ sharing[c] = {}

\* Verification actions the pump knows about and nobody has resolved.
FlowKinds == {"ToDevice", "SignatureUpload", "RoomMessage"}
KnownActions ==
    {e.id : e \in {q \in queued_action : q.kind \in FlowKinds}} \cup
    {i \in DOMAIN pending : pending[i].kind \in FlowKinds}

NoDrain == \A d \in Drains : snapshot[d] = {}

-----------------------------------------------------------------------------
(* Calls that obtain requests under the machine lock and queue them        *)
(* afterwards, each under its own acquisition of STATE.                    *)

\* may_create and may_publish: a publication needs the account's keys to have
\* been answered about; the call that finds they were not asks for them.
GateAllows(calls) ==
    /\ "SigningKeysUpload" \in {calls[n] : n \in DOMAIN calls} => account_keys_answered
    /\ calls = <<"AccountKeysQueryOutOfBand">> => ~account_keys_answered

\* The upstream half of a caller's call (request_flow, confirm_flow,
\* bootstrap_identity, create_identity...): the machine hands back one
\* request per kind of the program.  signing.rs keeps the machine lock until
\* it has queued them all, verification.rs does not.
Obtain(c, program) ==
    /\ Idle(c) /\ holder = {}
    /\ GateAllows(program.calls)
    /\ program.locked \/ nextId <= MaxActionAt
    /\ nextId + Len(program.calls) <= MaxIds
    /\ inHand' = [inHand EXCEPT ![c] =
                    [n \in 1 .. Len(program.calls) |->
                        [id |-> nextId + n - 1, kind |-> program.calls[n]]]]
    /\ holder' = IF program.locked THEN {c} ELSE {}
    /\ nextId' = nextId + Len(program.calls)
    /\ UNCHANGED <<state, flags, upstream, sharing, snapshot, marking, out,
                   precedes>>

\* A caller repeating an action before the first is taken gets the same
\* request from upstream again.
Repeat(c) ==
    /\ Idle(c)
    /\ next_sequence < MaxRepeatAt
    /\ \E e \in queued_action :
          inHand' = [inHand EXCEPT ![c] = <<[id |-> e.id, kind |-> e.kind]>>]
    /\ UNCHANGED <<state, flags, upstream, nextId, holder, sharing, snapshot,
                   marking, out, precedes>>

\* Mutant of QueueActionRequest: de-duplicated against the queue only.
QueueActionRequestTwice(r) ==
    /\ r.kind \in ActionKinds
    /\ IF \E e \in queued_action : e.id = r.id
       THEN UNCHANGED <<queued_action, next_sequence>>
       ELSE /\ queued_action' = queued_action \cup
                 {[id |-> r.id, kind |-> r.kind, sequence |-> next_sequence]}
            /\ next_sequence' = next_sequence + 1
    /\ UNCHANGED <<queued_signing_keys, queued_account_query,
                   queued_peer_queries, nextId, precedes>>

\* queue_action_request: de-duplicated by id against the queue and pending.
QueueActionRequest(r) ==
    /\ r.kind \in ActionKinds
    /\ IF \/ \E e \in queued_action : e.id = r.id
          \/ r.id \in DOMAIN pending
       THEN UNCHANGED <<queued_action, next_sequence>>
       ELSE /\ queued_action' = queued_action \cup
                 {[id |-> r.id, kind |-> r.kind, sequence |-> next_sequence]}
            /\ next_sequence' = next_sequence + 1
    /\ UNCHANGED <<queued_signing_keys, queued_account_query,
                   queued_peer_queries, nextId, precedes>>

\* Mutant of QueueSigningKeysRequest: a replaced slot gets a new sequence.
QueueSigningKeysRequestAnew(c, r) ==
    /\ r.kind = "SigningKeysUpload"
    /\ queued_signing_keys' = {[id |-> r.id, kind |-> r.kind,
                                sequence |-> next_sequence]}
    /\ next_sequence' = next_sequence + 1
    /\ precedes' = precedes \cup
         {Pair(r.id, q.id, "signature") : q \in {q \in InHand(c) : q.kind = "SignatureUpload"}}
    /\ UNCHANGED <<queued_action, queued_account_query, queued_peer_queries, nextId>>

\* queue_signing_keys_request: replacing the slot keeps its sequence, under
\* a transaction id of its own, which nobody has seen before.
QueueSigningKeysRequest(c, r) ==
    /\ r.kind = "SigningKeysUpload"
    /\ \/ /\ queued_signing_keys = {}
          /\ queued_signing_keys' = {[id |-> r.id, kind |-> r.kind,
                                      sequence |-> next_sequence]}
          /\ next_sequence' = next_sequence + 1
       \/ /\ queued_signing_keys # {}
          /\ queued_signing_keys' = {[id |-> r.id, kind |-> r.kind,
                                      sequence |-> e.sequence] :
                                        e \in queued_signing_keys}
          /\ UNCHANGED next_sequence
    /\ precedes' = precedes \cup
         {Pair(r.id, q.id, "signature") : q \in {q \in InHand(c) : q.kind = "SignatureUpload"}}
    /\ UNCHANGED <<queued_action, queued_account_query, queued_peer_queries, nextId>>

\* Mutant of QueueAccountKeyQuery: stamped without advancing the counter.
QueueAccountKeyQueryUncounted(r) ==
    /\ r.kind = "AccountKeysQueryOutOfBand"
    /\ queued_account_query' = {[id |-> r.id, kind |-> r.kind,
                                 sequence |-> next_sequence]}
    /\ UNCHANGED <<queued_action, queued_signing_keys, queued_peer_queries,
                   next_sequence, nextId, precedes>>

\* queue_account_key_query: the same slot discipline.
QueueAccountKeyQuery(r) ==
    /\ r.kind = "AccountKeysQueryOutOfBand"
    /\ \/ /\ queued_account_query = {}
          /\ queued_account_query' = {[id |-> r.id, kind |-> r.kind,
                                       sequence |-> next_sequence]}
          /\ next_sequence' = next_sequence + 1
       \/ /\ queued_account_query # {}
          /\ queued_account_query' = {[id |-> r.id, kind |-> r.kind,
                                       sequence |-> e.sequence] :
                                         e \in queued_account_query}
          /\ UNCHANGED next_sequence
    /\ UNCHANGED <<queued_action, queued_signing_keys, queued_peer_queries,
                   nextId, precedes>>

\* queue_peer_key_query: a machine-lock trip of its own after the sync's;
\* appended, and stamped only when it is handed out.
QueuePeerKeyQuery(r) ==
    /\ r.kind = "PeerKeysQueryOutOfBand"
    /\ holder = {}
    /\ queued_peer_queries' = queued_peer_queries \cup {r.id}
    /\ UNCHANGED <<queued_action, queued_signing_keys, queued_account_query,
                   next_sequence, nextId, precedes>>

\* A caller queues the next request it has in hand.
Queue(c) ==
    /\ inHand[c] # <<>>
    /\ LET r == Head(inHand[c]) IN
          \/ QueueActionRequest(r)
          \/ QueueSigningKeysRequest(c, r)
          \/ QueueAccountKeyQuery(r)
          \/ QueuePeerKeyQuery(r)
    /\ inHand' = [inHand EXCEPT ![c] = Tail(@)]
    /\ holder' = IF Len(inHand[c]) = 1 THEN holder \ {c} ELSE holder
    /\ UNCHANGED <<queued_to_device, pending_claim, pending, flags, upstream,
                   sharing, snapshot, marking, out>>

-----------------------------------------------------------------------------
(* receive_sync_changes: upstream applies the sync under the machine lock  *)
(* and may queue a reaction of its own.  A completed verification of       *)
(* another person also owes a key query about that person, which the same  *)
(* call obtains and queues after the machine lock is released.             *)

SyncReaction(kind) ==
    /\ holder = {}
    /\ nextId < MaxIds /\ nextId <= MaxSyncAt
    /\ "sync" \in Overlap \/ NoDrain
    /\ reactions' = reactions \cup {[id |-> nextId, kind |-> kind]}
    /\ precedes' = precedes \cup {Pair(a, nextId, "reaction") : a \in KnownActions}
    /\ nextId' = nextId + 1
    /\ UNCHANGED <<state, flags, unshared, needs, derived, holder, inHand, sharing,
                   snapshot, marking, out>>

SyncCompletion(c) ==
    /\ holder = {}
    /\ Idle(c)
    /\ "SignatureUpload" \in ReactionKinds
    /\ nextId + 1 < MaxIds /\ nextId <= MaxSyncAt
    /\ "sync" \in Overlap \/ NoDrain
    /\ reactions' = reactions \cup {[id |-> nextId, kind |-> "SignatureUpload"]}
    /\ precedes' = precedes \cup {Pair(a, nextId, "reaction") : a \in KnownActions}
                             \cup {Pair(nextId, nextId + 1,
                                        IF NoDrain THEN "readback" ELSE "cut")}
    /\ inHand' = [inHand EXCEPT ![c] =
                    <<[id |-> nextId + 1, kind |-> "PeerKeysQueryOutOfBand"]>>]
    /\ nextId' = nextId + 2
    /\ UNCHANGED <<state, flags, unshared, needs, derived, holder, sharing, snapshot,
                   marking, out>>

\* A sync, or a newly tracked user, makes upstream want something again.
NeedArises(kind) ==
    /\ holder = {}
    /\ kind \notin needs
    /\ needs' = needs \cup {kind}
    /\ UNCHANGED <<state, flags, reactions, unshared, derived, nextId, holder, inHand,
                   sharing, snapshot, marking, out, precedes>>

-----------------------------------------------------------------------------
(* share_scope_key: one machine-lock trip, then one STATE section that     *)
(* writes the claim slot and the to-device queue together.                 *)

\* missing and shared are upstream's two results; share_room_key hands back
\* every request of the session that is not marked sent yet.
ShareScopeKey(c, missing, fresh, sharedOk) ==
    /\ holder = {}
    /\ Sharing
    /\ Idle(c)
    /\ missing \subseteq {nextId}
    /\ fresh \subseteq {nextId + 1}
    /\ nextId + 2 <= MaxIds
    /\ nextId' = nextId + 2
    /\ unshared' = unshared \cup fresh
    /\ sharing' = [sharing EXCEPT ![c] =
                     {[claim |-> missing, toDevice |-> unshared \cup fresh,
                       sharedOk |-> sharedOk]}]
    /\ UNCHANGED <<state, flags, reactions, needs, derived, holder, inHand, snapshot,
                   marking, out, precedes>>

\* The claim is written first, and stays written when share_room_key failed.
QueueShared(c) ==
    /\ \E w \in sharing[c] :
          /\ pending_claim' = IF w.claim = {} THEN pending_claim ELSE w.claim
          /\ queued_to_device' = IF w.sharedOk
                                 THEN queued_to_device \cup w.toDevice
                                 ELSE queued_to_device
    /\ sharing' = [sharing EXCEPT ![c] = {}]
    /\ UNCHANGED <<queued_action, queued_signing_keys, queued_account_query,
                   queued_peer_queries, pending, next_sequence, flags, upstream,
                   nextId, holder, inHand, snapshot, marking, out, precedes>>

-----------------------------------------------------------------------------
(* take_outgoing_requests.                                                 *)

\* OlmMachine::outgoing_requests derives the standing needs in this order.
Position(need) ==
    CASE need = "KeysUpload" -> 0 [] need = "KeysQuery" -> 1 [] OTHER -> 2

\* Step one, under the machine lock: upstream's cache as it is, one freshly
\* minted request per standing need, and the backup batch unless reading it
\* failed.  Upstream forgets the ids of the last derivation.
TakeSnapshot(d, withBackup) ==
    LET fresh == {[id |-> nextId + Position(k), kind |-> k] : k \in needs}
        offered == {r \in reactions : withBackup \/ r.kind # "RoomKeyBackup"}
    IN
    /\ snapshot[d] = {} /\ holder = {}
    /\ "report" \in Overlap \/ marking = {}
    /\ needs # {} => nextId + 3 <= MaxIds
    /\ snapshot' = [snapshot EXCEPT ![d] = {offered \cup fresh}]
    /\ derived' = {r.id : r \in fresh}
    /\ nextId' = IF needs = {} THEN nextId ELSE nextId + 3
    /\ UNCHANGED <<state, flags, reactions, unshared, needs, holder, inHand, sharing,
                   marking, out, precedes>>

\* The orders when drain d ends with a batch of these ids.  A query it cut off
\* from its signature may be among them; one that is not, and that no other drain
\* under way may take, is behind its signature from here on.
OrdersAfter(d, taken) ==
    LET cut == {p \in precedes : p.why = "cut"} IN
    (precedes \ cut) \cup
    IF \A e \in Drains \ {d} : snapshot[e] = {}
    THEN {Pair(p.first, p.second, "readback") : p \in {q \in cut : q.second \notin taken}}
    ELSE {p \in cut : p.second \notin taken}

\* An upstream or serialisation error: the call returns before STATE changes.
TakeFails(d) ==
    /\ snapshot[d] # {}
    /\ snapshot' = [snapshot EXCEPT ![d] = {}]
    /\ precedes' = OrdersAfter(d, {})
    /\ UNCHANGED <<state, flags, upstream, nextId, holder, inHand, sharing, marking,
                   out>>

\* The part of `fresh` without a stamp of its own, in the order it is built.
Unstamped(offered) ==
    {[id |-> r.id, kind |-> r.kind, rank |-> Rank("upstream", r.kind)] :
        r \in offered}
    \cup {[id |-> i, kind |-> "ToDevice", rank |-> Rank("to_device", "ToDevice")] :
        i \in queued_to_device}
    \cup {[id |-> i, kind |-> "KeysClaim", rank |-> Rank("claim", "KeysClaim")] :
        i \in pending_claim}
    \cup {[id |-> i, kind |-> "PeerKeysQueryOutOfBand",
           rank |-> Rank("peer", "PeerKeysQueryOutOfBand")] :
        i \in queued_peer_queries}

Stamped == queued_action \cup queued_signing_keys \cup queued_account_query

NewIds(unstamped) == {u.id : u \in unstamped} \ DOMAIN pending

\* The stamps next_sequence gives the entries seen for the first time: the
\* next values of the counter, following the order `fresh` is built in.
\* Entries of one rank come out of maps keyed by random ids: any order.
Stamps(unstamped) ==
    LET new == NewIds(unstamped) IN
    {stamp \in [new -> next_sequence .. (next_sequence + Cardinality(new) - 1)] :
        \A u, v \in {w \in unstamped : w.id \in new} :
            /\ u.id # v.id => stamp[u.id] # stamp[v.id]
            /\ u.rank < v.rank => stamp[u.id] < stamp[v.id]}

\* Everything the batch carries: stamped at queue time, stamped when first
\* offered and still unresolved, or stamped now.
Ordered(unstamped, stamp) ==
    Stamped
    \cup {[id |-> u.id, kind |-> u.kind,
           sequence |-> IF u.id \in DOMAIN stamp THEN stamp[u.id]
                        ELSE pending[u.id].sequence] : u \in unstamped}

Refreshed(entries) == {EvictionGroup(e.kind) : e \in entries} \ {NoGroup}

\* Mutant of Registered: a fresh account query does not evict the stale one.
RegisteredKeepingQueries(entries) ==
    LET kept == {i \in DOMAIN pending :
                    \/ pending[i].kind = "AccountKeysQueryOutOfBand"
                    \/ EvictionGroup(pending[i].kind) \notin Refreshed(entries)}
        ids  == {e.id : e \in entries}
    IN [i \in kept \cup ids |->
          IF i \in ids
          THEN LET e == CHOOSE f \in entries : f.id = i
               IN [kind |-> e.kind, sequence |-> e.sequence]
          ELSE pending[i]]

\* `pending` after the eviction, once per batch, and the insertions.
Registered(entries) ==
    LET kept == {i \in DOMAIN pending :
                    EvictionGroup(pending[i].kind) \notin Refreshed(entries)}
        ids  == {e.id : e \in entries}
    IN [i \in kept \cup ids |->
          IF i \in ids
          THEN LET e == CHOOSE f \in entries : f.id = i
               IN [kind |-> e.kind, sequence |-> e.sequence]
          ELSE pending[i]]

\* What one drain leaves behind of a batch of entries.
HandOutBatch(d, unstamped, entries) ==
    /\ pending' = Registered(entries)
    /\ next_sequence' = next_sequence + Cardinality(NewIds(unstamped))
    /\ queued_to_device' = {}
    /\ pending_claim' = {}
    /\ queued_action' = {}
    /\ queued_signing_keys' = {}
    /\ queued_account_query' = {}
    /\ queued_peer_queries' = {}
    /\ snapshot' = [snapshot EXCEPT ![d] = {}]
    /\ handed' = handed \cup {[id |-> e.id, kind |-> e.kind] : e \in entries}
    /\ latest' = [g \in Groups |->
                    IF g \in Refreshed(entries)
                    THEN {e.id : e \in {f \in entries : EvictionGroup(f.kind) = g}}
                    ELSE latest[g]]
    /\ precedes' = OrdersAfter(d, {e.id : e \in entries})
    /\ UNCHANGED <<flags, upstream, nextId, holder, inHand, sharing, marking>>

\* Step two, under STATE.
HandOut(d) ==
    \E offered \in snapshot[d] :
      LET unstamped == Unstamped(offered) IN
         \E stamp \in Stamps(unstamped) :
            LET entries == Ordered(unstamped, stamp)
            IN  HandOutBatch(d, unstamped, entries)

-----------------------------------------------------------------------------
(* mark_request_sent, in three critical sections.  mark_request_failed     *)
(* changes nothing at all and has no action.                               *)

\* STATE: read the kind.  An id that is not pending is UnknownRequest, and a
\* body that is no response is refused here; neither changes anything.  Nothing
\* keeps two calls from reporting one id at once.
MarkRead(call, i) ==
    /\ i \in DOMAIN pending
    /\ "report" \in Overlap \/ NoDrain
    /\ \A m \in marking : m.call # call
    /\ marking' = marking \cup
         {[call |-> call, id |-> i, kind |-> pending[i].kind, applied |-> FALSE,
           settled |-> "NotAsked"]}
    /\ UNCHANGED <<state, flags, upstream, nextId, holder, inHand, sharing, snapshot,
                   out, precedes>>

\* What answer_about_this_account makes of an accepted response.
Answers(kind) ==
    {answer \in AnswerAboutAccount : kind \in AccountKinds <=> answer # "NotAsked"}

\* Mutant of MarkSent: upstream is told about some other transaction id.
MarkSentElsewhere(m, settled) ==
    /\ holder = {}
    /\ ~m.applied
    /\ settled \in Answers(m.kind)
    /\ marking' = (marking \ {m}) \cup
         {[m EXCEPT !.applied = TRUE, !.settled = settled]}
    /\ UNCHANGED <<state, flags, upstream, nextId, holder, inHand, sharing,
                   snapshot, out, precedes>>

\* Machine lock: upstream accepts the response.
MarkSent(m, settled) ==
    /\ holder = {}
    /\ ~m.applied
    /\ settled \in Answers(m.kind)
    /\ reactions' = {r \in reactions : r.id # m.id}
    /\ unshared' = unshared \ {m.id}
    /\ needs' = IF m.id \in derived THEN needs \ {m.kind} ELSE needs
    /\ marking' = (marking \ {m}) \cup
         {[m EXCEPT !.applied = TRUE, !.settled = settled]}
    /\ UNCHANGED <<state, flags, derived, nextId, holder, inHand, sharing, snapshot,
                   out, precedes>>

\* A response that does not parse, or that upstream rejects: no change.
MarkRejected(m) ==
    /\ holder = {}
    /\ ~m.applied
    /\ marking' = marking \ {m}
    /\ UNCHANGED <<state, flags, upstream, nextId, holder, inHand, sharing, snapshot,
                   out, precedes>>

\* STATE: resolve the entry and record what the answer settled.
MarkResolved(m) ==
    /\ m.applied
    /\ pending' = [i \in DOMAIN pending \ {m.id} |-> pending[i]]
    /\ account_keys_answered' = (account_keys_answered \/ m.settled = "Settled")
    /\ account_keys_answer_unsettled' =
         IF m.settled = "Settled" THEN FALSE
         ELSE \/ account_keys_answer_unsettled
              \/ m.settled = "Unsettled" /\ ~account_keys_answered
    /\ marking' = marking \ {m}
    /\ precedes' = {p \in precedes : p.first # m.id}
    /\ UNCHANGED <<queued_to_device, pending_claim, queued_action,
                   queued_signing_keys, queued_account_query,
                   queued_peer_queries, next_sequence, upstream, nextId, holder, inHand,
                   sharing, snapshot, out>>

-----------------------------------------------------------------------------
Next ==
    \/ \E c \in Callers :
          \/ \E program \in Programs : Obtain(c, program)
          \/ Repeat(c)
          \/ Queue(c)
          \/ SyncCompletion(c)
          \/ \E missing \in SUBSET {nextId}, fresh \in SUBSET {nextId + 1},
                sharedOk \in BOOLEAN : ShareScopeKey(c, missing, fresh, sharedOk)
          \/ QueueShared(c)
    \/ \E kind \in ReactionKinds : SyncReaction(kind)
    \/ \E kind \in Needs : NeedArises(kind)
    \/ \E d \in Drains :
          \/ \E withBackup \in BOOLEAN : TakeSnapshot(d, withBackup)
          \/ TakeFails(d)
          \/ HandOut(d)
    \/ \E call \in Reports : \E i \in DOMAIN pending : MarkRead(call, i)
    \/ \E m \in marking :
          \/ \E settled \in AnswerAboutAccount :
                MarkSent(m, settled)
          \/ MarkRejected(m)
          \/ MarkResolved(m)

Spec == Init /\ [][Next]_vars
-----------------------------------------------------------------------------
(* Properties.                                                             *)

\* Every variable of the pump has the type its field has in session.rs, and
\* the Options hold at most one element.
TypeOK ==
    /\ queued_to_device \subseteq Ids
    /\ pending_claim \subseteq Ids
    /\ queued_action \subseteq [id : Ids, kind : ActionKinds, sequence : Nat]
    /\ queued_signing_keys \subseteq
         [id : Ids, kind : {"SigningKeysUpload"}, sequence : Nat]
    /\ queued_account_query \subseteq
         [id : Ids, kind : {"AccountKeysQueryOutOfBand"}, sequence : Nat]
    /\ queued_peer_queries \subseteq Ids
    /\ DOMAIN pending \subseteq Ids
    /\ pending \in [DOMAIN pending -> [kind : Kinds, sequence : Nat]]
    /\ account_keys_answered \in BOOLEAN
    /\ account_keys_answer_unsettled \in BOOLEAN
    /\ next_sequence \in Nat
    /\ reactions \subseteq Request
    /\ unshared \subseteq Ids
    /\ needs \subseteq Needs
    /\ derived \subseteq Ids
    /\ nextId \in 0 .. MaxIds
    /\ holder \subseteq Callers
    /\ inHand \in [Callers -> Seq([id : Ids, kind : QueueableKinds])]
    /\ sharing \in [Callers -> SUBSET [claim : SUBSET Ids,
                        toDevice : SUBSET Ids, sharedOk : BOOLEAN]]
    /\ snapshot \in [Drains -> SUBSET SUBSET Request]
    /\ marking \subseteq [call : Reports, id : Ids, kind : Kinds, applied : BOOLEAN,
                         settled : AnswerAboutAccount]
    /\ handed \subseteq Request
    /\ latest \in [Groups -> SUBSET Ids]
    /\ precedes \subseteq [first : Ids, second : Ids, why : Reasons]

\* One order spans every source (Pending::sequence): two requests that are
\* queued with a stamp, or handed out and unresolved, never share a sequence,
\* and the counter is ahead of all of them.  Without it the order within a
\* batch would depend on how a stable sort breaks ties.
SequencesDistinct ==
    /\ \A e \in Stamped : e.sequence < next_sequence
    /\ \A i \in DOMAIN pending : pending[i].sequence < next_sequence
    /\ \A e, f \in Stamped : e.sequence = f.sequence => e = f
    /\ \A i, j \in DOMAIN pending :
          pending[i].sequence = pending[j].sequence => i = j
    /\ \A e \in Stamped, i \in DOMAIN pending :
          e.sequence # pending[i].sequence

\* queue_action_request's de-duplication: an id waiting in a stamped queue is
\* in no other stamped queue and is not also handed out and unresolved, so
\* resolving it once never leaves a second copy that answers UnknownRequest.
OneHomePerId ==
    \A e \in Stamped :
        /\ e.id \notin DOMAIN pending
        /\ \A f \in Stamped : e.id = f.id => e = f

\* eviction_group bounds `pending`: the unresolved requests of one group all
\* come from the last batch that carried the group, however many drains,
\* publications and refused bootstraps there were.
OneGeneration ==
    \A i \in DOMAIN pending :
        LET g == EvictionGroup(pending[i].kind)
        IN g # NoGroup => i \in latest[g]

\* The two account flags of RequestState are never true together, whatever
\* the order in which overlapping reports reach their last critical section.
FlagsExclusive == ~(account_keys_answered /\ account_keys_answer_unsettled)

\* A fresh request of the first kind asks again what the second one asked.
Supersedes(new, old) ==
    \/ /\ new = old
       /\ new \in {"KeysUpload", "KeysClaim", "SigningKeysUpload",
                   "AccountKeysQueryOutOfBand"}
    \/ {new, old} \subseteq {"KeysQuery", "AccountKeysQuery"}

\* A handed-out request stays answerable, in the place it had among the others,
\* until a response to it is accepted or the request that asks the same thing again
\* is handed out: no ordinary key query retires the out-of-band query about this
\* account, or the one about a verified person, and no later batch moves a request
\* it offers again relative to those handed out with it.
AnswerableUntilSuperseded ==
    [][\A i \in DOMAIN pending :
          \/ i \in DOMAIN pending' /\ pending'[i].sequence = pending[i].sequence
          \/ \E m \in marking : m.id = i /\ m.applied /\ m \notin marking'
          \/ \E j \in DOMAIN pending' \ {i} :
                Supersedes(pending'[j].kind, pending[i].kind)]_vars

\* An answered or superseded id never comes back: a product that resolves one
\* batch before it draws the next never sends the same request again after
\* its answer was accepted.
GoneForGood ==
    [][\A h \in handed : h.id \notin DOMAIN pending =>
                            h.id \notin DOMAIN pending']_vars

\* Both are handed out and unresolved, and x has the earlier place.
InOrder(x, y) ==
    {x, y} \subseteq DOMAIN pending => pending[x].sequence < pending[y].sequence

HandedIds == {h.id : h \in handed}

\* x has left the pump, and before y if y has left too.
LeftBefore(x, y) == x \in HandedIds /\ InOrder(x, y)

\* A message upstream produces in reaction, after an action was queued, follows that
\* action in every batch that carries both.
ReactionFollowsAction ==
    \A p \in precedes : p.why = "reaction" => InOrder(p.first, p.second)

\* The publication a signature refers to, or the one that replaced it in the
\* slot, has left the pump before the request y.
PublicationLeftBefore(k, y) ==
    \E h \in handed : /\ h.kind = "SigningKeysUpload"
                      /\ h.id >= k
                      /\ LeftBefore(h.id, y)

\* No signature upload of a publication is handed out before the signing keys it
\* refers to.
SignaturesFollowPublication ==
    \A p \in precedes :
        p.why = "signature" /\ p.second \in HandedIds
            => PublicationLeftBefore(p.first, p.second)

\* The query that reads a person's master key back does not overtake the signature
\* upload that the completed verification produced, but in one case: the batch of a
\* drain that had read upstream before the sync and reads the queues after it carries
\* the query alone ("cut"), against "puts them behind it in the one order this module
\* hands out" (queued_peer_queries).
ReadbackFollowsSignature ==
    \A p \in precedes :
        p.why = "readback" /\ p.second \in HandedIds
            => LeftBefore(p.first, p.second)

\* What must reach the homeserver in an order leaves in that order, also when a
\* drain cuts what was queued together in two, a second publication replaces the
\* slot of the first, or a batch is offered again: "the far side drops the
\* acknowledgement if it arrives first", "the one ordering upstream states
\* outright" of signing keys before signatures, and the read-back that "must not
\* overtake" its signature, save by the drain the sync cut in two.
OrdersKept ==
    /\ ReactionFollowsAction
    /\ SignaturesFollowPublication
    /\ ReadbackFollowsSignature
=============================================================================
