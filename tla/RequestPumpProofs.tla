--------------------------- MODULE RequestPumpProofs ---------------------------
(***************************************************************************)
(* Proofs about RequestPump, for every value of its constants.             *)
(***************************************************************************)
EXTENDS RequestPump, FiniteSetTheorems, SequenceTheorems, TLAPS

-----------------------------------------------------------------------------
(* Facts about the operators of the hand-out section.                      *)

\* The ids a batch stamps are finitely many, so the counter stays a number.
LEMMA NewIdsCount ==
    ASSUME NEW unstamped, \A u \in unstamped : u.id \in Ids
    PROVE  /\ NewIds(unstamped) \subseteq Ids
           /\ Cardinality(NewIds(unstamped)) \in Nat
<1>1. NewIds(unstamped) \subseteq Ids
    BY DEF NewIds
<1>2. IsFiniteSet(Ids)
    BY PumpAssumption, FS_Interval DEF Ids
<1>3. IsFiniteSet(NewIds(unstamped))
    BY <1>1, <1>2, FS_Subset
<1>4. QED
    BY <1>1, <1>3, FS_CardinalityType

\* Every entry of `fresh` names a known id and a kind of PendingKind.
LEMMA UnstampedType ==
    ASSUME TypeOK, NEW offered \in SUBSET Request
    PROVE  \A u \in Unstamped(offered) : u.id \in Ids /\ u.kind \in Kinds
BY DEF TypeOK, Unstamped, Request, Kinds

\* An entry that carries no stamp of its own and is not pending is stamped
\* with a value the counter had not reached.
LEMMA StampsType ==
    ASSUME TypeOK, NEW offered \in SUBSET Request,
           NEW stamp \in Stamps(Unstamped(offered))
    PROVE  /\ DOMAIN stamp = NewIds(Unstamped(offered))
           /\ \A i \in DOMAIN stamp :
                 /\ stamp[i] \in Nat
                 /\ next_sequence <= stamp[i]
                 /\ stamp[i] < next_sequence
                               + Cardinality(NewIds(Unstamped(offered)))
           /\ \A i, j \in DOMAIN stamp : stamp[i] = stamp[j] => i = j
<1> DEFINE new == NewIds(Unstamped(offered))
<1>1. Cardinality(new) \in Nat
    BY UnstampedType, NewIdsCount
<1>2. stamp \in [new -> next_sequence .. (next_sequence + Cardinality(new) - 1)]
    BY DEF Stamps
<1>3. next_sequence \in Nat
    BY DEF TypeOK
<1>4. ASSUME NEW i \in DOMAIN stamp, NEW j \in DOMAIN stamp,
             stamp[i] = stamp[j]
      PROVE  i = j
    <2>1. PICK u \in Unstamped(offered) : u.id = i
        BY <1>2, <1>4 DEF NewIds
    <2>2. PICK v \in Unstamped(offered) : v.id = j
        BY <1>2, <1>4 DEF NewIds
    <2>3. i \in new /\ j \in new
        BY <1>2, <1>4
    <2>4. u.id # v.id => stamp[u.id] # stamp[v.id]
        BY <2>1, <2>2, <2>3 DEF Stamps
    <2>5. QED
        BY <1>4, <2>1, <2>2, <2>4
<1>5. QED
    BY <1>1, <1>2, <1>3, <1>4

\* What a batch carries: known ids, kinds of PendingKind, natural sequences.
LEMMA OrderedType ==
    ASSUME TypeOK, NEW offered \in SUBSET Request,
           NEW stamp \in Stamps(Unstamped(offered))
    PROVE  Ordered(Unstamped(offered), stamp)
             \subseteq [id : Ids, kind : Kinds, sequence : Nat]
<1>1. Stamped \subseteq [id : Ids, kind : Kinds, sequence : Nat]
    BY DEF TypeOK, Stamped, ActionKinds, Kinds
<1>2. ASSUME NEW u \in Unstamped(offered)
      PROVE  /\ u.id \in Ids /\ u.kind \in Kinds
             /\ (IF u.id \in DOMAIN stamp THEN stamp[u.id]
                 ELSE pending[u.id].sequence) \in Nat
    <2>1. u.id \in Ids /\ u.kind \in Kinds
        BY UnstampedType
    <2>2. CASE u.id \in DOMAIN stamp
        BY <2>1, <2>2, StampsType
    <2>3. CASE u.id \notin DOMAIN stamp
        <3>1. u.id \in DOMAIN pending
            BY <2>3, StampsType DEF NewIds
        <3>2. QED
            BY <2>1, <2>3, <3>1 DEF TypeOK
    <2>4. QED
        BY <2>2, <2>3
<1>3. QED
    BY <1>1, <1>2 DEF Ordered

\* The registry after a hand-out maps known ids to kinds and sequences; each
\* of its entries is one of the batch or an old one the batch did not evict.
LEMMA RegisteredType ==
    ASSUME TypeOK, NEW entries,
           entries \subseteq [id : Ids, kind : Kinds, sequence : Nat]
    PROVE  LET r == Registered(entries) IN
           /\ DOMAIN r \subseteq Ids
           /\ r \in [DOMAIN r -> [kind : Kinds, sequence : Nat]]
           /\ \A i \in DOMAIN r :
                 \/ \E e \in entries : /\ e.id = i
                                       /\ r[i] = [kind |-> e.kind,
                                                  sequence |-> e.sequence]
                 \/ /\ i \in DOMAIN pending
                    /\ r[i] = pending[i]
                    /\ EvictionGroup(r[i].kind) \notin Refreshed(entries)
                    /\ \A e \in entries : e.id # i
<1> DEFINE r    == Registered(entries)
           ids  == {e.id : e \in entries}
           kept == {i \in DOMAIN pending :
                      EvictionGroup(pending[i].kind) \notin Refreshed(entries)}
<1>1. DOMAIN r = kept \cup ids
    BY DEF Registered
<1>2. ASSUME NEW i \in ids
      PROVE  /\ r[i] \in [kind : Kinds, sequence : Nat]
             /\ \E e \in entries :
                   e.id = i /\ r[i] = [kind |-> e.kind, sequence |-> e.sequence]
    <2> DEFINE e == CHOOSE f \in entries : f.id = i
    <2>1. e \in entries /\ e.id = i
        BY <1>2
    <2>2. r[i] = [kind |-> e.kind, sequence |-> e.sequence]
        BY <1>2 DEF Registered
    <2>3. e.kind \in Kinds /\ e.sequence \in Nat
        BY <2>1
    <2> HIDE DEF e, r
    <2>4. QED
        BY <2>1, <2>2, <2>3
<1>3. ASSUME NEW i \in kept, i \notin ids
      PROVE  r[i] = pending[i]
    BY <1>3 DEF Registered
<1>4. DOMAIN r \subseteq Ids
    BY <1>1 DEF TypeOK
<1>5. \A i \in DOMAIN r : r[i] \in [kind : Kinds, sequence : Nat]
    BY <1>1, <1>2, <1>3 DEF TypeOK
<1>6. r = [i \in DOMAIN r |-> r[i]]
    BY DEF Registered
<1>7. r \in [DOMAIN r -> [kind : Kinds, sequence : Nat]]
    BY <1>5, <1>6
<1> HIDE DEF r
<1>8. QED
    BY <1>1, <1>2, <1>3, <1>4, <1>7 DEF r

-----------------------------------------------------------------------------
(* Type correctness, one lemma per part of the next-state relation.        *)

\* One step of a call that has n requests in hand, or takes the first.
LEMMA HandTypes ==
    ASSUME TypeOK, NEW c \in Callers,
           NEW s \in Seq([id : Ids, kind : QueueableKinds])
    PROVE  /\ [inHand EXCEPT ![c] = s]
                \in [Callers -> Seq([id : Ids, kind : QueueableKinds])]
           /\ InHand(c) \subseteq [id : Ids, kind : QueueableKinds]
           /\ inHand[c] # <<>> =>
                 /\ Head(inHand[c]) \in [id : Ids, kind : QueueableKinds]
                 /\ Tail(inHand[c]) \in Seq([id : Ids, kind : QueueableKinds])
<1> DEFINE R == [id : Ids, kind : QueueableKinds]
<1>1. inHand \in [Callers -> Seq(R)]
    BY DEF TypeOK
<1> HIDE DEF R
<1>2. inHand[c] \in Seq(R)
    BY <1>1
<1>3. InHand(c) \subseteq R
    BY <1>2, LenProperties DEF InHand
<1>4. inHand[c] # <<>> => Head(inHand[c]) \in R /\ Tail(inHand[c]) \in Seq(R)
    BY <1>2, HeadTailProperties
<1>5. [inHand EXCEPT ![c] = s] \in [Callers -> Seq(R)]
    BY <1>1 DEF R
<1>6. QED
    BY <1>3, <1>4, <1>5 DEF R

\* A sequence of at most one request.
LEMMA OneRequest ==
    ASSUME NEW r \in [id : Ids, kind : QueueableKinds]
    PROVE  <<r>> \in Seq([id : Ids, kind : QueueableKinds])
OBVIOUS

\* The upstream half of a call.
LEMMA ObtainTypes ==
    ASSUME TypeOK, NEW c \in Callers, NEW program \in Programs,
           Obtain(c, program)
    PROVE  TypeOK'
<1> DEFINE R    == [id : Ids, kind : QueueableKinds]
           n    == Len(program.calls)
           hand == [k \in 1 .. n |-> [id |-> nextId + k - 1,
                                      kind |-> program.calls[k]]]
<1>1. program.calls \in Seq(QueueableKinds \ {"PeerKeysQueryOutOfBand"})
    BY PumpAssumption
<1>2. /\ n \in Nat
      /\ \A k \in 1 .. n : program.calls[k] \in QueueableKinds
    BY <1>1, LenProperties
<1>3. nextId \in Nat /\ nextId + n <= MaxIds /\ MaxIds \in Nat
    BY PumpAssumption DEF Obtain, TypeOK
<1>4. \A k \in 1 .. n : nextId + k - 1 \in Ids
    BY <1>2, <1>3 DEF Ids
<1>5. hand \in [1 .. n -> R]
    BY <1>2, <1>4
<1>6. hand \in Seq(R)
    BY <1>2, <1>5, SeqDef
<1>7. inHand' = [inHand EXCEPT ![c] = hand]
    BY DEF Obtain
<1>8. inHand' \in [Callers -> Seq(R)]
    BY <1>6, <1>7, HandTypes
<1>9. nextId' \in 0 .. MaxIds
    BY <1>2, <1>3 DEF Obtain
<1>10. holder' \subseteq Callers
    BY DEF Obtain
<1>11. QED
    BY <1>8, <1>9, <1>10 DEF TypeOK, Obtain, state, flags, upstream, out

\* The STATE half of a call, one request at a time.
LEMMA QueueTypes ==
    ASSUME TypeOK, NEW c \in Callers, Queue(c)
    PROVE  TypeOK'
<1> DEFINE r == Head(inHand[c])
           R == [id : Ids, kind : QueueableKinds]
<1>1. <<>> \in Seq(R)
    BY EmptySeq
<1>2. /\ r \in R
      /\ Tail(inHand[c]) \in Seq(R)
      /\ InHand(c) \subseteq R
    BY <1>1, HandTypes DEF Queue
<1>3. /\ inHand' \in [Callers -> Seq(R)]
      /\ holder' \subseteq Callers
    <2>1. inHand' = [inHand EXCEPT ![c] = Tail(inHand[c])]
        BY DEF Queue
    <2>2. inHand' \in [Callers -> Seq(R)]
        BY <1>2, <2>1, HandTypes
    <2>3. QED
        BY <2>2 DEF Queue, TypeOK
<1> USE DEF state, flags, upstream, out
<1>4. CASE QueueActionRequest(r)
    <2>1. queued_action' \subseteq [id : Ids, kind : ActionKinds, sequence : Nat]
        BY <1>2, <1>4 DEF TypeOK, QueueActionRequest
    <2>2. next_sequence' \in Nat
        BY <1>4 DEF TypeOK, QueueActionRequest
    <2>3. UNCHANGED <<queued_signing_keys, queued_account_query,
                      queued_peer_queries, nextId, precedes>>
        BY <1>4 DEF QueueActionRequest
    <2>4. QED
        BY <1>3, <2>1, <2>2, <2>3 DEF TypeOK, Queue
<1>5. CASE QueueSigningKeysRequest(c, r)
    <2>1. r.id \in Ids
        BY <1>2
    <2>2. /\ queued_signing_keys' \subseteq
               [id : Ids, kind : {"SigningKeysUpload"}, sequence : Nat]
          /\ next_sequence' \in Nat
        BY <1>5, <2>1 DEF TypeOK, QueueSigningKeysRequest
    <2>3. precedes' \subseteq [first : Ids, second : Ids, why : Reasons]
        BY <1>2, <1>5, <2>1 DEF TypeOK, QueueSigningKeysRequest, Pair, Reasons
    <2>4. UNCHANGED <<queued_action, queued_account_query, queued_peer_queries, nextId>>
        BY <1>5 DEF QueueSigningKeysRequest
    <2>5. QED
        BY <1>3, <2>1, <2>2, <2>3, <2>4 DEF TypeOK, Queue
<1>6. CASE QueueAccountKeyQuery(r)
    <2>1. /\ queued_account_query' \subseteq
               [id : Ids, kind : {"AccountKeysQueryOutOfBand"}, sequence : Nat]
          /\ next_sequence' \in Nat
        BY <1>2, <1>6 DEF TypeOK, QueueAccountKeyQuery
    <2>2. UNCHANGED <<queued_action, queued_signing_keys, queued_peer_queries,
                      nextId, precedes>>
        BY <1>6 DEF QueueAccountKeyQuery
    <2>3. QED
        BY <1>3, <2>1, <2>2 DEF TypeOK, Queue
<1>7. CASE QueuePeerKeyQuery(r)
    <2>1. queued_peer_queries' \subseteq Ids
        BY <1>2, <1>7 DEF TypeOK, QueuePeerKeyQuery
    <2>2. UNCHANGED <<queued_action, queued_signing_keys, queued_account_query,
                      next_sequence, nextId, precedes>>
        BY <1>7 DEF QueuePeerKeyQuery
    <2>3. QED
        BY <1>3, <2>1, <2>2 DEF TypeOK, Queue
<1>8. QED
    BY <1>4, <1>5, <1>6, <1>7 DEF Queue

\* The remaining calls that queue: a repeat, a sync that completes a
\* verification, and the two halves of share_scope_key.
LEMMA CallerTypes ==
    ASSUME TypeOK, NEW c \in Callers,
           \/ Repeat(c)
           \/ SyncCompletion(c)
           \/ \E missing \in SUBSET {nextId}, fresh \in SUBSET {nextId + 1},
                sharedOk \in BOOLEAN : ShareScopeKey(c, missing, fresh, sharedOk)
           \/ QueueShared(c)
    PROVE  TypeOK'
<1> USE DEF state, flags, upstream, out
<1> DEFINE W == [claim : SUBSET Ids, toDevice : SUBSET Ids, sharedOk : BOOLEAN]
<1>1. CASE Repeat(c)
    <2>1. PICK e \in queued_action :
             inHand' = [inHand EXCEPT ![c] = <<[id |-> e.id, kind |-> e.kind]>>]
        BY <1>1 DEF Repeat
    <2>2. [id |-> e.id, kind |-> e.kind] \in [id : Ids, kind : QueueableKinds]
        BY DEF TypeOK, QueueableKinds
    <2>3. inHand' \in [Callers -> Seq([id : Ids, kind : QueueableKinds])]
        BY <2>1, <2>2, OneRequest, HandTypes
    <2>4. QED
        BY <1>1, <2>3 DEF TypeOK, Repeat
<1>2. CASE SyncCompletion(c)
    <2>1. nextId \in Ids /\ nextId + 1 \in Ids /\ nextId' \in 0 .. MaxIds
        BY <1>2, PumpAssumption DEF TypeOK, SyncCompletion, Ids
    <2>2. KnownActions \subseteq Ids
        BY DEF TypeOK, KnownActions
    <2>3. reactions' \subseteq Request
        BY <1>2, <2>1 DEF TypeOK, SyncCompletion, Request, Kinds
    <2>4. precedes' \subseteq [first : Ids, second : Ids, why : Reasons]
        BY <1>2, <2>1, <2>2 DEF TypeOK, SyncCompletion, Pair, Reasons
    <2>5. [id |-> nextId + 1, kind |-> "PeerKeysQueryOutOfBand"]
             \in [id : Ids, kind : QueueableKinds]
        BY <2>1 DEF QueueableKinds
    <2>6. inHand' \in [Callers -> Seq([id : Ids, kind : QueueableKinds])]
        BY <1>2, <2>5, OneRequest, HandTypes DEF SyncCompletion
    <2>7. QED
        BY <1>2, <2>1, <2>3, <2>4, <2>6 DEF TypeOK, SyncCompletion
<1>3. ASSUME NEW missing \in SUBSET {nextId}, NEW fresh \in SUBSET {nextId + 1},
             NEW sharedOk \in BOOLEAN,
             ShareScopeKey(c, missing, fresh, sharedOk)
      PROVE  TypeOK'
    <2>1. nextId \in Ids /\ nextId + 1 \in Ids /\ nextId' \in 0 .. MaxIds
        <3>1. MaxIds \in Nat
            BY PumpAssumption
        <3>2. QED
            BY <1>3, <3>1 DEF TypeOK, ShareScopeKey, Ids
    <2>2. unshared' \subseteq Ids
        BY <1>3, <2>1 DEF TypeOK, ShareScopeKey
    <2>3. [claim |-> missing, toDevice |-> unshared \cup fresh,
           sharedOk |-> sharedOk] \in W
        BY <2>1 DEF TypeOK
    <2>4. sharing' \in [Callers -> SUBSET W]
        BY <1>3, <2>3 DEF TypeOK, ShareScopeKey
    <2>5. QED
        BY <1>3, <2>1, <2>2, <2>4 DEF TypeOK, ShareScopeKey
<1>4. CASE QueueShared(c)
    <2>1. sharing \in [Callers -> SUBSET W]
        BY DEF TypeOK
    <2>2. /\ pending_claim' \subseteq Ids
          /\ queued_to_device' \subseteq Ids
        BY <1>4, <2>1 DEF TypeOK, QueueShared
    <2>3. sharing' \in [Callers -> SUBSET W]
        BY <1>4, <2>1 DEF QueueShared
    <2>4. QED
        BY <1>4, <2>2, <2>3 DEF TypeOK, QueueShared
<1>5. QED
    BY <1>1, <1>2, <1>3, <1>4

\* What upstream does by itself.
LEMMA UpstreamTypes ==
    ASSUME TypeOK,
           \/ \E kind \in ReactionKinds : SyncReaction(kind)
           \/ \E kind \in Needs : NeedArises(kind)
    PROVE  TypeOK'
<1> USE DEF state, flags, upstream, out
<1>1. ASSUME NEW kind \in ReactionKinds, SyncReaction(kind)
      PROVE  TypeOK'
    <2>1. nextId \in Ids /\ nextId' \in 0 .. MaxIds
        BY <1>1, PumpAssumption DEF TypeOK, SyncReaction, Ids
    <2>2. kind \in Kinds
        BY PumpAssumption DEF Kinds, QueuedKinds, OutgoingKinds
    <2>3. reactions' \subseteq Request
        BY <1>1, <2>1, <2>2 DEF TypeOK, SyncReaction, Request
    <2>4. KnownActions \subseteq Ids
        BY DEF TypeOK, KnownActions
    <2>5. precedes' \subseteq [first : Ids, second : Ids, why : Reasons]
        BY <1>1, <2>1, <2>4 DEF TypeOK, SyncReaction, Pair, Reasons
    <2>6. QED
        BY <1>1, <2>1, <2>3, <2>5 DEF TypeOK, SyncReaction
<1>2. ASSUME NEW kind \in Needs, NeedArises(kind)
      PROVE  TypeOK'
    BY <1>2 DEF TypeOK, NeedArises
<1>3. QED
    BY <1>1, <1>2

\* A drain's two sections.
LEMMA OrdersAfterStep ==
    ASSUME NEW d \in Drains, NEW taken, NEW p \in OrdersAfter(d, taken)
    PROVE  \/ p \in precedes /\ (p.why = "cut" => p.second \notin taken)
           \/ /\ \A e \in Drains \ {d} : snapshot[e] = {}
              /\ \E q \in precedes :
                    /\ q.why = "cut" /\ q.second \notin taken
                    /\ p = [first |-> q.first, second |-> q.second, why |-> "readback"]
BY DEF OrdersAfter, Pair

LEMMA OrdersAfterType ==
    ASSUME NEW d \in Drains, NEW taken,
           precedes \subseteq [first : Ids, second : Ids, why : Reasons]
    PROVE  OrdersAfter(d, taken) \subseteq [first : Ids, second : Ids, why : Reasons]
<1> SUFFICES ASSUME NEW p \in OrdersAfter(d, taken)
             PROVE  p \in [first : Ids, second : Ids, why : Reasons]
    OBVIOUS
<1>1. CASE p \in precedes
    BY <1>1
<1>2. CASE \E q \in precedes : p = [first |-> q.first, second |-> q.second, why |-> "readback"]
    BY <1>2 DEF Reasons
<1>3. QED
    BY <1>1, <1>2, OrdersAfterStep

LEMMA DrainTypes ==
    ASSUME TypeOK, NEW d \in Drains,
           \/ \E withBackup \in BOOLEAN : TakeSnapshot(d, withBackup)
           \/ TakeFails(d)
           \/ HandOut(d)
    PROVE  TypeOK'
<1> USE DEF state, flags, upstream, out
<1>1. ASSUME NEW withBackup \in BOOLEAN, TakeSnapshot(d, withBackup)
      PROVE  TypeOK'
    <2> DEFINE fresh == {[id |-> nextId + Position(k), kind |-> k] : k \in needs}
               offered == {r \in reactions :
                             withBackup \/ r.kind # "RoomKeyBackup"}
    <2>1. nextId' \in 0 .. MaxIds
        BY <1>1, PumpAssumption DEF TypeOK, TakeSnapshot
    <2>2. ASSUME NEW k \in needs
          PROVE  nextId + Position(k) \in Ids /\ k \in Kinds
        <3>1. k \in Kinds
            BY PumpAssumption DEF TypeOK, Kinds, StandingKinds, AccountScoped
        <3>2. nextId + 3 <= MaxIds
            BY <1>1 DEF TakeSnapshot
        <3>3. nextId + Position(k) \in Ids
            BY <3>2, PumpAssumption DEF TypeOK, Position, Ids
        <3>4. QED
            BY <3>1, <3>3
    <2>3. fresh \subseteq Request
        BY <2>2 DEF Request
    <2>4. offered \cup fresh \in SUBSET Request
        BY <2>3 DEF TypeOK
    <2>5. snapshot' = [snapshot EXCEPT ![d] = {offered \cup fresh}]
        BY <1>1 DEF TakeSnapshot
    <2>6. derived' = {r.id : r \in fresh}
        BY <1>1 DEF TakeSnapshot
    <2>7. derived' \subseteq Ids
        BY <2>3, <2>6 DEF Request
    <2> HIDE DEF fresh, offered
    <2>8. snapshot' \in [Drains -> SUBSET SUBSET Request]
        BY <2>4, <2>5 DEF TypeOK
    <2>9. QED
        BY <1>1, <2>1, <2>7, <2>8 DEF TypeOK, TakeSnapshot
<1>2. CASE TakeFails(d)
    <2>1. precedes' \subseteq [first : Ids, second : Ids, why : Reasons]
        BY <1>2, OrdersAfterType DEF TypeOK, TakeFails
    <2>2. QED
        BY <1>2, <2>1 DEF TypeOK, TakeFails
<1>3. CASE HandOut(d)
    <2>1. PICK offered \in snapshot[d] : \E stamp \in Stamps(Unstamped(offered)) :
             HandOutBatch(d, Unstamped(offered), Ordered(Unstamped(offered), stamp))
        BY <1>3 DEF HandOut
    <2> DEFINE unstamped == Unstamped(offered)
    <2>2. PICK stamp \in Stamps(unstamped) :
             HandOutBatch(d, unstamped, Ordered(unstamped, stamp))
        BY <2>1
    <2> DEFINE entries == Ordered(unstamped, stamp)
    <2>3. offered \in SUBSET Request
        BY DEF TypeOK
    <2>4. entries \subseteq [id : Ids, kind : Kinds, sequence : Nat]
        BY <2>3, OrderedType
    <2>5. Cardinality(NewIds(unstamped)) \in Nat
        BY <2>3, UnstampedType, NewIdsCount
    <2> HIDE DEF unstamped, entries
    <2>6. /\ DOMAIN pending' \subseteq Ids
          /\ pending' \in [DOMAIN pending' -> [kind : Kinds, sequence : Nat]]
        BY <2>2, <2>4, RegisteredType DEF HandOutBatch, entries
    <2>7. next_sequence' \in Nat
        BY <2>2, <2>5 DEF TypeOK, HandOutBatch
    <2>8. handed' \subseteq Request
        BY <2>2, <2>4 DEF TypeOK, HandOutBatch, entries, Request
    <2>9. latest' \in [Groups -> SUBSET Ids]
        BY <2>2, <2>4 DEF TypeOK, HandOutBatch, entries
    <2>10. snapshot' \in [Drains -> SUBSET SUBSET Request]
        BY <2>2 DEF TypeOK, HandOutBatch
    <2>11. precedes' \subseteq [first : Ids, second : Ids, why : Reasons]
        BY <2>2, OrdersAfterType DEF TypeOK, HandOutBatch
    <2>12. QED
        BY <2>2, <2>6, <2>7, <2>8, <2>9, <2>10, <2>11 DEF TypeOK, HandOutBatch
<1>4. QED
    BY <1>1, <1>2, <1>3

\* A report's three sections.
LEMMA ReportTypes ==
    ASSUME TypeOK,
           \/ \E call \in Reports : \E i \in DOMAIN pending : MarkRead(call, i)
           \/ \E m \in marking :
                 \/ \E settled \in AnswerAboutAccount :
                       MarkSent(m, settled)
                 \/ MarkRejected(m)
                 \/ MarkResolved(m)
    PROVE  TypeOK'
<1> USE DEF state, flags, upstream, out
<1>1. ASSUME NEW call \in Reports, NEW i \in DOMAIN pending, MarkRead(call, i)
      PROVE  TypeOK'
    <2>1. i \in Ids /\ pending[i].kind \in Kinds
        BY DEF TypeOK
    <2> DEFINE report == [call |-> call, id |-> i, kind |-> pending[i].kind,
                          applied |-> FALSE, settled |-> "NotAsked"]
    <2>2. report \in [call : Reports, id : Ids, kind : Kinds, applied : BOOLEAN,
                      settled : AnswerAboutAccount]
        BY <2>1 DEF AnswerAboutAccount
    <2>3. marking' = marking \cup {report}
        BY <1>1 DEF MarkRead
    <2> HIDE DEF report
    <2>4. QED
        BY <1>1, <2>2, <2>3 DEF TypeOK, MarkRead
<1>2. ASSUME NEW m \in marking, NEW settled \in AnswerAboutAccount,
             MarkSent(m, settled)
      PROVE  TypeOK'
    <2>1. marking' \subseteq [call : Reports, id : Ids, kind : Kinds, applied : BOOLEAN,
                              settled : AnswerAboutAccount]
        BY <1>2 DEF TypeOK, MarkSent
    <2>2. QED
        BY <1>2, <2>1 DEF TypeOK, MarkSent
<1>3. ASSUME NEW m \in marking, MarkRejected(m)
      PROVE  TypeOK'
    BY <1>3 DEF TypeOK, MarkRejected
<1>4. ASSUME NEW m \in marking, MarkResolved(m)
      PROVE  TypeOK'
    <2>1. /\ DOMAIN pending' \subseteq Ids
          /\ pending' \in [DOMAIN pending' -> [kind : Kinds, sequence : Nat]]
        BY <1>4 DEF TypeOK, MarkResolved
    <2>2. QED
        BY <1>4, <2>1 DEF TypeOK, MarkResolved
<1>5. QED
    BY <1>1, <1>2, <1>3, <1>4

\* Every value the pump holds has the type its field has in session.rs, for
\* any number of callers, drains and reports: an id that is registered,
\* queued or offered was minted, and each slot holds entries of its own kind.
THEOREM TypeCorrect == Spec => []TypeOK
<1>1. Init => TypeOK
    <2> SUFFICES ASSUME Init
                 PROVE  TypeOK
        OBVIOUS
    <2>1. nextId \in 0 .. MaxIds
        BY PumpAssumption DEF Init
    <2>2. <<>> \in Seq([id : Ids, kind : QueueableKinds])
        BY EmptySeq
    <2>3. inHand \in [Callers -> Seq([id : Ids, kind : QueueableKinds])]
        BY <2>2 DEF Init
    <2>4. /\ DOMAIN pending \subseteq Ids
          /\ pending \in [DOMAIN pending -> [kind : Kinds, sequence : Nat]]
        BY DEF Init
    <2>5. QED
        BY <2>1, <2>3, <2>4 DEF Init, TypeOK
<1>2. TypeOK /\ [Next]_vars => TypeOK'
    <2> SUFFICES ASSUME TypeOK, [Next]_vars
                 PROVE  TypeOK'
        OBVIOUS
    <2>1. CASE UNCHANGED vars
        BY <2>1 DEF TypeOK, vars, state, flags, upstream, out
    <2>2. CASE Next
        BY <2>2, ObtainTypes, QueueTypes, CallerTypes, UpstreamTypes, DrainTypes,
           ReportTypes DEF Next
    <2>3. QED
        BY <2>1, <2>2
<1>3. QED
    BY <1>1, <1>2, PTL DEF Spec

-----------------------------------------------------------------------------
(* The account flags.                                                      *)

\* The two account flags are never true together, however many reports of
\* account queries are in progress and in whatever order their last sections
\* run: the section reads account_keys_answered again instead of using what
\* it knew when the answer was judged.
THEOREM FlagsStayExclusive == Spec => []FlagsExclusive
<1>1. Init => FlagsExclusive
    BY DEF Init, FlagsExclusive
<1>2. TypeOK /\ FlagsExclusive /\ [Next]_vars => FlagsExclusive'
    <2> SUFFICES ASSUME TypeOK, FlagsExclusive, [Next]_vars
                 PROVE  FlagsExclusive'
        OBVIOUS
    <2>1. ASSUME NEW m \in marking, MarkResolved(m)
          PROVE  FlagsExclusive'
        BY <2>1 DEF TypeOK, FlagsExclusive, MarkResolved
    <2>2. CASE UNCHANGED flags
        BY <2>2 DEF FlagsExclusive, flags
    <2>3. UNCHANGED flags \/ \E m \in marking : MarkResolved(m)
        BY DEF Next, vars, Obtain, Repeat, Queue, SyncCompletion, ShareScopeKey,
               QueueShared, SyncReaction, NeedArises, TakeSnapshot, TakeFails,
               HandOut, HandOutBatch, MarkRead, MarkSent, MarkRejected
    <2>4. QED
        BY <2>1, <2>2, <2>3
<1>3. QED
    BY <1>1, <1>2, TypeCorrect, PTL DEF Spec

-----------------------------------------------------------------------------
(* The registry and the counter change in few actions only.                *)

\* What a step does to the registry: a batch is handed out, one entry is
\* resolved, or nothing.
LEMMA RegistrySteps ==
    ASSUME TypeOK, [Next]_vars
    PROVE  \/ UNCHANGED <<pending, latest>>
           \/ \E m \in marking :
                 /\ pending' = [i \in DOMAIN pending \ {m.id} |-> pending[i]]
                 /\ UNCHANGED <<latest, queued_action, queued_signing_keys,
                                queued_account_query, next_sequence>>
           \/ \E d \in Drains : \E offered \in SUBSET Request :
                 \E stamp \in Stamps(Unstamped(offered)) :
                    HandOutBatch(d, Unstamped(offered),
                                 Ordered(Unstamped(offered), stamp))
<1>1. ASSUME NEW d \in Drains, HandOut(d)
      PROVE  \E offered \in SUBSET Request :
                \E stamp \in Stamps(Unstamped(offered)) :
                   HandOutBatch(d, Unstamped(offered),
                                Ordered(Unstamped(offered), stamp))
    <2>1. snapshot[d] \subseteq SUBSET Request
        BY DEF TypeOK
    <2>2. QED
        BY <1>1, <2>1 DEF HandOut
<1>2. ASSUME NEW m \in marking, MarkResolved(m)
      PROVE  /\ pending' = [i \in DOMAIN pending \ {m.id} |-> pending[i]]
             /\ UNCHANGED <<latest, queued_action, queued_signing_keys,
                            queued_account_query, next_sequence>>
    BY <1>2 DEF MarkResolved, out
<1>3. \/ UNCHANGED <<pending, latest>>
      \/ \E m \in marking : MarkResolved(m)
      \/ \E d \in Drains : HandOut(d)
    BY DEF Next, vars, state, out, Obtain, Repeat, Queue, SyncCompletion,
           ShareScopeKey, QueueShared, SyncReaction, NeedArises, TakeSnapshot,
           TakeFails, MarkRead, MarkSent, MarkRejected
<1>4. QED
    BY <1>1, <1>2, <1>3

\* The unresolved requests of one eviction group all come from the last batch
\* that carried the group, for any number of drains and publications, so
\* `pending` cannot fill up with key queries nobody answered.
THEOREM OneGenerationHolds == Spec => []OneGeneration
<1>1. Init => OneGeneration
    BY DEF Init, OneGeneration
<1>2. TypeOK /\ OneGeneration /\ [Next]_vars => OneGeneration'
    <2> SUFFICES ASSUME TypeOK, OneGeneration, [Next]_vars
                 PROVE  OneGeneration'
        OBVIOUS
    <2>1. CASE UNCHANGED <<pending, latest>>
        BY <2>1 DEF OneGeneration
    <2>2. ASSUME NEW m \in marking,
                 pending' = [i \in DOMAIN pending \ {m.id} |-> pending[i]],
                 UNCHANGED latest
          PROVE  OneGeneration'
        BY <2>2 DEF OneGeneration
    <2>3. ASSUME NEW d \in Drains, NEW offered \in SUBSET Request,
                 NEW stamp \in Stamps(Unstamped(offered)),
                 HandOutBatch(d, Unstamped(offered),
                              Ordered(Unstamped(offered), stamp))
          PROVE  OneGeneration'
        <3> DEFINE entries == Ordered(Unstamped(offered), stamp)
        <3>1. entries \subseteq [id : Ids, kind : Kinds, sequence : Nat]
            BY OrderedType
        <3>2. pending' = Registered(entries)
            BY <2>3 DEF HandOutBatch
        <3>3. \A g \in Groups :
                 latest'[g] = IF g \in Refreshed(entries)
                              THEN {e.id : e \in {f \in entries :
                                                    EvictionGroup(f.kind) = g}}
                              ELSE latest[g]
            BY <2>3 DEF HandOutBatch
        <3> HIDE DEF entries
        <3> SUFFICES ASSUME NEW i \in DOMAIN pending',
                            EvictionGroup(pending'[i].kind) # NoGroup
                     PROVE  i \in latest'[EvictionGroup(pending'[i].kind)]
            BY DEF OneGeneration
        <3> DEFINE g == EvictionGroup(pending'[i].kind)
        <3>4. g \in Groups
            BY DEF EvictionGroup, Groups, NoGroup
        <3>5. CASE \E e \in entries :
                      /\ e.id = i
                      /\ pending'[i] = [kind |-> e.kind, sequence |-> e.sequence]
            <4>1. PICK e \in entries : e.id = i /\ e.kind = pending'[i].kind
                BY <3>5
            <4>2. g \in Refreshed(entries)
                BY <4>1 DEF Refreshed
            <4>3. QED
                BY <3>3, <3>4, <4>1, <4>2
        <3>6. CASE /\ i \in DOMAIN pending
                   /\ pending'[i] = pending[i]
                   /\ g \notin Refreshed(entries)
            BY <3>3, <3>4, <3>6 DEF OneGeneration
        <3>7. QED
            BY <3>1, <3>2, <3>5, <3>6, RegisteredType
    <2>4. QED
        BY <2>1, <2>2, <2>3, RegistrySteps
<1>3. QED
    BY <1>1, <1>2, TypeCorrect, PTL DEF Spec

-----------------------------------------------------------------------------
(* One order across every source.                                          *)

\* Where the sequence of a batch's entry comes from: a stamp it was queued
\* with, the place it already has in `pending`, or a stamp given now.
Origin(i, s, stamp) ==
    \/ \E e \in Stamped : e.id = i /\ e.sequence = s
    \/ i \in DOMAIN pending /\ s = pending[i].sequence
    \/ i \in DOMAIN stamp /\ s = stamp[i]

\* The three origins do not overlap, so one sequence belongs to one id.
LEMMA OriginUnique ==
    ASSUME TypeOK, SequencesDistinct, NEW offered \in SUBSET Request,
           NEW stamp \in Stamps(Unstamped(offered)),
           NEW i, NEW j, NEW s, Origin(i, s, stamp), Origin(j, s, stamp)
    PROVE  i = j
<1>1. \A k \in DOMAIN stamp : stamp[k] \in Nat /\ next_sequence <= stamp[k]
    BY StampsType
<1>2. \A k, l \in DOMAIN stamp : stamp[k] = stamp[l] => k = l
    BY StampsType
<1>3. \A e \in Stamped : e.sequence \in Nat
    BY DEF TypeOK, Stamped
<1>4. /\ \A k \in DOMAIN pending : pending[k].sequence \in Nat
      /\ next_sequence \in Nat
    BY DEF TypeOK
<1>5. CASE i \in DOMAIN stamp /\ s = stamp[i]
    BY <1>1, <1>2, <1>3, <1>4, <1>5 DEF Origin, SequencesDistinct
<1>6. CASE \E e \in Stamped : e.id = i /\ e.sequence = s
    BY <1>1, <1>3, <1>4, <1>6 DEF Origin, SequencesDistinct
<1>7. CASE i \in DOMAIN pending /\ s = pending[i].sequence
    BY <1>1, <1>3, <1>4, <1>7 DEF Origin, SequencesDistinct
<1>8. QED
    BY <1>5, <1>6, <1>7 DEF Origin

\* The sequences stay distinct when a batch is handed out.
LEMMA HandOutDistinct ==
    ASSUME TypeOK, SequencesDistinct, NEW d \in Drains,
           NEW offered \in SUBSET Request,
           NEW stamp \in Stamps(Unstamped(offered)),
           HandOutBatch(d, Unstamped(offered), Ordered(Unstamped(offered), stamp))
    PROVE  SequencesDistinct'
<1> DEFINE unstamped == Unstamped(offered)
           entries   == Ordered(unstamped, stamp)
           n         == Cardinality(NewIds(unstamped))
<1>1. entries \subseteq [id : Ids, kind : Kinds, sequence : Nat]
    BY OrderedType
<1>2. n \in Nat /\ next_sequence \in Nat
    BY UnstampedType, NewIdsCount DEF TypeOK
<1>3. DOMAIN stamp = NewIds(unstamped)
    BY StampsType
<1>4. \A e \in entries : Origin(e.id, e.sequence, stamp)
    <2>1. ASSUME NEW e \in Stamped
          PROVE  Origin(e.id, e.sequence, stamp)
        BY DEF Origin
    <2>2. ASSUME NEW u \in unstamped
          PROVE  Origin(u.id, IF u.id \in DOMAIN stamp THEN stamp[u.id]
                              ELSE pending[u.id].sequence, stamp)
        BY <1>3 DEF Origin, NewIds
    <2>3. QED
        BY <2>1, <2>2 DEF Ordered
<1> HIDE DEF unstamped, entries, n
<1>5. pending' = Registered(entries) /\ next_sequence' = next_sequence + n
    BY DEF HandOutBatch, unstamped, entries, n
<1>6. Stamped' = {}
    BY DEF HandOutBatch, Stamped
<1>7. \A i \in DOMAIN pending' : Origin(i, pending'[i].sequence, stamp)
    <2>1. ASSUME NEW i \in DOMAIN pending'
          PROVE  Origin(i, pending'[i].sequence, stamp)
        <3>1. \/ \E e \in entries :
                    /\ e.id = i
                    /\ pending'[i] = [kind |-> e.kind, sequence |-> e.sequence]
              \/ i \in DOMAIN pending /\ pending'[i] = pending[i]
            BY <1>1, <1>5, <2>1, RegisteredType
        <3>2. QED
            BY <1>4, <3>1 DEF Origin
    <2>2. QED
        BY <2>1
<1>8. \A i \in DOMAIN pending' : pending'[i].sequence < next_sequence'
    <2>1. ASSUME NEW i, NEW s, Origin(i, s, stamp)
          PROVE  s < next_sequence + n
        <3>1. CASE \E e \in Stamped : e.id = i /\ e.sequence = s
            BY <1>2, <3>1 DEF TypeOK, Stamped, SequencesDistinct
        <3>2. CASE i \in DOMAIN pending /\ s = pending[i].sequence
            BY <1>2, <3>2 DEF TypeOK, SequencesDistinct
        <3>3. CASE i \in DOMAIN stamp /\ s = stamp[i]
            BY <3>3, StampsType DEF n, unstamped
        <3>4. QED
            BY <2>1, <3>1, <3>2, <3>3 DEF Origin
    <2>2. QED
        BY <1>5, <1>7, <2>1
<1>9. \A i, j \in DOMAIN pending' :
         pending'[i].sequence = pending'[j].sequence => i = j
    BY <1>7, OriginUnique
<1>10. QED
    BY <1>6, <1>8, <1>9 DEF SequencesDistinct

\* The two slots are Options: they hold one entry at most.
Singletons ==
    /\ \A e, f \in queued_signing_keys : e = f
    /\ \A e, f \in queued_account_query : e = f

LEMMA SingletonsHold == Spec => []Singletons
<1>1. Init => Singletons
    BY DEF Init, Singletons
<1>2. Singletons /\ [Next]_vars => Singletons'
    <2> SUFFICES ASSUME Singletons, [Next]_vars
                 PROVE  Singletons'
        OBVIOUS
    <2>1. ASSUME NEW c \in Callers, Queue(c)
          PROVE  Singletons'
        BY <2>1 DEF Singletons, Queue, QueueActionRequest,
                    QueueSigningKeysRequest, QueueAccountKeyQuery,
                    QueuePeerKeyQuery
    <2>2. ASSUME NEW d \in Drains, HandOut(d)
          PROVE  Singletons'
        BY <2>2 DEF Singletons, HandOut, HandOutBatch
    <2>3. CASE UNCHANGED <<queued_signing_keys, queued_account_query>>
        BY <2>3 DEF Singletons
    <2>4. \/ UNCHANGED <<queued_signing_keys, queued_account_query>>
          \/ \E c \in Callers : Queue(c)
          \/ \E d \in Drains : HandOut(d)
        BY DEF Next, vars, state, Obtain, Repeat, SyncCompletion,
               ShareScopeKey, QueueShared, SyncReaction, NeedArises,
               TakeSnapshot, TakeFails, MarkRead, MarkSent, MarkRejected,
               MarkResolved
    <2>5. QED
        BY <2>1, <2>2, <2>3, <2>4
<1>3. QED
    BY <1>1, <1>2, PTL DEF Spec

\* A stamped queue may gain an entry under the counter...
LEMMA AppendDistinct ==
    ASSUME TypeOK, SequencesDistinct, UNCHANGED pending, NEW e,
           e.sequence = next_sequence, next_sequence' = next_sequence + 1,
           Stamped' \subseteq Stamped \cup {e}
    PROVE  SequencesDistinct'
<1>1. next_sequence \in Nat
    BY DEF TypeOK
<1>2. \A f \in Stamped : f.sequence \in Nat
    BY DEF TypeOK, Stamped
<1>3. \A i \in DOMAIN pending : pending[i].sequence \in Nat
    BY DEF TypeOK
<1> HIDE DEF Stamped
<1>4. QED
    BY <1>1, <1>2, <1>3 DEF SequencesDistinct

\* ...or an entry may take the place of another and its sequence.
LEMMA ReplaceDistinct ==
    ASSUME SequencesDistinct, UNCHANGED <<pending, next_sequence>>,
           NEW old \in Stamped, NEW e, e.sequence = old.sequence,
           Stamped' \subseteq (Stamped \ {old}) \cup {e}
    PROVE  SequencesDistinct'
BY DEF SequencesDistinct

\* The sequences stay distinct when a call queues a stamped request: the new
\* entry takes the counter, which is ahead of every sequence in use, or the
\* sequence of the slot it replaces.
LEMMA QueueDistinct ==
    ASSUME TypeOK, SequencesDistinct, Singletons, NEW c \in Callers, Queue(c)
    PROVE  SequencesDistinct'
<1> DEFINE r == Head(inHand[c])
<1>1. UNCHANGED pending
    BY DEF Queue
<1>2. CASE QueueActionRequest(r)
    <2> DEFINE e == [id |-> r.id, kind |-> r.kind, sequence |-> next_sequence]
    <2>1. CASE UNCHANGED <<queued_action, next_sequence>>
        BY <1>1, <1>2, <2>1 DEF SequencesDistinct, Stamped, QueueActionRequest
    <2>2. CASE /\ queued_action' = queued_action \cup {e}
               /\ next_sequence' = next_sequence + 1
        <3>1. Stamped' \subseteq Stamped \cup {e}
            BY <1>2, <2>2 DEF Stamped, QueueActionRequest
        <3>2. QED
            BY <1>1, <2>2, <3>1, AppendDistinct
    <2>3. QED
        BY <1>2, <2>1, <2>2 DEF QueueActionRequest
<1>3. CASE QueueSigningKeysRequest(c, r)
    <2> DEFINE e(s) == [id |-> r.id, kind |-> r.kind, sequence |-> s]
    <2>1. CASE queued_signing_keys = {}
        <3>1. /\ queued_signing_keys' = {e(next_sequence)}
              /\ next_sequence' = next_sequence + 1
            BY <1>3, <2>1 DEF QueueSigningKeysRequest
        <3>2. Stamped' \subseteq Stamped \cup {e(next_sequence)}
            BY <1>3, <3>1 DEF Stamped, QueueSigningKeysRequest
        <3>3. QED
            BY <1>1, <3>1, <3>2, AppendDistinct
    <2>2. ASSUME NEW old \in queued_signing_keys
          PROVE  SequencesDistinct'
        <3>1. queued_signing_keys = {old}
            BY <2>2 DEF Singletons
        <3>2. queued_signing_keys' = {e(old.sequence)} /\ UNCHANGED next_sequence
            BY <1>3, <3>1 DEF QueueSigningKeysRequest
        <3>3. old \notin queued_action \cup queued_account_query
            BY <3>1 DEF TypeOK, ActionKinds
        <3>4. Stamped' \subseteq (Stamped \ {old}) \cup {e(old.sequence)}
            BY <1>3, <3>1, <3>2, <3>3 DEF Stamped, QueueSigningKeysRequest
        <3>5. old \in Stamped
            BY <2>2 DEF Stamped
        <3>6. QED
            BY <1>1, <3>2, <3>4, <3>5, ReplaceDistinct
    <2>3. QED
        BY <2>1, <2>2
<1>4. CASE QueueAccountKeyQuery(r)
    <2> DEFINE e(s) == [id |-> r.id, kind |-> r.kind, sequence |-> s]
    <2>1. CASE queued_account_query = {}
        <3>1. /\ queued_account_query' = {e(next_sequence)}
              /\ next_sequence' = next_sequence + 1
            BY <1>4, <2>1 DEF QueueAccountKeyQuery
        <3>2. Stamped' \subseteq Stamped \cup {e(next_sequence)}
            BY <1>4, <3>1 DEF Stamped, QueueAccountKeyQuery
        <3>3. QED
            BY <1>1, <3>1, <3>2, AppendDistinct
    <2>2. ASSUME NEW old \in queued_account_query
          PROVE  SequencesDistinct'
        <3>1. queued_account_query = {old}
            BY <2>2 DEF Singletons
        <3>2. queued_account_query' = {e(old.sequence)} /\ UNCHANGED next_sequence
            BY <1>4, <3>1 DEF QueueAccountKeyQuery
        <3>3. old \notin queued_action \cup queued_signing_keys
            BY <3>1 DEF TypeOK, ActionKinds
        <3>4. Stamped' \subseteq (Stamped \ {old}) \cup {e(old.sequence)}
            BY <1>4, <3>1, <3>2, <3>3 DEF Stamped, QueueAccountKeyQuery
        <3>5. old \in Stamped
            BY <2>2 DEF Stamped
        <3>6. QED
            BY <1>1, <3>2, <3>4, <3>5, ReplaceDistinct
    <2>3. QED
        BY <2>1, <2>2
<1>5. CASE QueuePeerKeyQuery(r)
    BY <1>1, <1>5 DEF SequencesDistinct, Stamped, QueuePeerKeyQuery
<1>6. QED
    BY <1>2, <1>3, <1>4, <1>5 DEF Queue

\* One order spans every source: no two requests that are queued with a
\* stamp, or handed out and unresolved, share a sequence, for any number of
\* callers and overlapping drains, so the sort that builds a batch never has
\* a tie to break.
THEOREM SequencesStayDistinct == Spec => []SequencesDistinct
<1>1. Init => SequencesDistinct
    BY DEF Init, SequencesDistinct, Stamped
<1>2. TypeOK /\ Singletons /\ SequencesDistinct /\ [Next]_vars
         => SequencesDistinct'
    <2> SUFFICES ASSUME TypeOK, Singletons, SequencesDistinct, [Next]_vars
                 PROVE  SequencesDistinct'
        OBVIOUS
    <2> DEFINE stamped == <<queued_action, queued_signing_keys,
                            queued_account_query, next_sequence>>
    <2>1. CASE UNCHANGED stamped /\ UNCHANGED pending
        BY <2>1 DEF SequencesDistinct, Stamped
    <2>2. ASSUME NEW m \in marking, UNCHANGED stamped,
                 pending' = [i \in DOMAIN pending \ {m.id} |-> pending[i]]
          PROVE  SequencesDistinct'
        BY <2>2 DEF SequencesDistinct, Stamped
    <2>3. \/ UNCHANGED stamped
          \/ \E c \in Callers : Queue(c)
          \/ \E d \in Drains : HandOut(d)
        BY DEF Next, vars, state, out, Obtain, Repeat, SyncCompletion,
               ShareScopeKey, QueueShared, SyncReaction, NeedArises,
               TakeSnapshot, TakeFails, MarkRead, MarkSent, MarkRejected,
               MarkResolved
    <2>4. ASSUME NEW d \in Drains, HandOut(d)
          PROVE  SequencesDistinct'
        <3>1. snapshot[d] \subseteq SUBSET Request
            BY DEF TypeOK
        <3>2. QED
            BY <2>4, <3>1, HandOutDistinct DEF HandOut
    <2>5. CASE UNCHANGED stamped
        <3>1. ASSUME NEW d \in Drains, NEW offered \in SUBSET Request,
                     NEW stamp \in Stamps(Unstamped(offered)),
                     HandOutBatch(d, Unstamped(offered),
                                  Ordered(Unstamped(offered), stamp))
              PROVE  SequencesDistinct'
            BY <3>1, HandOutDistinct
        <3>2. QED
            BY <2>1, <2>2, <2>5, <3>1, RegistrySteps
    <2>6. QED
        BY <2>3, <2>4, <2>5, QueueDistinct
<1>3. QED
    BY <1>1, <1>2, TypeCorrect, SingletonsHold, PTL DEF Spec

-----------------------------------------------------------------------------
(* Where an id is, and that it names one request.                          *)

\* The places of the pump an id can be, with the kind of its request there, and what
\* of it has left.
Loose(i, k) ==
    \/ i \in queued_to_device \cup unshared /\ k = "ToDevice"
    \/ i \in pending_claim /\ k = "KeysClaim"
    \/ i \in queued_peer_queries /\ k = "PeerKeysQueryOutOfBand"
    \/ \E c \in Callers : \E w \in sharing[c] :
          \/ i \in w.claim /\ k = "KeysClaim"
          \/ i \in w.toDevice /\ k = "ToDevice"

Offered(i, k) ==
    \/ [id |-> i, kind |-> k] \in reactions
    \/ \E d \in Drains : \E offered \in snapshot[d] : [id |-> i, kind |-> k] \in offered

InHands(i, k) == \E c \in Callers : [id |-> i, kind |-> k] \in InHand(c)

Placed(i, k) ==
    \/ \E e \in Stamped : e.id = i /\ e.kind = k
    \/ i \in DOMAIN pending /\ pending[i].kind = k
    \/ [id |-> i, kind |-> k] \in handed

Carries(i, k) == Loose(i, k) \/ Offered(i, k) \/ InHands(i, k) \/ Placed(i, k)

\* An id names a request of one kind, wherever it is, and one minted already.
OneKind == \A i \in Ids : \A k, l \in Kinds : Carries(i, k) /\ Carries(i, l) => k = l
Minted  == \A i \in Ids : \A k \in Kinds : Carries(i, k) => i < nextId

\* Upstream offers no request of a kind that the library makes itself.
LibraryKinds == SlotKinds \cup {"PeerKeysQueryOutOfBand"}
OffersOrdinary ==
    /\ \A r \in reactions : r.kind \notin LibraryKinds
    /\ \A d \in Drains : \A offered \in snapshot[d] : \A r \in offered :
          r.kind \notin LibraryKinds

\* A request bound for a slot is in one caller's hand, once, and nowhere else.
HandsApart ==
    \A c \in Callers : \A n \in DOMAIN inHand[c] : inHand[c][n].kind \in SlotKinds =>
        /\ inHand[c][n].id \notin DOMAIN pending \cup HandedIds
        /\ \A e \in Stamped : e.id # inHand[c][n].id
        /\ \A b \in Callers : \A l \in DOMAIN inHand[b] :
              inHand[b][l].id = inHand[c][n].id => b = c /\ l = n

\* What a step may do to them: carry what was carried, or what it mints.
Mints(new) ==
    \A i \in Ids : \A k \in Kinds : Carries(i, k)' =>
        \/ Carries(i, k)
        \/ nextId <= i /\ i < nextId' /\ k = new[i]

LEMMA MintsOnce ==
    ASSUME TypeOK, OneKind, Minted, NEW new, Mints(new), nextId' \in Nat, nextId <= nextId'
    PROVE  OneKind' /\ Minted'
<1>1. nextId \in Nat /\ Ids \subseteq Nat
    BY PumpAssumption DEF TypeOK, Ids
<1> HIDE DEF Carries
<1>2. QED
    BY <1>1 DEF Mints, OneKind, Minted

\* The hand of a caller that has taken the first of its requests.
LEMMA HandTail ==
    ASSUME TypeOK, NEW c \in Callers, inHand[c] # <<>>
    PROVE  /\ Head(inHand[c]) = inHand[c][1] /\ 1 \in DOMAIN inHand[c]
           /\ \A n \in DOMAIN Tail(inHand[c]) :
                 n \in Nat \ {0} /\ n + 1 \in DOMAIN inHand[c] /\ Tail(inHand[c])[n] = inHand[c][n + 1]
<1>1. inHand[c] \in Seq([id : Ids, kind : QueueableKinds])
    BY DEF TypeOK
<1> DEFINE R == [id : Ids, kind : QueueableKinds]
<1> HIDE DEF R
<1>2. inHand[c] \in Seq(R)
    BY <1>1 DEF R
<1>3. QED
    BY <1>2, HeadTailProperties, LenProperties

\* What a caller has in hand are requests, of kinds that can be queued.
LEMMA HandKinds ==
    ASSUME TypeOK, NEW c \in Callers, NEW n \in DOMAIN inHand[c]
    PROVE  inHand[c][n] \in [id : Ids, kind : QueueableKinds]
           /\ inHand[c][n].kind \in Kinds
<1>1. InHand(c) \subseteq [id : Ids, kind : QueueableKinds]
    BY HandTypes, EmptySeq
<1>2. inHand[c][n] \in [id : Ids, kind : QueueableKinds]
    BY <1>1 DEF InHand
<1>3. QED
    BY <1>2 DEF QueueableKinds, ActionKinds, SlotKinds, Kinds

\* The steps of callers, as they mint and carry ids.
LEMMA ObtainMints ==
    ASSUME TypeOK, NEW c \in Callers, NEW program \in Programs, Obtain(c, program)
    PROVE  /\ nextId' \in Nat /\ nextId <= nextId'
           /\ Mints([i \in Ids |-> program.calls[i - nextId + 1]])
<1> DEFINE new == [i \in Ids |-> program.calls[i - nextId + 1]]
           calls == program.calls
<1>1. calls \in Seq(QueueableKinds \ {"PeerKeysQueryOutOfBand"})
    BY PumpAssumption
<1>2. Len(calls) \in Nat /\ nextId \in Nat
    BY <1>1 DEF TypeOK
<1>3. nextId' = nextId + Len(calls)
    BY DEF Obtain
<1>4. \A i \in Ids : \A k \in Kinds : InHands(i, k)' =>
          InHands(i, k) \/ (nextId <= i /\ i < nextId' /\ k = new[i])
    <2> SUFFICES ASSUME NEW i \in Ids, NEW k \in Kinds, NEW b \in Callers,
                        [id |-> i, kind |-> k] \in InHand(b)'
                 PROVE  InHands(i, k) \/ (nextId <= i /\ i < nextId' /\ k = new[i])
        BY DEF InHands
    <2>1. inHand' = [inHand EXCEPT ![c] = [n \in 1 .. Len(calls) |->
                        [id |-> nextId + n - 1, kind |-> calls[n]]]]
        BY DEF Obtain
    <2>2. CASE b # c
        BY <2>1, <2>2 DEF TypeOK, InHand, InHands
    <2>3. CASE b = c
        <3>1. inHand'[c] = [n \in 1 .. Len(calls) |->
                              [id |-> nextId + n - 1, kind |-> calls[n]]]
            BY <2>1 DEF TypeOK
        <3>5. PICK n \in DOMAIN inHand'[c] : inHand'[c][n] = [id |-> i, kind |-> k]
            BY <2>3 DEF InHand
        <3>6. n \in 1 .. Len(calls) /\ inHand'[c][n] = [id |-> nextId + n - 1, kind |-> calls[n]]
            BY <3>1, <3>5
        <3>2. n \in 1 .. Len(calls) /\ i = nextId + n - 1 /\ k = calls[n]
            BY <3>5, <3>6
        <3>3. i - nextId + 1 = n /\ i \in Ids
            BY <1>2, <3>2
        <3>4. QED
            BY <1>2, <1>3, <3>2, <3>3
    <2>4. QED
        BY <2>2, <2>3
<1>5. \A i \in Ids : \A k \in Kinds : Loose(i, k)' => Loose(i, k)
    BY DEF Obtain, state, upstream, Loose
<1>6. \A i \in Ids : \A k \in Kinds : Offered(i, k)' => Offered(i, k)
    BY DEF Obtain, upstream, Offered
<1>7. \A i \in Ids : \A k \in Kinds : Placed(i, k)' => Placed(i, k)
    BY DEF Obtain, state, out, Placed, Stamped
<1>8. QED
    BY <1>2, <1>3, <1>4, <1>5, <1>6, <1>7 DEF Mints, Carries

\* A repeated action goes by the id it is queued under.
LEMMA RepeatMints ==
    ASSUME TypeOK, NEW c \in Callers, Repeat(c)
    PROVE  UNCHANGED nextId /\ \A new : Mints(new)
<1>1. PICK e \in queued_action :
          inHand' = [inHand EXCEPT ![c] = <<[id |-> e.id, kind |-> e.kind]>>]
    BY DEF Repeat
<1>2. \A b \in Callers : IF b = c THEN inHand'[b] = <<[id |-> e.id, kind |-> e.kind]>>
                                  ELSE inHand'[b] = inHand[b]
    BY <1>1 DEF TypeOK
<1>3. InHand(c)' = {[id |-> e.id, kind |-> e.kind]}
    BY <1>2 DEF InHand
<1>4. \A i \in Ids : \A k \in Kinds : InHands(i, k)' => InHands(i, k) \/ Placed(i, k)
    BY <1>2, <1>3 DEF InHands, InHand, Placed, Stamped
<1>5. \A i \in Ids : \A k \in Kinds : /\ Loose(i, k)' => Loose(i, k)
                                      /\ Offered(i, k)' => Offered(i, k)
                                      /\ Placed(i, k)' => Placed(i, k)
    BY DEF Repeat, state, upstream, out, Loose, Offered, Placed, Stamped
<1>6. UNCHANGED nextId
    BY DEF Repeat
<1>7. QED
    BY <1>4, <1>5, <1>6 DEF Mints, Carries

\* What a caller queues it had in hand.
LEMMA QueueMints ==
    ASSUME TypeOK, NEW c \in Callers, Queue(c)
    PROVE  UNCHANGED nextId /\ \A new : Mints(new)
<1> DEFINE r == Head(inHand[c])
<1>0. r \in InHand(c) /\ r = [id |-> r.id, kind |-> r.kind]
      /\ inHand' = [inHand EXCEPT ![c] = Tail(@)]
    <2>1. r \in InHand(c)
        BY HandTail DEF Queue, InHand
    <2>2. InHand(c) \subseteq [id : Ids, kind : QueueableKinds]
        BY HandTypes, EmptySeq
    <2>3. QED
        BY <2>1, <2>2 DEF Queue
<1>1. \A i \in Ids : \A k \in Kinds : InHands(i, k)' => InHands(i, k)
    <2>1. InHand(c)' \subseteq InHand(c)
        BY <1>0, HandTail DEF Queue, InHand, TypeOK
    <2>2. \A b \in Callers \ {c} : InHand(b)' = InHand(b)
        BY <1>0 DEF TypeOK, InHand
    <2>3. QED
        BY <2>1, <2>2 DEF InHands
<1>2. \A i \in Ids : \A k \in Kinds : Offered(i, k)' => Offered(i, k)
    BY DEF Queue, upstream, Offered
<1>3. \A i \in Ids : \A k \in Kinds : Loose(i, k)' => Loose(i, k) \/ InHands(i, k)
    <2>1. UNCHANGED <<queued_to_device, unshared, pending_claim, sharing>>
        BY DEF Queue, upstream
    <2>2. \A i \in queued_peer_queries' : i \in queued_peer_queries
              \/ (i = r.id /\ r.kind = "PeerKeysQueryOutOfBand")
        BY DEF Queue, QueueActionRequest, QueueSigningKeysRequest, QueueAccountKeyQuery,
               QueuePeerKeyQuery
    <2>3. QED
        BY <1>0, <2>1, <2>2 DEF Loose, InHands
<1>4. \A i \in Ids : \A k \in Kinds : Placed(i, k)' => Placed(i, k) \/ InHands(i, k)
    <2>1. UNCHANGED pending
        BY DEF Queue
    <2>2. \A e \in Stamped' : e \in Stamped \/ (e.id = r.id /\ e.kind = r.kind)
        BY DEF Queue, QueueActionRequest, QueueSigningKeysRequest, QueueAccountKeyQuery,
               QueuePeerKeyQuery, Stamped
    <2>3. UNCHANGED handed
        BY DEF Queue, out
    <2>4. QED
        BY <1>0, <2>1, <2>2, <2>3 DEF Placed, InHands
<1>5. UNCHANGED nextId
    BY DEF Queue, QueueActionRequest, QueueSigningKeysRequest, QueueAccountKeyQuery,
           QueuePeerKeyQuery
<1>6. QED
    BY <1>1, <1>2, <1>3, <1>4, <1>5 DEF Mints, Carries

\* What a sync or a share mints, and what a caller writes of it.
LEMMA SyncMints ==
    ASSUME TypeOK,
           \/ \E kind \in ReactionKinds : SyncReaction(kind)
           \/ \E c \in Callers : SyncCompletion(c)
    PROVE  nextId' \in Nat /\ nextId <= nextId' /\ \E new : Mints(new)
<1>0. nextId \in Nat
    BY DEF TypeOK
<1>1. \A i \in Ids : \A k \in Kinds : /\ Loose(i, k)' => Loose(i, k)
                                      /\ Placed(i, k)' => Placed(i, k)
    BY DEF SyncReaction, SyncCompletion, state, out, Loose, Placed, Stamped
<1>2. ASSUME NEW kind \in ReactionKinds, SyncReaction(kind)
      PROVE  nextId' \in Nat /\ nextId <= nextId' /\ Mints([i \in Ids |-> kind])
    <2>1. \A i \in Ids : \A k \in Kinds : Offered(i, k)' =>
              Offered(i, k) \/ (i = nextId /\ k = kind)
        BY <1>2 DEF SyncReaction, Offered
    <2>2. \A i \in Ids : \A k \in Kinds : InHands(i, k)' => InHands(i, k)
        BY <1>2 DEF SyncReaction, InHands, InHand
    <2>3. nextId' = nextId + 1
        BY <1>2 DEF SyncReaction
    <2>4. QED
        BY <1>0, <1>1, <2>1, <2>2, <2>3 DEF Mints, Carries
<1>3. ASSUME NEW c \in Callers, SyncCompletion(c)
      PROVE  /\ nextId' \in Nat /\ nextId <= nextId'
             /\ Mints([i \in Ids |-> IF i = nextId THEN "SignatureUpload"
                                     ELSE "PeerKeysQueryOutOfBand"])
    <2>1. \A i \in Ids : \A k \in Kinds : Offered(i, k)' =>
              Offered(i, k) \/ (i = nextId /\ k = "SignatureUpload")
        BY <1>3 DEF SyncCompletion, Offered
    <2>2. \A i \in Ids : \A k \in Kinds : InHands(i, k)' =>
              InHands(i, k) \/ (i = nextId + 1 /\ k = "PeerKeysQueryOutOfBand")
        <3>1. inHand' = [inHand EXCEPT ![c] =
                           <<[id |-> nextId + 1, kind |-> "PeerKeysQueryOutOfBand"]>>]
            BY <1>3 DEF SyncCompletion
        <3>2. InHand(c)' = {[id |-> nextId + 1, kind |-> "PeerKeysQueryOutOfBand"]}
            BY <3>1 DEF InHand, TypeOK
        <3>3. \A b \in Callers \ {c} : InHand(b)' = InHand(b)
            BY <3>1 DEF InHand, TypeOK
        <3>4. QED
            BY <3>2, <3>3 DEF InHands
    <2>3. nextId' = nextId + 2
        BY <1>3 DEF SyncCompletion
    <2>4. QED
        BY <1>0, <1>1, <2>1, <2>2, <2>3 DEF Mints, Carries
<1>4. QED
    BY <1>2, <1>3

LEMMA ShareMints ==
    ASSUME TypeOK, NEW c \in Callers,
           \/ QueueShared(c)
           \/ \E missing \in SUBSET {nextId}, fresh \in SUBSET {nextId + 1},
                 sharedOk \in BOOLEAN : ShareScopeKey(c, missing, fresh, sharedOk)
    PROVE  nextId' \in Nat /\ nextId <= nextId' /\ \E new : Mints(new)
<1>0. nextId \in Nat
    BY DEF TypeOK
<1>1. \A i \in Ids : \A k \in Kinds : /\ Offered(i, k)' => Offered(i, k)
                                      /\ InHands(i, k)' => InHands(i, k)
                                      /\ Placed(i, k)' => Placed(i, k)
    BY DEF QueueShared, ShareScopeKey, state, upstream, out, Offered, InHands, InHand,
           Placed, Stamped
<1>2. ASSUME QueueShared(c)
      PROVE  nextId' \in Nat /\ nextId <= nextId' /\ \A new : Mints(new)
    <2>1. PICK w \in sharing[c] :
              /\ pending_claim' = IF w.claim = {} THEN pending_claim ELSE w.claim
              /\ queued_to_device' = IF w.sharedOk THEN queued_to_device \cup w.toDevice
                                     ELSE queued_to_device
        BY <1>2 DEF QueueShared
    <2>2. UNCHANGED <<nextId, unshared, queued_peer_queries>>
          /\ \A b \in Callers : sharing'[b] \subseteq sharing[b]
        BY <1>2 DEF QueueShared, upstream, TypeOK
    <2>3. \A i \in Ids : \A k \in Kinds : Loose(i, k)' => Loose(i, k)
        BY <2>1, <2>2 DEF Loose
    <2>4. QED
        BY <1>0, <1>1, <2>2, <2>3 DEF Mints, Carries
<1>3. ASSUME NEW missing \in SUBSET {nextId}, NEW fresh \in SUBSET {nextId + 1},
             NEW sharedOk \in BOOLEAN, ShareScopeKey(c, missing, fresh, sharedOk)
      PROVE  /\ nextId' \in Nat /\ nextId <= nextId'
             /\ Mints([i \in Ids |-> IF i = nextId THEN "KeysClaim" ELSE "ToDevice"])
    <2>1. /\ UNCHANGED <<queued_to_device, pending_claim, queued_peer_queries>>
          /\ unshared' = unshared \cup fresh /\ nextId' = nextId + 2
          /\ sharing' = [sharing EXCEPT ![c] =
                 {[claim |-> missing, toDevice |-> unshared \cup fresh, sharedOk |-> sharedOk]}]
        BY <1>3 DEF ShareScopeKey, state
    <2>2. \A i \in Ids : \A k \in Kinds : Loose(i, k)' =>
              \/ Loose(i, k)
              \/ i \in missing /\ k = "KeysClaim"
              \/ i \in fresh /\ k = "ToDevice"
        <3>1. sharing'[c] = {[claim |-> missing, toDevice |-> unshared \cup fresh,
                              sharedOk |-> sharedOk]}
              /\ \A b \in Callers \ {c} : sharing'[b] = sharing[b]
            BY <2>1 DEF TypeOK
        <3>2. QED
            BY <2>1, <3>1 DEF Loose
    <2> DEFINE new == [i \in Ids |-> IF i = nextId THEN "KeysClaim" ELSE "ToDevice"]
    <2>3. \A i \in Ids : /\ i \in missing => i = nextId /\ new[i] = "KeysClaim"
                         /\ i \in fresh => i = nextId + 1 /\ new[i] = "ToDevice"
        <3>1. \A i \in Ids : /\ i \in missing => i = nextId
                             /\ i \in fresh => i = nextId + 1
            OBVIOUS
        <3>4. nextId + 1 # nextId
            BY <1>0
        <3>2. \A i \in Ids : new[i] = IF i = nextId THEN "KeysClaim" ELSE "ToDevice"
            OBVIOUS
        <3> HIDE DEF new
        <3>3. QED
            BY <3>1, <3>2, <3>4
    <2> HIDE DEF new
    <2>5. \A i \in Ids : \A k \in Kinds : Carries(i, k)' =>
              Carries(i, k) \/ (nextId <= i /\ i < nextId' /\ k = new[i])
        BY <1>0, <1>1, <2>1, <2>2, <2>3 DEF Carries
    <2>4. QED
        BY <1>0, <2>1, <2>5 DEF Mints, new
<1>4. QED
    BY <1>2, <1>3

\* What a drain reads, and what it hands out.
LEMMA DrainMints ==
    ASSUME TypeOK, NEW d \in Drains,
           \/ \E withBackup \in BOOLEAN : TakeSnapshot(d, withBackup)
           \/ TakeFails(d)
    PROVE  nextId' \in Nat /\ nextId <= nextId' /\ \E new : Mints(new)
<1>0. nextId \in Nat
    BY DEF TypeOK
<1>1. \A i \in Ids : \A k \in Kinds : /\ Loose(i, k)' => Loose(i, k)
                                      /\ InHands(i, k)' => InHands(i, k)
                                      /\ Placed(i, k)' => Placed(i, k)
    BY DEF TakeSnapshot, TakeFails, state, upstream, out, Loose, InHands, InHand, Placed,
           Stamped
<1>2. ASSUME TakeFails(d)
      PROVE  nextId' \in Nat /\ nextId <= nextId' /\ \A new : Mints(new)
    <2>1. UNCHANGED <<nextId, reactions>> /\ \A b \in Drains : snapshot'[b] \subseteq snapshot[b]
        BY <1>2 DEF TakeFails, upstream, TypeOK
    <2>2. \A i \in Ids : \A k \in Kinds : Offered(i, k)' => Offered(i, k)
        BY <2>1 DEF Offered
    <2>3. QED
        BY <1>0, <1>1, <2>1, <2>2 DEF Mints, Carries
<1>3. ASSUME NEW withBackup \in BOOLEAN, TakeSnapshot(d, withBackup)
      PROVE  /\ nextId' \in Nat /\ nextId <= nextId'
             /\ Mints([i \in Ids |-> IF i = nextId THEN "KeysUpload"
                                     ELSE IF i = nextId + 1 THEN "KeysQuery"
                                     ELSE "AccountKeysQuery"])
    <2> DEFINE fresh == {[id |-> nextId + Position(k), kind |-> k] : k \in needs}
               offered == {r \in reactions : withBackup \/ r.kind # "RoomKeyBackup"}
    <2>1. /\ snapshot' = [snapshot EXCEPT ![d] = {offered \cup fresh}]
          /\ UNCHANGED reactions
          /\ nextId' = IF needs = {} THEN nextId ELSE nextId + 3
        BY <1>3 DEF TakeSnapshot
    <2>2. \A i \in Ids : \A k \in Kinds : [id |-> i, kind |-> k] \in fresh =>
              /\ needs # {}
              /\ \/ k = "KeysUpload" /\ i = nextId
                 \/ k = "KeysQuery" /\ i = nextId + 1
                 \/ k = "AccountKeysQuery" /\ i = nextId + 2
        <3>1. \A k \in needs : k \in {"KeysUpload", "KeysQuery", "AccountKeysQuery"}
            BY PumpAssumption DEF TypeOK, StandingKinds, AccountScoped
        <3>2. ASSUME NEW i \in Ids, NEW k \in Kinds, [id |-> i, kind |-> k] \in fresh
              PROVE  k \in needs /\ i = nextId + Position(k)
            BY <3>2
        <3>3. QED
            BY <1>0, <3>1, <3>2 DEF Position
    <2> HIDE DEF fresh
    <2>3. \A i \in Ids : \A k \in Kinds : Offered(i, k)' =>
              Offered(i, k) \/ [id |-> i, kind |-> k] \in fresh
        <3>1. snapshot'[d] = {offered \cup fresh}
              /\ \A b \in Drains \ {d} : snapshot'[b] = snapshot[b]
            BY <2>1 DEF TypeOK
        <3>2. QED
            BY <2>1, <3>1 DEF Offered
    <2> DEFINE new == [i \in Ids |-> IF i = nextId THEN "KeysUpload"
                                     ELSE IF i = nextId + 1 THEN "KeysQuery"
                                     ELSE "AccountKeysQuery"]
    <2>4. \A i \in Ids : \A k \in Kinds : [id |-> i, kind |-> k] \in fresh =>
              nextId <= i /\ i < nextId' /\ k = new[i]
        BY <1>0, <2>1, <2>2
    <2> HIDE DEF new
    <2>5. \A i \in Ids : \A k \in Kinds : Carries(i, k)' =>
              Carries(i, k) \/ (nextId <= i /\ i < nextId' /\ k = new[i])
        BY <1>1, <2>3, <2>4 DEF Carries
    <2>6. QED
        BY <1>0, <2>1, <2>5 DEF Mints, new
<1>4. QED
    BY <1>2, <1>3

\* An entry of a batch was queued with its stamp, or is one of the others the
\* pump or upstream held, with the place given to it now or already in `pending`.
LEMMA EntryCarried ==
    ASSUME TypeOK, NEW d \in Drains, NEW offered \in snapshot[d],
           NEW stamp \in Stamps(Unstamped(offered)),
           NEW e \in Ordered(Unstamped(offered), stamp)
    PROVE  /\ e.id \in Ids /\ e.kind \in Kinds
           /\ \/ e \in Stamped
              \/ /\ Loose(e.id, e.kind) \/ Offered(e.id, e.kind)
                 /\ e.sequence = IF e.id \in NewIds(Unstamped(offered)) THEN stamp[e.id]
                                 ELSE pending[e.id].sequence
<1>1. offered \in SUBSET Request
    BY DEF TypeOK
<1>2. DOMAIN stamp = NewIds(Unstamped(offered))
    BY <1>1, StampsType
<1>3. ASSUME NEW u \in Unstamped(offered)
      PROVE  Loose(u.id, u.kind) \/ Offered(u.id, u.kind)
    <2>1. ASSUME NEW r \in offered, u.id = r.id, u.kind = r.kind
          PROVE  Offered(u.id, u.kind)
        <3>1. r = [id |-> r.id, kind |-> r.kind]
            BY <1>1 DEF Request
        <3>2. QED
            BY <2>1, <3>1 DEF Offered
    <2>2. QED
        BY <2>1 DEF Unstamped, Loose
<1>4. e.id \in Ids /\ e.kind \in Kinds
    BY <1>1, OrderedType
<1>5. CASE e \in Stamped
    BY <1>4, <1>5
<1>6. ASSUME NEW u \in Unstamped(offered),
             e = [id |-> u.id, kind |-> u.kind,
                  sequence |-> IF u.id \in DOMAIN stamp THEN stamp[u.id]
                               ELSE pending[u.id].sequence]
      PROVE  /\ Loose(e.id, e.kind) \/ Offered(e.id, e.kind)
             /\ e.sequence = IF e.id \in NewIds(Unstamped(offered)) THEN stamp[e.id]
                             ELSE pending[e.id].sequence
    BY <1>2, <1>3, <1>6
<1>7. QED
    BY <1>4, <1>5, <1>6 DEF Ordered

\* What is unresolved after a hand-out was unresolved before, in the same
\* place, or is an entry of the batch.
LEMMA HandOutPlaces ==
    ASSUME TypeOK, NEW d \in Drains, NEW offered \in snapshot[d],
           NEW stamp \in Stamps(Unstamped(offered)),
           HandOutBatch(d, Unstamped(offered), Ordered(Unstamped(offered), stamp))
    PROVE  \A i \in DOMAIN pending' :
              \/ \E e \in Ordered(Unstamped(offered), stamp) :
                    /\ e.id = i
                    /\ pending'[i].kind = e.kind /\ pending'[i].sequence = e.sequence
              \/ /\ i \in DOMAIN pending /\ pending'[i] = pending[i]
                 /\ \A e \in Ordered(Unstamped(offered), stamp) : e.id # i
<1> DEFINE entries == Ordered(Unstamped(offered), stamp)
<1>1. offered \in SUBSET Request
    BY DEF TypeOK
<1>2. entries \subseteq [id : Ids, kind : Kinds, sequence : Nat]
    BY <1>1, OrderedType
<1>3. pending' = Registered(entries)
    BY DEF HandOutBatch
<1> HIDE DEF entries
<1>4. \A i \in DOMAIN pending' :
          \/ \E e \in entries :
                e.id = i /\ pending'[i] = [kind |-> e.kind, sequence |-> e.sequence]
          \/ /\ i \in DOMAIN pending /\ pending'[i] = pending[i]
             /\ \A e \in entries : e.id # i
    BY <1>2, <1>3, RegisteredType
<1>5. QED
    BY <1>4 DEF entries

LEMMA HandOutMints ==
    ASSUME TypeOK, NEW d \in Drains, HandOut(d)
    PROVE  UNCHANGED nextId /\ \A new : Mints(new)
<1>1. PICK offered \in snapshot[d] : \E stamp \in Stamps(Unstamped(offered)) :
          HandOutBatch(d, Unstamped(offered), Ordered(Unstamped(offered), stamp))
    BY DEF HandOut
<1>2. PICK stamp \in Stamps(Unstamped(offered)) :
          HandOutBatch(d, Unstamped(offered), Ordered(Unstamped(offered), stamp))
    BY <1>1
<1>3. \A i \in Ids : \A k \in Kinds : Placed(i, k)' => Carries(i, k)
    <2>1. Stamped' = {}
        BY <1>2 DEF HandOutBatch, Stamped
    <2>2. \A e \in Ordered(Unstamped(offered), stamp) : Carries(e.id, e.kind)
        BY EntryCarried DEF Carries, Placed
    <2>3. handed' = handed \cup {[id |-> e.id, kind |-> e.kind] :
                                    e \in Ordered(Unstamped(offered), stamp)}
        BY <1>2 DEF HandOutBatch
    <2>4. \A i \in DOMAIN pending' : Carries(i, pending'[i].kind)
        BY <1>2, <2>2, HandOutPlaces DEF Placed, Carries
    <2> DEFINE entries == Ordered(Unstamped(offered), stamp)
    <2> HIDE DEF entries, Carries
    <2>5. \A e \in entries : Carries(e.id, e.kind)
        BY <2>2 DEF entries
    <2>6. ASSUME NEW i \in Ids, NEW k \in Kinds, [id |-> i, kind |-> k] \in handed'
          PROVE  Carries(i, k)
        <3>1. \/ [id |-> i, kind |-> k] \in handed
              \/ \E e \in entries : e.id = i /\ e.kind = k
            BY <2>3, <2>6 DEF entries
        <3>2. QED
            BY <2>5, <3>1 DEF Carries, Placed
    <2>7. QED
        BY <2>1, <2>4, <2>6 DEF Placed
<1>4. \A i \in Ids : \A k \in Kinds : /\ Loose(i, k)' => Loose(i, k)
                                      /\ InHands(i, k)' => InHands(i, k)
    BY <1>2 DEF HandOutBatch, upstream, Loose, InHands, InHand
<1>5. UNCHANGED <<reactions, nextId>> /\ \A b \in Drains : snapshot'[b] \subseteq snapshot[b]
    BY <1>2 DEF HandOutBatch, upstream, TypeOK
<1>6. \A i \in Ids : \A k \in Kinds : Offered(i, k)' => Offered(i, k)
    BY <1>5 DEF Offered
<1>7. QED
    BY <1>3, <1>4, <1>5, <1>6 DEF Mints, Carries

LEMMA ReportMints ==
    ASSUME TypeOK,
           \/ UNCHANGED vars
           \/ \E kind \in Needs : NeedArises(kind)
           \/ \E call \in Reports : \E i \in DOMAIN pending : MarkRead(call, i)
           \/ \E m \in marking :
                 \/ \E settled \in AnswerAboutAccount : MarkSent(m, settled)
                 \/ MarkRejected(m) \/ MarkResolved(m)
    PROVE  UNCHANGED nextId /\ \A new : Mints(new)
<1>1. UNCHANGED <<nextId, queued_to_device, pending_claim, queued_action,
                  queued_signing_keys, queued_account_query, queued_peer_queries, inHand,
                  sharing, snapshot, handed>>
      /\ reactions' \subseteq reactions /\ unshared' \subseteq unshared
    BY DEF vars, state, upstream, out, NeedArises, MarkRead, MarkSent, MarkRejected,
           MarkResolved
<1>2. DOMAIN pending' \subseteq DOMAIN pending
      /\ \A i \in DOMAIN pending' : pending'[i] = pending[i]
    BY DEF vars, state, NeedArises, MarkRead, MarkSent, MarkRejected, MarkResolved
<1>3. \A i \in Ids : \A k \in Kinds : /\ Loose(i, k)' => Loose(i, k)
                                      /\ Offered(i, k)' => Offered(i, k)
                                      /\ InHands(i, k)' => InHands(i, k)
    BY <1>1 DEF Loose, Offered, InHands, InHand
<1>4. \A i \in Ids : \A k \in Kinds : Placed(i, k)' => Placed(i, k)
    BY <1>1, <1>2 DEF Placed, Stamped
<1>5. QED
    BY <1>1, <1>3, <1>4 DEF Mints, Carries

\* An id names one request for good.
LEMMA NamesStep ==
    ASSUME TypeOK, OneKind, Minted, [Next]_vars
    PROVE  OneKind' /\ Minted'
<1>1. nextId \in Nat
    BY DEF TypeOK
<1>2. ASSUME NEW new, Mints(new), nextId' \in Nat, nextId <= nextId'
      PROVE  OneKind' /\ Minted'
    BY <1>2, MintsOnce
<1>3. CASE UNCHANGED vars
    BY <1>1, <1>2, <1>3, ReportMints
<1>4. ASSUME NEW c \in Callers, NEW program \in Programs, Obtain(c, program)
      PROVE  OneKind' /\ Minted'
    BY <1>2, <1>4, ObtainMints
<1>5. ASSUME NEW c \in Callers, Repeat(c) \/ Queue(c)
      PROVE  OneKind' /\ Minted'
    BY <1>1, <1>2, <1>5, RepeatMints, QueueMints
<1>6. ASSUME NEW d \in Drains, HandOut(d)
      PROVE  OneKind' /\ Minted'
    BY <1>1, <1>2, <1>6, HandOutMints
<1>7. CASE Next
    <2>1. ASSUME \/ \E kind \in Needs : NeedArises(kind)
                 \/ \E call \in Reports : \E i \in DOMAIN pending : MarkRead(call, i)
                 \/ \E m \in marking :
                       \/ \E settled \in AnswerAboutAccount : MarkSent(m, settled)
                       \/ MarkRejected(m) \/ MarkResolved(m)
          PROVE  OneKind' /\ Minted'
        BY <1>1, <1>2, <2>1, ReportMints
    <2>2. ASSUME \/ \E kind \in ReactionKinds : SyncReaction(kind)
                 \/ \E c \in Callers : SyncCompletion(c)
          PROVE  OneKind' /\ Minted'
        BY <1>2, <2>2, SyncMints
    <2>3. ASSUME NEW c \in Callers,
                 \/ QueueShared(c)
                 \/ \E missing \in SUBSET {nextId}, fresh \in SUBSET {nextId + 1},
                       sharedOk \in BOOLEAN : ShareScopeKey(c, missing, fresh, sharedOk)
          PROVE  OneKind' /\ Minted'
        BY <1>2, <2>3, ShareMints
    <2>4. ASSUME NEW d \in Drains,
                 \/ \E withBackup \in BOOLEAN : TakeSnapshot(d, withBackup)
                 \/ TakeFails(d)
          PROVE  OneKind' /\ Minted'
        BY <1>2, <2>4, DrainMints
    <2>5. QED
        BY <1>4, <1>5, <1>6, <1>7, <2>1, <2>2, <2>3, <2>4 DEF Next
<1>8. QED
    BY <1>3, <1>7

LEMMA OffersStep ==
    ASSUME TypeOK, OffersOrdinary, [Next]_vars
    PROVE  OffersOrdinary'
<1>1. CASE UNCHANGED <<reactions, snapshot>>
    BY <1>1 DEF OffersOrdinary
<1>2. \A k \in QueuedKinds \cup StandingKinds : k \notin LibraryKinds
    BY DEF QueuedKinds, StandingKinds, OutgoingKinds, AccountScoped, LibraryKinds, SlotKinds
<1>3. CASE \/ \E kind \in ReactionKinds : SyncReaction(kind)
           \/ \E c \in Callers : SyncCompletion(c)
    <2>1. UNCHANGED snapshot
          /\ \A r \in reactions' : r \in reactions \/ r.kind \notin LibraryKinds
        BY <1>2, <1>3, PumpAssumption DEF SyncReaction, SyncCompletion, LibraryKinds, SlotKinds
    <2>2. QED
        BY <2>1 DEF OffersOrdinary
<1>4. ASSUME NEW d \in Drains,
             \/ \E withBackup \in BOOLEAN : TakeSnapshot(d, withBackup)
             \/ TakeFails(d) \/ HandOut(d)
      PROVE  OffersOrdinary'
    <2>1. \A offered \in snapshot'[d] : \A r \in offered : r.kind \notin LibraryKinds
        <3>1. CASE TakeFails(d) \/ HandOut(d)
            BY <3>1 DEF TakeFails, HandOut, HandOutBatch, TypeOK
        <3>2. ASSUME NEW withBackup \in BOOLEAN, TakeSnapshot(d, withBackup),
                     NEW offered \in snapshot'[d], NEW r \in offered
              PROVE  r.kind \notin LibraryKinds
            <4>1. r \in reactions \/ r.kind \in needs
                BY <3>2 DEF TakeSnapshot, TypeOK
            <4>2. needs \subseteq StandingKinds
                BY PumpAssumption DEF TypeOK
            <4>3. QED
                BY <1>2, <4>1, <4>2 DEF OffersOrdinary
        <3>3. QED
            BY <1>4, <3>1, <3>2
    <2>2. UNCHANGED reactions /\ \A b \in Drains \ {d} : snapshot'[b] = snapshot[b]
        BY <1>4 DEF TakeSnapshot, TakeFails, HandOut, HandOutBatch, upstream, TypeOK
    <2>3. QED
        BY <2>1, <2>2 DEF OffersOrdinary
<1>5. ASSUME NEW m \in marking, NEW settled \in AnswerAboutAccount, MarkSent(m, settled)
      PROVE  OffersOrdinary'
    BY <1>5 DEF MarkSent, OffersOrdinary
<1>6. CASE Next
    BY <1>1, <1>3, <1>4, <1>5, <1>6
       DEF Next, upstream, Obtain, Repeat, Queue, ShareScopeKey, QueueShared, NeedArises,
           MarkRead, MarkRejected, MarkResolved
<1>7. QED
    BY <1>1, <1>6 DEF vars, upstream

\* What a caller has in hand is carried, and so is what is queued or pending.
LEMMA InHandCarried ==
    ASSUME TypeOK, NEW c \in Callers, NEW n \in DOMAIN inHand[c]
    PROVE  /\ inHand[c][n].id \in Ids /\ inHand[c][n].kind \in Kinds
           /\ Carries(inHand[c][n].id, inHand[c][n].kind)
<1> DEFINE r == inHand[c][n]
<1>1. r \in [id : Ids, kind : QueueableKinds] /\ r.kind \in Kinds
    BY HandKinds
<1>2. r = [id |-> r.id, kind |-> r.kind] /\ r \in InHand(c)
    BY <1>1 DEF InHand
<1>3. InHands(r.id, r.kind)
    BY <1>2 DEF InHands
<1>4. QED
    BY <1>1, <1>3 DEF Carries

LEMMA StampedCarried ==
    ASSUME TypeOK, NEW e \in Stamped
    PROVE  e.id \in Ids /\ e.kind \in Kinds /\ Carries(e.id, e.kind)
BY DEF TypeOK, Stamped, Carries, Placed, ActionKinds, Kinds

LEMMA PendingCarried ==
    ASSUME TypeOK, NEW i \in DOMAIN pending
    PROVE  i \in Ids /\ pending[i].kind \in Kinds /\ Carries(i, pending[i].kind)
BY DEF TypeOK, Carries, Placed

LEMMA HandedCarried ==
    ASSUME TypeOK, NEW h \in handed
    PROVE  h.id \in Ids /\ h.kind \in Kinds /\ Carries(h.id, h.kind)
<1>1. h \in Request
    BY DEF TypeOK
<1>2. h = [id |-> h.id, kind |-> h.kind]
    BY <1>1 DEF Request
<1>3. QED
    BY <1>1, <1>2 DEF Request, Carries, Placed

\* A step that puts nothing new where an id may be stamped or pending, and
\* nothing in a hand.
LEMMA QuietApart ==
    ASSUME HandsApart, UNCHANGED inHand, Stamped' \subseteq Stamped,
           DOMAIN pending' \subseteq DOMAIN pending, UNCHANGED handed
    PROVE  HandsApart'
BY DEF HandsApart, HandedIds

\* A caller that gets requests: new ones, or one with no slot.
LEMMA HandApart ==
    ASSUME TypeOK, OneKind, Minted, HandsApart, NEW c \in Callers, NEW s,
           UNCHANGED <<pending, queued_action, queued_signing_keys, queued_account_query,
                       handed>>,
           inHand' = [inHand EXCEPT ![c] = s],
           \A n \in DOMAIN s :
              /\ s[n].id \in Ids
              /\ \/ nextId <= s[n].id /\ \A l \in DOMAIN s : s[l].id = s[n].id => l = n
                 \/ \E k \in Kinds \ SlotKinds : s[n].kind = k /\ Carries(s[n].id, k)
    PROVE  HandsApart'
<1>1. inHand'[c] = s /\ \A b \in Callers \ {c} : inHand'[b] = inHand[b]
    BY DEF TypeOK
<1>2. Stamped' = Stamped /\ pending' = pending /\ HandedIds' = HandedIds
    BY DEF Stamped, HandedIds
<1>3. /\ \A e \in Stamped : e.id < nextId
      /\ \A i \in DOMAIN pending \cup HandedIds : i < nextId
      /\ \A b \in Callers : \A l \in DOMAIN inHand[b] : inHand[b][l].id < nextId
    BY StampedCarried, PendingCarried, HandedCarried, InHandCarried DEF Minted, HandedIds
<1>4. nextId \in Nat /\ Ids \subseteq Nat
    BY PumpAssumption DEF TypeOK, Ids
<1>5. /\ \A e \in Stamped : e.id \in Ids
      /\ \A b \in Callers : \A l \in DOMAIN inHand[b] :
            inHand[b][l].id \in Ids /\ inHand[b][l].kind \in Kinds
    BY StampedCarried, InHandCarried
<1>6. ASSUME NEW n \in DOMAIN s, s[n].kind \in SlotKinds
      PROVE  /\ s[n].id \notin DOMAIN pending \cup HandedIds
             /\ \A e \in Stamped : e.id # s[n].id
             /\ \A b \in Callers : \A l \in DOMAIN inHand'[b] :
                   inHand'[b][l].id = s[n].id => b = c /\ l = n
    <2>1. /\ s[n].id \in Ids /\ nextId <= s[n].id
          /\ \A l \in DOMAIN s : s[l].id = s[n].id => l = n
        BY <1>6
    <2>2. \A i \in Ids : i < nextId => i # s[n].id
        <3> DEFINE j == s[n].id
        <3>1. j \in Ids /\ nextId <= j
            BY <2>1
        <3> HIDE DEF j
        <3>2. \A i \in Ids : i < nextId => i # j
            BY <1>4, <3>1
        <3>3. QED
            BY <3>2 DEF j
    <2>3. DOMAIN pending \cup HandedIds \subseteq Ids
        BY HandedCarried DEF TypeOK, HandedIds
    <2>4. s[n].id \notin DOMAIN pending \cup HandedIds /\ \A e \in Stamped : e.id # s[n].id
        BY <1>3, <1>5, <2>2, <2>3
    <2>5. ASSUME NEW b \in Callers, NEW l \in DOMAIN inHand'[b], inHand'[b][l].id = s[n].id
          PROVE  b = c /\ l = n
        <3>1. CASE b = c
            BY <1>1, <2>1, <2>5, <3>1
        <3>2. CASE b # c
            BY <1>1, <1>3, <1>5, <2>2, <2>5, <3>2
        <3>3. QED
            BY <3>1, <3>2
    <2>6. QED
        BY <2>4, <2>5
<1>7. ASSUME NEW b \in Callers, b # c, NEW n \in DOMAIN inHand[b],
             inHand[b][n].kind \in SlotKinds, NEW l \in DOMAIN s, s[l].id = inHand[b][n].id
      PROVE  FALSE
    <2>1. CASE nextId <= s[l].id
        <3> DEFINE j == inHand[b][n].id
        <3>1. j \in Ids /\ j < nextId /\ nextId <= j
            BY <1>3, <1>5, <1>7, <2>1
        <3> HIDE DEF j
        <3>2. QED
            BY <1>4, <3>1
    <2>2. CASE \E k \in Kinds \ SlotKinds : s[l].kind = k /\ Carries(s[l].id, k)
        BY <1>7, <2>2, InHandCarried DEF OneKind
    <2>3. QED
        BY <2>1, <2>2
<1>8. QED
    BY <1>1, <1>2, <1>6, <1>7 DEF HandsApart

LEMMA ObtainApart ==
    ASSUME TypeOK, OneKind, Minted, HandsApart, NEW c \in Callers,
           \/ \E program \in Programs : Obtain(c, program)
           \/ Repeat(c) \/ SyncCompletion(c)
    PROVE  HandsApart'
<1>0. UNCHANGED <<pending, queued_action, queued_signing_keys, queued_account_query,
                  handed>>
      /\ nextId \in Nat
    BY DEF Obtain, Repeat, SyncCompletion, state, out, TypeOK
<1>1. ASSUME NEW program \in Programs, Obtain(c, program)
      PROVE  HandsApart'
    <2> DEFINE s == [n \in 1 .. Len(program.calls) |->
                       [id |-> nextId + n - 1, kind |-> program.calls[n]]]
    <2>1. inHand' = [inHand EXCEPT ![c] = s]
        BY <1>1 DEF Obtain
    <2>2. program.calls \in Seq(QueueableKinds \ {"PeerKeysQueryOutOfBand"})
        BY PumpAssumption
    <2>3. Len(program.calls) \in Nat /\ nextId + Len(program.calls) <= MaxIds
        BY <1>1, <2>2 DEF Obtain
    <2>4. \A n \in DOMAIN s : n \in Nat /\ n >= 1 /\ n <= Len(program.calls)
                              /\ s[n].id = nextId + n - 1
        BY <2>3
    <2> HIDE DEF s
    <2>5. ASSUME NEW n \in DOMAIN s
          PROVE  /\ s[n].id \in Ids /\ nextId <= s[n].id
                 /\ \A l \in DOMAIN s : s[l].id = s[n].id => l = n
        <3>1. /\ n \in Nat /\ n >= 1 /\ n <= Len(program.calls) /\ s[n].id = nextId + n - 1
              /\ \A l \in DOMAIN s : l \in Nat /\ s[l].id = nextId + l - 1
            BY <2>4
        <3>2. nextId + n - 1 \in Ids /\ nextId <= nextId + n - 1
            BY <1>0, <2>3, <3>1, PumpAssumption DEF Ids
        <3>3. \A l \in Nat : nextId + l - 1 = nextId + n - 1 => l = n
            BY <1>0, <3>1
        <3>4. QED
            BY <3>1, <3>2, <3>3
    <2>6. QED
        BY <1>0, <2>1, <2>5, HandApart
<1>2. CASE Repeat(c)
    <2>1. PICK e \in queued_action :
              inHand' = [inHand EXCEPT ![c] = <<[id |-> e.id, kind |-> e.kind]>>]
        BY <1>2 DEF Repeat
    <2>2. e.id \in Ids /\ e.kind \in Kinds \ SlotKinds /\ Carries(e.id, e.kind)
        BY DEF TypeOK, ActionKinds, Kinds, SlotKinds, Carries, Placed, Stamped
    <2> DEFINE s == <<[id |-> e.id, kind |-> e.kind]>>
    <2>3. \A n \in DOMAIN s : s[n].id = e.id /\ s[n].kind = e.kind
        OBVIOUS
    <2> HIDE DEF s
    <2>4. inHand' = [inHand EXCEPT ![c] = s]
        BY <2>1 DEF s
    <2>5. QED
        BY <1>0, <2>2, <2>3, <2>4, HandApart
<1>3. CASE SyncCompletion(c)
    <2> DEFINE s == <<[id |-> nextId + 1, kind |-> "PeerKeysQueryOutOfBand"]>>
    <2>1. inHand' = [inHand EXCEPT ![c] = s] /\ nextId + 1 < MaxIds
        BY <1>3 DEF SyncCompletion
    <2>2. nextId + 1 \in Ids /\ nextId <= nextId + 1
        BY <1>0, <2>1, PumpAssumption DEF Ids
    <2>3. DOMAIN s = {1} /\ s[1].id = nextId + 1
        OBVIOUS
    <2> HIDE DEF s
    <2>4. QED
        BY <1>0, <2>1, <2>2, <2>3, HandApart
<1>4. QED
    BY <1>1, <1>2, <1>3

\* A caller queues the first of its requests: the others stay apart from it.
LEMMA QueueApart ==
    ASSUME TypeOK, OneKind, HandsApart, NEW c \in Callers, Queue(c)
    PROVE  HandsApart'
<1> DEFINE r == inHand[c][1]
<1>1. /\ r = Head(inHand[c]) /\ 1 \in DOMAIN inHand[c]
      /\ \A n \in DOMAIN Tail(inHand[c]) :
            n \in Nat \ {0} /\ n + 1 \in DOMAIN inHand[c] /\ Tail(inHand[c])[n] = inHand[c][n + 1]
    BY HandTail DEF Queue
<1>2. inHand'[c] = Tail(inHand[c]) /\ \A b \in Callers \ {c} : inHand'[b] = inHand[b]
    BY DEF Queue, TypeOK
<1>3. \A e \in Stamped' : e \in Stamped \/ (e.id = r.id /\ e.kind = r.kind)
    BY <1>1 DEF Queue, QueueActionRequest, QueueSigningKeysRequest, QueueAccountKeyQuery,
           QueuePeerKeyQuery, Stamped
<1>4. UNCHANGED pending /\ HandedIds' = HandedIds
    BY DEF Queue, out, HandedIds
\* Where a request of the next hands is in these.
<1> DEFINE Place(b, n) == IF b = c THEN n + 1 ELSE n
<1>5. \A b \in Callers : \A n \in DOMAIN inHand'[b] :
          /\ Place(b, n) \in DOMAIN inHand[b] /\ inHand'[b][n] = inHand[b][Place(b, n)]
          /\ b = c => n \in Nat \ {0}
    BY <1>1, <1>2
<1>6. \A b \in Callers : \A n \in DOMAIN inHand'[b] : b # c \/ Place(b, n) # 1
    BY <1>5
<1>7. ASSUME NEW b \in Callers, NEW n \in DOMAIN inHand'[b],
             inHand'[b][n].kind \in SlotKinds
      PROVE  /\ inHand'[b][n].id \notin DOMAIN pending' \cup HandedIds'
             /\ \A e \in Stamped' : e.id # inHand'[b][n].id
             /\ \A a \in Callers : \A l \in DOMAIN inHand'[a] :
                   inHand'[a][l].id = inHand'[b][n].id => a = b /\ l = n
    <2> DEFINE q == inHand[b][Place(b, n)]
    <2>1. /\ q = inHand'[b][n] /\ Place(b, n) \in DOMAIN inHand[b]
          /\ q.kind \in SlotKinds
        BY <1>5, <1>7
    <2>2. r.id # q.id
        BY <1>1, <1>6, <2>1 DEF HandsApart
    <2>3. \A e \in Stamped' : e.id # q.id
        BY <1>3, <2>1, <2>2 DEF HandsApart
    <2>4. q.id \notin DOMAIN pending' \cup HandedIds'
        BY <1>4, <2>1 DEF HandsApart
    <2>5. ASSUME NEW a \in Callers, NEW l \in DOMAIN inHand'[a], inHand'[a][l].id = q.id
          PROVE  a = b /\ l = n
        <3>1. a = b /\ Place(a, l) = Place(b, n)
            BY <1>5, <2>1, <2>5 DEF HandsApart
        <3>2. QED
            BY <1>5, <3>1
    <2> HIDE DEF q
    <2>6. QED
        BY <2>1, <2>3, <2>4, <2>5
<1>8. QED
    BY <1>7 DEF HandsApart

LEMMA HandOutApart ==
    ASSUME TypeOK, OneKind, OffersOrdinary, HandsApart, NEW d \in Drains, HandOut(d)
    PROVE  HandsApart'
<1>1. PICK offered \in snapshot[d] : \E stamp \in Stamps(Unstamped(offered)) :
          HandOutBatch(d, Unstamped(offered), Ordered(Unstamped(offered), stamp))
    BY DEF HandOut
<1>2. PICK stamp \in Stamps(Unstamped(offered)) :
          HandOutBatch(d, Unstamped(offered), Ordered(Unstamped(offered), stamp))
    BY <1>1
<1>3. Stamped' = {} /\ UNCHANGED inHand
    BY <1>2 DEF HandOutBatch, Stamped
<1>4. ASSUME NEW i \in Ids, NEW k \in Kinds, Loose(i, k) \/ Offered(i, k)
      PROVE  k \notin SlotKinds /\ Carries(i, k)
    BY <1>4 DEF Loose, Offered, OffersOrdinary, LibraryKinds, SlotKinds, Carries
<1>5. ASSUME NEW c \in Callers, NEW n \in DOMAIN inHand[c], inHand[c][n].kind \in SlotKinds
      PROVE  inHand[c][n].id \notin DOMAIN pending' \cup HandedIds'
    <2> DEFINE r == inHand[c][n]
    <2>1. r.id \in Ids /\ r.kind \in Kinds /\ Carries(r.id, r.kind)
        BY InHandCarried
    <2>2. \A e \in Ordered(Unstamped(offered), stamp) : e.id # r.id
        BY <1>4, <1>5, <2>1, EntryCarried DEF HandsApart, OneKind
    <2>3. r.id \notin DOMAIN pending \cup HandedIds
        BY <1>5 DEF HandsApart
    <2>4. handed' = handed \cup {[id |-> e.id, kind |-> e.kind] :
                                    e \in Ordered(Unstamped(offered), stamp)}
        BY <1>2 DEF HandOutBatch
    <2>5. r.id \notin HandedIds'
        BY <2>2, <2>3, <2>4 DEF HandedIds
    <2>6. QED
        BY <1>2, <2>2, <2>3, <2>5, HandOutPlaces
<1>6. QED
    BY <1>3, <1>5 DEF HandsApart

LEMMA ApartStep ==
    ASSUME TypeOK, OneKind, Minted, OffersOrdinary, HandsApart, [Next]_vars
    PROVE  HandsApart'
<1>1. ASSUME NEW c \in Callers,
             \/ \E program \in Programs : Obtain(c, program)
             \/ Repeat(c) \/ SyncCompletion(c) \/ Queue(c)
      PROVE  HandsApart'
    BY <1>1, ObtainApart, QueueApart
<1>2. ASSUME NEW d \in Drains, HandOut(d)
      PROVE  HandsApart'
    BY <1>2, HandOutApart
<1>3. ASSUME NEW m \in marking, MarkResolved(m)
      PROVE  HandsApart'
    BY <1>3, QuietApart DEF MarkResolved, out, Stamped
<1>4. CASE UNCHANGED <<pending, queued_action, queued_signing_keys, queued_account_query,
                       inHand, handed>>
    BY <1>4, QuietApart DEF Stamped
<1>5. QED
    BY <1>1, <1>2, <1>3, <1>4
       DEF Next, vars, state, out, ShareScopeKey, QueueShared, SyncReaction, NeedArises,
           TakeSnapshot, TakeFails, MarkRead, MarkSent, MarkRejected

\* What is queued with a stamp is neither queued twice nor unresolved.
LEMMA HomeStep ==
    ASSUME TypeOK, OneKind, HandsApart, Singletons, OneHomePerId, [Next]_vars
    PROVE  OneHomePerId'
<1>1. ASSUME NEW c \in Callers, Queue(c)
      PROVE  OneHomePerId'
    <2> DEFINE r == inHand[c][1]
    <2>1. r = Head(inHand[c]) /\ 1 \in DOMAIN inHand[c] /\ UNCHANGED pending
        BY <1>1, HandTail DEF Queue
    <2>2. r.id \in Ids /\ r.kind \in Kinds /\ Carries(r.id, r.kind)
        BY <2>1, InHandCarried
    <2> HIDE DEF r
    <2>3. CASE QueueActionRequest(r)
        <3>1. \A e \in queued_signing_keys \cup queued_account_query : e.id # r.id
            BY <2>2, <2>3, StampedCarried
               DEF QueueActionRequest, ActionKinds, OneKind, TypeOK, Stamped
        <3>2. CASE UNCHANGED queued_action
            BY <2>1, <2>3, <3>2 DEF QueueActionRequest, OneHomePerId, Stamped
        <3>3. CASE queued_action' = queued_action \cup
                       {[id |-> r.id, kind |-> r.kind, sequence |-> next_sequence]}
                   /\ r.id \notin DOMAIN pending /\ \A e \in queued_action : e.id # r.id
            <4> DEFINE new == [id |-> r.id, kind |-> r.kind, sequence |-> next_sequence]
            <4>1. Stamped' = Stamped \cup {new}
                BY <2>3, <3>3 DEF QueueActionRequest, Stamped
            <4>2. \A e \in Stamped : e.id # new.id
                BY <3>1, <3>3 DEF Stamped
            <4>3. new.id \notin DOMAIN pending
                BY <3>3
            <4> HIDE DEF new
            <4>4. QED
                BY <2>1, <4>1, <4>2, <4>3 DEF OneHomePerId
        <3>4. QED
            BY <2>3, <3>2, <3>3 DEF QueueActionRequest
    <2>4. CASE QueueSigningKeysRequest(c, r) \/ QueueAccountKeyQuery(r)
        <3>1. r.kind \in SlotKinds
            BY <2>4 DEF QueueSigningKeysRequest, QueueAccountKeyQuery, SlotKinds
        <3>2. r.id \notin DOMAIN pending /\ \A e \in Stamped : e.id # r.id
            BY <2>1, <3>1 DEF HandsApart, r
        <3>3. /\ \A e \in Stamped' : e \in Stamped \/ e.id = r.id
              /\ \A e, f \in Stamped' : e.id = r.id /\ f.id = r.id =>
                     e \in Stamped \/ f \in Stamped \/ e = f
            BY <2>4 DEF QueueSigningKeysRequest, QueueAccountKeyQuery, Stamped, Singletons
        <3>4. QED
            BY <2>1, <3>2, <3>3 DEF OneHomePerId
    <2>5. CASE QueuePeerKeyQuery(r)
        BY <2>1, <2>5 DEF QueuePeerKeyQuery, OneHomePerId, Stamped
    <2>6. QED
        BY <1>1, <2>1, <2>3, <2>4, <2>5 DEF Queue
<1>2. ASSUME NEW d \in Drains, HandOut(d)
      PROVE  OneHomePerId'
    BY <1>2 DEF HandOut, HandOutBatch, OneHomePerId, Stamped
<1>3. ASSUME NEW m \in marking, MarkResolved(m)
      PROVE  OneHomePerId'
    BY <1>3 DEF MarkResolved, OneHomePerId, Stamped
<1>4. CASE UNCHANGED <<pending, queued_action, queued_signing_keys, queued_account_query>>
    BY <1>4 DEF OneHomePerId, Stamped
<1>5. QED
    BY <1>1, <1>2, <1>3, <1>4
       DEF Next, vars, state, Obtain, Repeat, SyncCompletion, ShareScopeKey, QueueShared,
           SyncReaction, NeedArises, TakeSnapshot, TakeFails, MarkRead, MarkSent, MarkRejected

LEMMA HomesHold ==
    Spec => [](OneKind /\ Minted /\ OffersOrdinary /\ HandsApart /\ OneHomePerId)
<1>1. Init => OneKind /\ Minted /\ OffersOrdinary /\ HandsApart /\ OneHomePerId
    <2> SUFFICES ASSUME Init
                 PROVE  OneKind /\ Minted /\ OffersOrdinary /\ HandsApart /\ OneHomePerId
        OBVIOUS
    <2>1. \A i, k : ~Carries(i, k)
        BY DEF Init, Carries, Loose, Offered, InHands, InHand, Placed, Stamped
    <2>2. OffersOrdinary /\ HandsApart /\ OneHomePerId
        BY DEF Init, OffersOrdinary, HandsApart, OneHomePerId, Stamped
    <2>3. QED
        BY <2>1, <2>2 DEF OneKind, Minted
<1>2. /\ TypeOK /\ Singletons /\ OneKind /\ Minted /\ OffersOrdinary /\ HandsApart
      /\ OneHomePerId /\ [Next]_vars
      => OneKind' /\ Minted' /\ OffersOrdinary' /\ HandsApart' /\ OneHomePerId'
    BY NamesStep, OffersStep, ApartStep, HomeStep
<1>3. QED
    BY <1>1, <1>2, TypeCorrect, SingletonsHold, PTL DEF Spec

\* A request that waits in a queue with its stamp is in no other and is not also
\* handed out and unresolved: by the de-duplication of queue_action_request for
\* the requests a caller can obtain twice, and for those of a slot because no
\* other call ever has their id in hand.
THEOREM OneHomePerIdHolds == Spec => []OneHomePerId
BY HomesHold, PTL

\* A request of one eviction group asks again what another one of it asked.
LEMMA GroupSupersedes ==
    ASSUME NEW k \in Kinds, NEW l \in Kinds, EvictionGroup(k) = EvictionGroup(l),
           EvictionGroup(k) # NoGroup
    PROVE  Supersedes(k, l)
BY DEF EvictionGroup, NoGroup, Supersedes, Kinds

\* What a hand-out does to one unresolved request.
LEMMA HandOutAnswerable ==
    ASSUME TypeOK, OneKind, OneHomePerId, NEW d \in Drains, HandOut(d),
           NEW i \in DOMAIN pending
    PROVE  \/ i \in DOMAIN pending' /\ pending'[i].sequence = pending[i].sequence
           \/ \E j \in DOMAIN pending' \ {i} :
                 Supersedes(pending'[j].kind, pending[i].kind)
<1>1. PICK offered \in snapshot[d] : \E stamp \in Stamps(Unstamped(offered)) :
          HandOutBatch(d, Unstamped(offered), Ordered(Unstamped(offered), stamp))
    BY DEF HandOut
<1>2. PICK stamp \in Stamps(Unstamped(offered)) :
          HandOutBatch(d, Unstamped(offered), Ordered(Unstamped(offered), stamp))
    BY <1>1
<1> DEFINE entries == Ordered(Unstamped(offered), stamp)
<1>3. pending' = Registered(entries)
    BY <1>2 DEF HandOutBatch
<1>4. \A e \in entries : e.id \in Ids /\ e.kind \in Kinds /\ Carries(e.id, e.kind)
    BY EntryCarried DEF Carries, Placed
<1>5. \A e \in entries : e.id = i => e.sequence = pending[i].sequence
    BY EntryCarried DEF OneHomePerId, NewIds
<1>6. \A j \in DOMAIN pending' :
          \/ \E e \in entries :
                /\ e.id = j
                /\ pending'[j].kind = e.kind /\ pending'[j].sequence = e.sequence
          \/ /\ j \in DOMAIN pending /\ pending'[j] = pending[j]
             /\ \A e \in entries : e.id # j
    BY <1>2, HandOutPlaces
<1> HIDE DEF entries
<1>7. CASE i \in DOMAIN pending'
    BY <1>5, <1>6, <1>7
<1>8. CASE i \notin DOMAIN pending'
    <2>1. DOMAIN pending' = {j \in DOMAIN pending :
                               EvictionGroup(pending[j].kind) \notin Refreshed(entries)}
                            \cup {e.id : e \in entries}
        BY <1>3 DEF Registered
    <2>2. EvictionGroup(pending[i].kind) \in Refreshed(entries) /\ \A e \in entries : e.id # i
        BY <1>8, <2>1
    <2>3. PICK e \in entries : /\ EvictionGroup(e.kind) = EvictionGroup(pending[i].kind)
                               /\ EvictionGroup(e.kind) # NoGroup
        BY <2>2 DEF Refreshed
    <2>4. e.id \in DOMAIN pending' \ {i}
        BY <2>1, <2>2
    <2>5. pending'[e.id].kind = e.kind
        BY <1>4, <1>6, <2>4 DEF OneKind
    <2>6. pending[i].kind \in Kinds /\ e.kind \in Kinds
        BY <1>4 DEF TypeOK
    <2>7. Supersedes(e.kind, pending[i].kind)
        BY <2>3, <2>6, GroupSupersedes
    <2>8. QED
        BY <2>4, <2>5, <2>7
<1>9. QED
    BY <1>7, <1>8

\* A request that was handed out stays answerable and in its place until it is
\* answered or a request that asks the same again is handed out, whatever drains,
\* reports and queueing calls overlap.
THEOREM AnswerableUntilSupersededHolds == Spec => AnswerableUntilSuperseded
<1>1. TypeOK /\ OneKind /\ OneHomePerId /\ [Next]_vars =>
         [\A i \in DOMAIN pending :
             \/ i \in DOMAIN pending' /\ pending'[i].sequence = pending[i].sequence
             \/ \E m \in marking : m.id = i /\ m.applied /\ m \notin marking'
             \/ \E j \in DOMAIN pending' \ {i} :
                   Supersedes(pending'[j].kind, pending[i].kind)]_vars
    <2> SUFFICES ASSUME TypeOK, OneKind, OneHomePerId, [Next]_vars, NEW i \in DOMAIN pending
                 PROVE  \/ i \in DOMAIN pending' /\ pending'[i].sequence = pending[i].sequence
                        \/ \E m \in marking : m.id = i /\ m.applied /\ m \notin marking'
                        \/ \E j \in DOMAIN pending' \ {i} :
                              Supersedes(pending'[j].kind, pending[i].kind)
        OBVIOUS
    <2>1. CASE UNCHANGED pending
        BY <2>1
    <2>2. ASSUME NEW d \in Drains, HandOut(d)
          PROVE  \/ i \in DOMAIN pending' /\ pending'[i].sequence = pending[i].sequence
                 \/ \E j \in DOMAIN pending' \ {i} :
                       Supersedes(pending'[j].kind, pending[i].kind)
        BY <2>2, HandOutAnswerable
    <2>3. ASSUME NEW m \in marking, MarkResolved(m)
          PROVE  \/ i \in DOMAIN pending' /\ pending'[i].sequence = pending[i].sequence
                 \/ m.id = i /\ m.applied /\ m \notin marking'
        BY <2>3 DEF MarkResolved
    <2>4. QED
        BY <2>1, <2>2, <2>3
           DEF Next, vars, state, Obtain, Repeat, Queue, SyncCompletion, ShareScopeKey,
               QueueShared, SyncReaction, NeedArises, TakeSnapshot, TakeFails, MarkRead,
               MarkSent, MarkRejected
<1>2. QED
    BY <1>1, TypeCorrect, HomesHold, PTL DEF Spec, AnswerableUntilSuperseded

-----------------------------------------------------------------------------
(* The order in which requests leave: who holds a request, and its place.  *)

\* The requests callers made: queued with a stamp, or in a hand on the way there.
Own(i) ==
    \/ \E e \in Stamped : e.id = i
    \/ \E c \in Callers : \E n \in DOMAIN inHand[c] :
          inHand[c][n].id = i /\ inHand[c][n].kind # "PeerKeysQueryOutOfBand"

\* No source whose requests are stamped on the way out holds one of them.
SourcesApart ==
    \A i \in Ids : Own(i) => \A k \in Kinds : ~Loose(i, k) /\ ~Offered(i, k)

\* What is unresolved was handed out, and so was what is being reported.
HandedKnown ==
    /\ \A i \in DOMAIN pending : [id |-> i, kind |-> pending[i].kind] \in handed
    /\ \A m \in marking : m.id \in HandedIds

\* What callers make, they obtain.
LEMMA OwnStep ==
    ASSUME TypeOK, [Next]_vars, NEW i, Own(i)'
    PROVE  \/ Own(i)
           \/ nextId <= i /\ \E c \in Callers, program \in Programs : Obtain(c, program)
<1>1. ASSUME NEW c \in Callers, NEW program \in Programs, Obtain(c, program)
      PROVE  Own(i) \/ nextId <= i
    <2> DEFINE s == [n \in 1 .. Len(program.calls) |->
                       [id |-> nextId + n - 1, kind |-> program.calls[n]]]
    <2>1. inHand' = [inHand EXCEPT ![c] = s]
        BY <1>1 DEF Obtain
    <2>2. inHand'[c] = s /\ \A b \in Callers \ {c} : inHand'[b] = inHand[b]
        BY <2>1 DEF TypeOK
    <2>3. program.calls \in Seq(QueueableKinds \ {"PeerKeysQueryOutOfBand"})
        BY PumpAssumption
    <2>4. Len(program.calls) \in Nat /\ nextId \in Nat
        BY <2>3 DEF TypeOK
    <2>5. \A n \in DOMAIN s : nextId <= s[n].id
        BY <2>4
    <2>6. Stamped' = Stamped
        BY <1>1 DEF Obtain, state, Stamped
    <2> HIDE DEF s
    <2>7. QED
        BY <2>2, <2>5, <2>6 DEF Own
<1>2. ASSUME NEW c \in Callers, Repeat(c)
      PROVE  Own(i)
    <2>1. PICK e \in queued_action :
              inHand' = [inHand EXCEPT ![c] = <<[id |-> e.id, kind |-> e.kind]>>]
        BY <1>2 DEF Repeat
    <2> DEFINE s == <<[id |-> e.id, kind |-> e.kind]>>
    <2>2. inHand'[c] = s /\ \A b \in Callers \ {c} : inHand'[b] = inHand[b]
        BY <2>1 DEF TypeOK
    <2>3. \A n \in DOMAIN s : s[n].id = e.id
        OBVIOUS
    <2>4. Stamped' = Stamped /\ e \in Stamped
        BY <1>2 DEF Repeat, state, Stamped
    <2> HIDE DEF s
    <2>5. QED
        BY <2>2, <2>3, <2>4 DEF Own
<1>3. ASSUME NEW c \in Callers, Queue(c)
      PROVE  Own(i)
    <2> DEFINE r == inHand[c][1]
    <2>1. /\ r = Head(inHand[c]) /\ 1 \in DOMAIN inHand[c]
          /\ \A n \in DOMAIN Tail(inHand[c]) :
                n + 1 \in DOMAIN inHand[c] /\ Tail(inHand[c])[n] = inHand[c][n + 1]
        BY <1>3, HandTail DEF Queue
    <2>2. inHand'[c] = Tail(inHand[c]) /\ \A b \in Callers \ {c} : inHand'[b] = inHand[b]
        BY <1>3 DEF Queue, TypeOK
    <2>3. \A e \in Stamped' : e \in Stamped \/ (e.id = r.id /\ r.kind # "PeerKeysQueryOutOfBand")
        BY <1>3, <2>1 DEF Queue, QueueActionRequest, QueueSigningKeysRequest,
               QueueAccountKeyQuery, QueuePeerKeyQuery, Stamped, ActionKinds
    <2>4. CASE \E e \in Stamped' : e.id = i
        BY <2>1, <2>3, <2>4 DEF Own
    <2>5. CASE \E b \in Callers : \E n \in DOMAIN inHand'[b] :
                  inHand'[b][n].id = i /\ inHand'[b][n].kind # "PeerKeysQueryOutOfBand"
        <3>0. PICK b \in Callers : \E n \in DOMAIN inHand'[b] :
                  inHand'[b][n].id = i /\ inHand'[b][n].kind # "PeerKeysQueryOutOfBand"
            BY <2>5
        <3>1. PICK n \in DOMAIN inHand'[b] :
                  inHand'[b][n].id = i /\ inHand'[b][n].kind # "PeerKeysQueryOutOfBand"
            BY <3>0
        <3>2. CASE b = c
            <4>1. n + 1 \in DOMAIN inHand[c] /\ inHand'[b][n] = inHand[c][n + 1]
                BY <2>1, <2>2, <3>1, <3>2
            <4>2. QED
                BY <3>1, <4>1 DEF Own
        <3>3. CASE b # c
            BY <2>2, <3>1, <3>3 DEF Own
        <3>4. QED
            BY <3>2, <3>3
    <2>6. QED
        BY <2>4, <2>5 DEF Own
<1>4. ASSUME NEW c \in Callers, SyncCompletion(c)
      PROVE  Own(i)
    <2> DEFINE s == <<[id |-> nextId + 1, kind |-> "PeerKeysQueryOutOfBand"]>>
    <2>1. inHand' = [inHand EXCEPT ![c] = s]
        BY <1>4 DEF SyncCompletion
    <2>2. inHand'[c] = s /\ \A b \in Callers \ {c} : inHand'[b] = inHand[b]
        BY <2>1 DEF TypeOK
    <2>3. \A n \in DOMAIN s : s[n].kind = "PeerKeysQueryOutOfBand"
        OBVIOUS
    <2>4. Stamped' = Stamped
        BY <1>4 DEF SyncCompletion, state, Stamped
    <2> HIDE DEF s
    <2>5. QED
        BY <2>2, <2>3, <2>4 DEF Own
<1>5. ASSUME NEW d \in Drains, HandOut(d)
      PROVE  Own(i)
    BY <1>5 DEF HandOut, HandOutBatch, Stamped, Own
<1>6. CASE UNCHANGED <<queued_action, queued_signing_keys, queued_account_query, inHand>>
    BY <1>6 DEF Own, Stamped
<1>7. QED
    BY <1>1, <1>2, <1>3, <1>4, <1>5, <1>6
       DEF Next, vars, state, ShareScopeKey, QueueShared, SyncReaction, NeedArises,
           TakeSnapshot, TakeFails, MarkRead, MarkSent, MarkRejected, MarkResolved

\* What the other sources hold was there, is new, or is a query about a person that a
\* caller queues.
LEMMA SourceStep ==
    ASSUME TypeOK, [Next]_vars, NEW i \in Ids, NEW k \in Kinds,
           Loose(i, k)' \/ Offered(i, k)'
    PROVE  \/ Loose(i, k) \/ Offered(i, k)
           \/ nextId <= i
           \/ InHands(i, "PeerKeysQueryOutOfBand")
<1>0. nextId \in Nat /\ i \in Nat
    BY PumpAssumption DEF TypeOK, Ids
<1>1. ASSUME NEW c \in Callers, Queue(c)
      PROVE  Loose(i, k) \/ Offered(i, k) \/ InHands(i, "PeerKeysQueryOutOfBand")
    <2> DEFINE r == Head(inHand[c])
    <2>1. r \in InHand(c) /\ r \in [id : Ids, kind : QueueableKinds]
        BY <1>1, HandTail, HandTypes, EmptySeq DEF Queue, InHand
    <2>2. UNCHANGED <<queued_to_device, unshared, pending_claim, sharing, reactions, snapshot>>
        BY <1>1 DEF Queue, upstream
    <2>3. \A j \in queued_peer_queries' : j \in queued_peer_queries
              \/ (j = r.id /\ r.kind = "PeerKeysQueryOutOfBand")
        BY <1>1 DEF Queue, QueueActionRequest, QueueSigningKeysRequest,
               QueueAccountKeyQuery, QueuePeerKeyQuery
    <2>4. r = [id |-> r.id, kind |-> r.kind]
        BY <2>1
    <2>5. QED
        BY <2>1, <2>2, <2>3, <2>4 DEF Loose, Offered, InHands
<1>2. ASSUME \/ \E kind \in ReactionKinds : SyncReaction(kind)
             \/ \E c \in Callers : SyncCompletion(c)
      PROVE  Loose(i, k) \/ Offered(i, k) \/ i = nextId
    BY <1>2 DEF SyncReaction, SyncCompletion, state, upstream, Loose, Offered
<1>3. ASSUME NEW c \in Callers, NEW missing \in SUBSET {nextId},
             NEW fresh \in SUBSET {nextId + 1}, NEW sharedOk \in BOOLEAN,
             ShareScopeKey(c, missing, fresh, sharedOk)
      PROVE  Loose(i, k) \/ Offered(i, k) \/ i \in {nextId, nextId + 1}
    <2>1. /\ UNCHANGED <<queued_to_device, pending_claim, queued_peer_queries, reactions,
                         snapshot>>
          /\ unshared' = unshared \cup fresh
          /\ sharing' = [sharing EXCEPT ![c] =
                 {[claim |-> missing, toDevice |-> unshared \cup fresh, sharedOk |-> sharedOk]}]
        BY <1>3 DEF ShareScopeKey, state
    <2>2. sharing'[c] = {[claim |-> missing, toDevice |-> unshared \cup fresh,
                          sharedOk |-> sharedOk]}
          /\ \A b \in Callers \ {c} : sharing'[b] = sharing[b]
        BY <2>1 DEF TypeOK
    <2>3. Offered(i, k)' => Offered(i, k)
        BY <2>1 DEF Offered
    <2>4. Loose(i, k)' => Loose(i, k) \/ i \in missing \/ i \in fresh
        BY <2>1, <2>2 DEF Loose
    <2>5. QED
        BY <2>3, <2>4
<1>4. ASSUME NEW c \in Callers, QueueShared(c)
      PROVE  Loose(i, k) \/ Offered(i, k)
    <2>1. PICK w \in sharing[c] :
              /\ pending_claim' = IF w.claim = {} THEN pending_claim ELSE w.claim
              /\ queued_to_device' = IF w.sharedOk THEN queued_to_device \cup w.toDevice
                                     ELSE queued_to_device
        BY <1>4 DEF QueueShared
    <2>2. UNCHANGED <<unshared, queued_peer_queries, reactions, snapshot>>
          /\ \A b \in Callers : sharing'[b] \subseteq sharing[b]
        BY <1>4 DEF QueueShared, upstream, TypeOK
    <2>3. QED
        BY <2>1, <2>2 DEF Loose, Offered
<1>5. ASSUME NEW d \in Drains, NEW withBackup \in BOOLEAN, TakeSnapshot(d, withBackup)
      PROVE  Loose(i, k) \/ Offered(i, k) \/ nextId <= i
    <2> DEFINE fresh == {[id |-> nextId + Position(n), kind |-> n] : n \in needs}
               offered == {r \in reactions : withBackup \/ r.kind # "RoomKeyBackup"}
    <2>1. /\ snapshot' = [snapshot EXCEPT ![d] = {offered \cup fresh}]
          /\ UNCHANGED <<queued_to_device, unshared, pending_claim, queued_peer_queries,
                         sharing, reactions>>
        BY <1>5 DEF TakeSnapshot, state
    <2>2. snapshot'[d] = {offered \cup fresh}
          /\ \A b \in Drains \ {d} : snapshot'[b] = snapshot[b]
        BY <2>1 DEF TypeOK
    <2>3. \A r \in fresh : nextId <= r.id
        BY <1>0 DEF Position
    <2> HIDE DEF fresh
    <2>4. QED
        BY <2>1, <2>2, <2>3 DEF Loose, Offered
<1>6. ASSUME NEW d \in Drains, TakeFails(d) \/ HandOut(d)
      PROVE  Loose(i, k) \/ Offered(i, k)
    <2>1. /\ UNCHANGED <<unshared, sharing, reactions>>
          /\ queued_to_device' \subseteq queued_to_device
          /\ pending_claim' \subseteq pending_claim
          /\ queued_peer_queries' \subseteq queued_peer_queries
          /\ \A b \in Drains : snapshot'[b] \subseteq snapshot[b]
        BY <1>6 DEF TakeFails, HandOut, HandOutBatch, state, upstream, TypeOK
    <2>2. QED
        BY <2>1 DEF Loose, Offered
<1>7. ASSUME /\ UNCHANGED <<queued_to_device, pending_claim, queued_peer_queries, sharing,
                            snapshot>>
             /\ unshared' \subseteq unshared /\ reactions' \subseteq reactions
      PROVE  Loose(i, k) \/ Offered(i, k)
    BY <1>7 DEF Loose, Offered
<1>8. ASSUME \/ \E c \in Callers : \/ \E program \in Programs : Obtain(c, program)
                                   \/ Repeat(c)
             \/ \E kind \in Needs : NeedArises(kind)
             \/ \E call \in Reports : \E j \in DOMAIN pending : MarkRead(call, j)
             \/ \E m \in marking : \/ \E settled \in AnswerAboutAccount : MarkSent(m, settled)
                                   \/ MarkRejected(m) \/ MarkResolved(m)
             \/ UNCHANGED vars
      PROVE  Loose(i, k) \/ Offered(i, k)
    BY <1>7, <1>8 DEF vars, state, upstream, Obtain, Repeat, NeedArises, MarkRead, MarkSent,
           MarkRejected, MarkResolved
<1>9. QED
    BY <1>0, <1>1, <1>2, <1>3, <1>4, <1>5, <1>6, <1>8 DEF Next

\* An owned request is known, of a kind that callers stamp.
LEMMA OwnCarried ==
    ASSUME TypeOK, Minted, NEW i, Own(i)
    PROVE  /\ i \in Ids /\ i < nextId
           /\ \E k \in Kinds \ {"PeerKeysQueryOutOfBand"} : Carries(i, k)
<1>1. \A e \in Stamped : e.kind # "PeerKeysQueryOutOfBand"
    BY DEF TypeOK, Stamped, ActionKinds
<1>2. QED
    BY <1>1, StampedCarried, InHandCarried DEF Own, Minted

LEMMA SourcesStep ==
    ASSUME TypeOK, OneKind, Minted, SourcesApart, [Next]_vars
    PROVE  SourcesApart'
<1> SUFFICES ASSUME NEW i \in Ids, Own(i)', NEW k \in Kinds, Loose(i, k)' \/ Offered(i, k)'
             PROVE  FALSE
    BY DEF SourcesApart
<1>0. nextId \in Nat /\ i \in Nat
    BY PumpAssumption DEF TypeOK, Ids
<1>1. CASE Own(i)
    <2>1. ~InHands(i, "PeerKeysQueryOutOfBand")
        BY <1>1, OwnCarried DEF OneKind, Carries, Kinds
    <2>2. ~(nextId <= i)
        BY <1>0, <1>1, OwnCarried
    <2>3. QED
        BY <1>1, <2>1, <2>2, SourceStep DEF SourcesApart
<1>2. CASE ~Own(i)
    <2>1. nextId <= i /\ \E c \in Callers, program \in Programs : Obtain(c, program)
        BY <1>2, OwnStep
    <2>2. Loose(i, k) \/ Offered(i, k)
        BY <2>1 DEF Obtain, state, upstream, Loose, Offered
    <2>3. i < nextId
        BY <2>2 DEF Minted, Carries
    <2>4. QED
        BY <1>0, <2>1, <2>3
<1>3. QED
    BY <1>1, <1>2

LEMMA HandedStep ==
    ASSUME TypeOK, HandedKnown, [Next]_vars
    PROVE  HandedKnown' /\ handed \subseteq handed'
<1>1. ASSUME NEW d \in Drains, HandOut(d)
      PROVE  HandedKnown' /\ handed \subseteq handed'
    <2>1. PICK offered \in snapshot[d] : \E stamp \in Stamps(Unstamped(offered)) :
              HandOutBatch(d, Unstamped(offered), Ordered(Unstamped(offered), stamp))
        BY <1>1 DEF HandOut
    <2>2. PICK stamp \in Stamps(Unstamped(offered)) :
              HandOutBatch(d, Unstamped(offered), Ordered(Unstamped(offered), stamp))
        BY <2>1
    <2> DEFINE entries == Ordered(Unstamped(offered), stamp)
    <2>3. handed' = handed \cup {[id |-> e.id, kind |-> e.kind] : e \in entries}
          /\ UNCHANGED marking
        BY <2>2 DEF HandOutBatch
    <2>4. \A i \in DOMAIN pending' :
              \/ \E e \in entries : e.id = i /\ pending'[i].kind = e.kind
              \/ i \in DOMAIN pending /\ pending'[i] = pending[i]
        BY <2>2, HandOutPlaces
    <2> HIDE DEF entries
    <2>5. \A i \in DOMAIN pending' : [id |-> i, kind |-> pending'[i].kind] \in handed'
        BY <2>3, <2>4 DEF HandedKnown
    <2>6. \A m \in marking' : m.id \in HandedIds'
        BY <2>3 DEF HandedKnown, HandedIds
    <2>7. QED
        BY <2>3, <2>5, <2>6 DEF HandedKnown
<1>2. ASSUME NEW call \in Reports, NEW i \in DOMAIN pending, MarkRead(call, i)
      PROVE  HandedKnown' /\ handed \subseteq handed'
    <2>1. UNCHANGED <<pending, handed>>
          /\ \A m \in marking' : m \in marking \/ m.id = i
        BY <1>2 DEF MarkRead, state, out
    <2>2. i \in HandedIds
        <3> DEFINE h == [id |-> i, kind |-> pending[i].kind]
        <3>1. h \in handed
            BY DEF HandedKnown
        <3>2. h.id = i
            OBVIOUS
        <3>3. QED
            BY <3>1, <3>2 DEF HandedIds
    <2>3. QED
        BY <2>1, <2>2 DEF HandedKnown, HandedIds
<1>3. ASSUME NEW m \in marking, NEW settled \in AnswerAboutAccount, MarkSent(m, settled)
      PROVE  HandedKnown' /\ handed \subseteq handed'
    <2>1. UNCHANGED <<pending, handed>>
          /\ \A n \in marking' : n \in marking \/ n.id = m.id
        BY <1>3 DEF MarkSent, state, out, TypeOK
    <2>2. QED
        BY <2>1 DEF HandedKnown, HandedIds
<1>4. ASSUME NEW m \in marking, MarkRejected(m) \/ MarkResolved(m)
      PROVE  HandedKnown' /\ handed \subseteq handed'
    <2>1. /\ \A i \in DOMAIN pending' : i \in DOMAIN pending /\ pending'[i] = pending[i]
          /\ UNCHANGED handed /\ marking' \subseteq marking
        BY <1>4 DEF MarkRejected, MarkResolved, state, out
    <2>2. QED
        BY <2>1 DEF HandedKnown, HandedIds
<1>5. CASE UNCHANGED <<pending, handed, marking>>
    BY <1>5 DEF HandedKnown, HandedIds
<1>6. QED
    BY <1>1, <1>2, <1>3, <1>4, <1>5
       DEF Next, vars, state, out, Obtain, Repeat, Queue, SyncCompletion, ShareScopeKey,
           QueueShared, SyncReaction, NeedArises, TakeSnapshot, TakeFails

\* A place of a request: the stamp it waits under, or its sequence in `pending`.
At(i, s) ==
    \/ \E e \in Stamped : e.id = i /\ e.sequence = s
    \/ i \in DOMAIN pending /\ pending[i].sequence = s

Placeless(i) == \A s \in Nat : ~At(i, s)

LEMMA PlacelessUnplaced ==
    ASSUME TypeOK, NEW i
    PROVE  /\ Placeless(i) <=> i \notin DOMAIN pending /\ \A e \in Stamped : e.id # i
           /\ \A s : At(i, s) => s \in Nat
<1>1. /\ \A e \in Stamped : e.sequence \in Nat
      /\ \A j \in DOMAIN pending : pending[j].sequence \in Nat
    BY DEF TypeOK, Stamped
<1>2. QED
    BY <1>1 DEF Placeless, At

\* Places are below the counter.
LEMMA PlacesBelow ==
    ASSUME TypeOK, SequencesDistinct, NEW i, NEW s, At(i, s)
    PROVE  s \in Nat /\ s < next_sequence /\ next_sequence \in Nat
BY DEF TypeOK, Stamped, SequencesDistinct, At

\* A request that has a place keeps it; one that gets a place comes after all that had
\* one, unless it replaces the one in its slot.
LEMMA PlaceStep ==
    ASSUME TypeOK, OneKind, Minted, OffersOrdinary, HandsApart, OneHomePerId, SourcesApart,
           [Next]_vars, NEW i, NEW s, At(i, s)'
    PROVE  \/ At(i, s)
           \/ /\ Placeless(i) /\ next_sequence <= s
              /\ \E k \in Kinds : Loose(i, k) \/ Offered(i, k)
           \/ /\ Placeless(i)
              /\ \E c \in Callers :
                    /\ Queue(c) /\ inHand[c] # <<>> /\ i = inHand[c][1].id
                    /\ \/ next_sequence <= s
                       \/ inHand[c][1].kind \in SlotKinds
                          /\ \E e \in Stamped : e.kind = inHand[c][1].kind /\ e.sequence = s
<1>0. next_sequence \in Nat
    BY DEF TypeOK
<1>1. ASSUME NEW d \in Drains, HandOut(d)
      PROVE  \/ At(i, s)
             \/ /\ Placeless(i) /\ next_sequence <= s
                /\ \E k \in Kinds : Loose(i, k) \/ Offered(i, k)
    <2>1. PICK offered \in snapshot[d] : \E stamp \in Stamps(Unstamped(offered)) :
              HandOutBatch(d, Unstamped(offered), Ordered(Unstamped(offered), stamp))
        BY <1>1 DEF HandOut
    <2>2. PICK stamp \in Stamps(Unstamped(offered)) :
              HandOutBatch(d, Unstamped(offered), Ordered(Unstamped(offered), stamp))
        BY <2>1
    <2> DEFINE entries == Ordered(Unstamped(offered), stamp)
    <2>3. Stamped' = {}
        BY <2>2 DEF HandOutBatch, Stamped
    <2>4. \/ \E e \in entries : e.id = i /\ e.sequence = s
          \/ At(i, s)
        BY <2>2, <2>3, HandOutPlaces DEF At
    <2>5. \A j \in NewIds(Unstamped(offered)) : next_sequence <= stamp[j] /\ j \notin DOMAIN pending
        <3>1. offered \in SUBSET Request
            BY DEF TypeOK
        <3>2. QED
            BY <3>1, StampsType DEF NewIds
    <2>6. ASSUME NEW e \in entries, e.id = i, e.sequence = s, e \notin Stamped
          PROVE  \/ At(i, s)
                 \/ /\ Placeless(i) /\ next_sequence <= s
                    /\ \E k \in Kinds : Loose(i, k) \/ Offered(i, k)
        <3>1. /\ e.id \in Ids /\ e.kind \in Kinds
              /\ Loose(i, e.kind) \/ Offered(i, e.kind)
              /\ s = IF i \in NewIds(Unstamped(offered)) THEN stamp[i] ELSE pending[i].sequence
            BY <2>6, EntryCarried
        <3>2. ~Own(i)
            BY <2>6, <3>1 DEF SourcesApart
        <3>3. \A f \in Stamped : f.id # i
            BY <3>2 DEF Own
        <3>4. CASE i \in NewIds(Unstamped(offered))
            BY <2>5, <3>1, <3>3, <3>4, PlacelessUnplaced
        <3>5. CASE i \notin NewIds(Unstamped(offered))
            <4>1. i \in DOMAIN pending
                <5>1. \E u \in Unstamped(offered) : u.id = i
                    BY <2>6 DEF Ordered
                <5>2. QED
                    BY <3>5, <5>1 DEF NewIds
            <4>2. QED
                BY <3>1, <3>5, <4>1 DEF At
        <3>6. QED
            BY <3>4, <3>5
    <2>7. QED
        BY <2>4, <2>6 DEF At
<1>2. ASSUME NEW c \in Callers, Queue(c)
      PROVE  \/ At(i, s)
             \/ /\ Placeless(i) /\ inHand[c] # <<>> /\ i = inHand[c][1].id
                /\ \/ next_sequence <= s
                   \/ inHand[c][1].kind \in SlotKinds
                      /\ \E e \in Stamped : e.kind = inHand[c][1].kind /\ e.sequence = s
    <2> DEFINE r == inHand[c][1]
    <2>1. r = Head(inHand[c]) /\ 1 \in DOMAIN inHand[c] /\ inHand[c] # <<>> /\ UNCHANGED pending
        BY <1>2, HandTail DEF Queue
    <2>2. r.id \in Ids /\ r.kind \in Kinds /\ Carries(r.id, r.kind)
        BY <2>1, InHandCarried
    <2> HIDE DEF r
    <2>3. CASE QueueActionRequest(r)
        <3>1. \A e \in queued_signing_keys \cup queued_account_query : e.id # r.id
            BY <2>2, <2>3, StampedCarried
               DEF QueueActionRequest, ActionKinds, OneKind, TypeOK, Stamped
        <3>2. CASE UNCHANGED queued_action
            BY <2>1, <2>3, <3>2 DEF QueueActionRequest, At, Stamped
        <3>3. CASE queued_action' = queued_action \cup
                       {[id |-> r.id, kind |-> r.kind, sequence |-> next_sequence]}
                   /\ r.id \notin DOMAIN pending /\ \A e \in queued_action : e.id # r.id
            <4>1. UNCHANGED <<queued_signing_keys, queued_account_query>>
                BY <2>3 DEF QueueActionRequest
            <4>2. At(i, s) \/ (i = r.id /\ s = next_sequence)
                BY <2>1, <3>3, <4>1 DEF At, Stamped
            <4>3. \A e \in Stamped : e.id # r.id
                BY <3>1, <3>3 DEF Stamped
            <4>4. Placeless(r.id)
                BY <3>3, <4>3, PlacelessUnplaced
            <4>5. QED
                BY <1>0, <2>1, <4>2, <4>4 DEF r
        <3>4. QED
            BY <2>3, <3>2, <3>3 DEF QueueActionRequest
    <2>4. CASE QueueSigningKeysRequest(c, r) \/ QueueAccountKeyQuery(r)
        <3>1. r.kind \in SlotKinds
            BY <2>4 DEF QueueSigningKeysRequest, QueueAccountKeyQuery, SlotKinds
        <3>2. Placeless(r.id)
            BY <2>1, <3>1, PlacelessUnplaced DEF HandsApart, r
        <3>3. \A e \in Stamped' :
                 \/ e \in Stamped
                 \/ /\ e.id = r.id
                    /\ \/ e.sequence = next_sequence
                       \/ \E f \in Stamped : f.kind = r.kind /\ e.sequence = f.sequence
            <4>1. CASE QueueSigningKeysRequest(c, r)
                <5>1. UNCHANGED <<queued_action, queued_account_query>>
                      /\ r.kind = "SigningKeysUpload"
                      /\ \A f \in queued_signing_keys : f.kind = "SigningKeysUpload"
                    BY <4>1 DEF QueueSigningKeysRequest, TypeOK
                <5>2. \A e \in queued_signing_keys' :
                         /\ e.id = r.id
                         /\ \/ e.sequence = next_sequence
                            \/ \E f \in queued_signing_keys : e.sequence = f.sequence
                    BY <4>1 DEF QueueSigningKeysRequest
                <5>3. QED
                    BY <5>1, <5>2 DEF Stamped
            <4>2. CASE QueueAccountKeyQuery(r)
                <5>1. UNCHANGED <<queued_action, queued_signing_keys>>
                      /\ r.kind = "AccountKeysQueryOutOfBand"
                      /\ \A f \in queued_account_query : f.kind = "AccountKeysQueryOutOfBand"
                    BY <4>2 DEF QueueAccountKeyQuery, TypeOK
                <5>2. \A e \in queued_account_query' :
                         /\ e.id = r.id
                         /\ \/ e.sequence = next_sequence
                            \/ \E f \in queued_account_query : e.sequence = f.sequence
                    BY <4>2 DEF QueueAccountKeyQuery
                <5>3. QED
                    BY <5>1, <5>2 DEF Stamped
            <4>3. QED
                BY <2>4, <4>1, <4>2
        <3>4. \/ At(i, s)
              \/ /\ i = r.id
                 /\ \/ s = next_sequence
                    \/ \E f \in Stamped : f.kind = r.kind /\ s = f.sequence
            BY <2>1, <3>3 DEF At
        <3>5. QED
            BY <1>0, <2>1, <3>1, <3>2, <3>4 DEF r
    <2>5. CASE QueuePeerKeyQuery(r)
        BY <2>1, <2>5 DEF QueuePeerKeyQuery, At, Stamped
    <2>6. QED
        BY <1>2, <2>1, <2>3, <2>4, <2>5 DEF Queue
<1>3. ASSUME NEW m \in marking, MarkResolved(m)
      PROVE  At(i, s)
    BY <1>3 DEF MarkResolved, At, Stamped
<1>4. CASE UNCHANGED <<pending, queued_action, queued_signing_keys, queued_account_query>>
    BY <1>4 DEF At, Stamped
<1>5. QED
    BY <1>1, <1>2, <1>3, <1>4
       DEF Next, vars, state, Obtain, Repeat, SyncCompletion, ShareScopeKey, QueueShared,
           SyncReaction, NeedArises, TakeSnapshot, TakeFails, MarkRead, MarkSent, MarkRejected

-----------------------------------------------------------------------------
(* Reactions follow the actions they react to.                             *)

\* Of two requests that both have a place, the first has the earlier one.
Before(i, j) == \A s, t \in Nat : At(i, s) /\ At(j, t) => s < t

LEMMA BeforeInOrder ==
    ASSUME TypeOK, NEW i, NEW j, Before(i, j)
    PROVE  InOrder(i, j)
BY DEF TypeOK, Before, At, InOrder

\* What the steps below rely on.
Homes == /\ TypeOK /\ Singletons /\ SequencesDistinct
         /\ OneKind /\ Minted /\ OffersOrdinary /\ HandsApart /\ OneHomePerId
         /\ SourcesApart /\ HandedKnown

\* Two requests stay in order while the first gets no new place and the second does
\* not take a slot over.
LEMMA BeforeStep ==
    ASSUME Homes, [Next]_vars, NEW i, NEW j, Before(i, j),
           \A s : At(i, s)' => At(i, s),
           \A c \in Callers : inHand[c] # <<>> /\ inHand[c][1].id = j =>
                                  inHand[c][1].kind \notin SlotKinds
    PROVE  Before(i, j)'
<1> SUFFICES ASSUME NEW s \in Nat, NEW t \in Nat, At(i, s)', At(j, t)'
             PROVE  s < t
    BY DEF Before
<1>1. At(i, s) /\ s < next_sequence /\ next_sequence \in Nat
    BY PlacesBelow DEF Homes
<1>2. At(j, t) \/ next_sequence <= t
    BY PlaceStep DEF Homes
<1>3. QED
    BY <1>1, <1>2 DEF Before

\* A request that has a place gets no other.
LEMMA PlacedStays ==
    ASSUME Homes, [Next]_vars, NEW i,
           \/ i \in DOMAIN pending
           \/ \E e \in Stamped : e.id = i
    PROVE  \A s : At(i, s)' => At(i, s)
<1>1. ~Placeless(i)
    BY PlacelessUnplaced DEF Homes
<1>2. QED
    BY <1>1, PlaceStep DEF Homes

\* An action stays known until it is answered.
LEMMA KnownStays ==
    ASSUME Homes, [Next]_vars, NEW i \in KnownActions,
           \A m \in marking : MarkResolved(m) => m.id # i
    PROVE  i \in KnownActions'
<1>0. TypeOK /\ OneKind /\ FlowKinds \subseteq Kinds
    BY DEF Homes, FlowKinds, Kinds
<1>1. ASSUME NEW d \in Drains, HandOut(d)
      PROVE  i \in KnownActions'
    <2>1. PICK offered \in snapshot[d] : \E stamp \in Stamps(Unstamped(offered)) :
              HandOutBatch(d, Unstamped(offered), Ordered(Unstamped(offered), stamp))
        BY <1>1 DEF HandOut
    <2>2. PICK stamp \in Stamps(Unstamped(offered)) :
              HandOutBatch(d, Unstamped(offered), Ordered(Unstamped(offered), stamp))
        BY <2>1
    <2> DEFINE entries == Ordered(Unstamped(offered), stamp)
    <2>3. DOMAIN pending' = {j \in DOMAIN pending :
                               EvictionGroup(pending[j].kind) \notin Refreshed(entries)}
                            \cup {e.id : e \in entries}
        BY <2>2 DEF HandOutBatch, Registered
    <2>4. \A e \in entries : e.id \in Ids /\ e.kind \in Kinds /\ Carries(e.id, e.kind)
        BY <1>0, EntryCarried DEF Carries, Placed
    <2>5. Stamped \subseteq entries
        BY DEF Ordered
    <2>6. \A j \in DOMAIN pending' :
              \/ \E e \in entries : e.id = j /\ pending'[j].kind = e.kind
              \/ j \in DOMAIN pending /\ pending'[j] = pending[j]
        BY <1>0, <2>2, HandOutPlaces
    <2> HIDE DEF entries
    <2>7. PICK k \in FlowKinds : /\ Carries(i, k) /\ i \in Ids
                                 /\ \/ \E e \in Stamped : e.id = i
                                    \/ i \in DOMAIN pending /\ pending[i].kind = k
        BY <1>0, StampedCarried, PendingCarried DEF KnownActions, Stamped
    <2>8. NoGroup \notin Refreshed(entries) /\ EvictionGroup(k) = NoGroup
        BY <2>7 DEF Refreshed, FlowKinds, EvictionGroup, NoGroup
    <2>9. i \in DOMAIN pending'
        BY <2>3, <2>5, <2>7, <2>8
    <2>10. pending'[i].kind \in Kinds /\ Carries(i, pending'[i].kind)
        BY <1>0, <2>4, <2>6, <2>9, PendingCarried
    <2>11. pending'[i].kind = k
        BY <1>0, <2>7, <2>10 DEF OneKind
    <2>12. QED
        BY <2>7, <2>9, <2>11 DEF KnownActions
<1>2. ASSUME NEW c \in Callers, Queue(c)
      PROVE  i \in KnownActions'
    BY <1>2 DEF Queue, QueueActionRequest, QueueSigningKeysRequest, QueueAccountKeyQuery,
           QueuePeerKeyQuery, KnownActions
<1>3. ASSUME NEW m \in marking, MarkResolved(m)
      PROVE  i \in KnownActions'
    BY <1>3 DEF MarkResolved, KnownActions
<1>4. CASE UNCHANGED <<pending, queued_action>>
    BY <1>4 DEF KnownActions
<1>5. QED
    BY <1>1, <1>2, <1>3, <1>4
       DEF Next, vars, state, Obtain, Repeat, SyncCompletion, ShareScopeKey, QueueShared,
           SyncReaction, NeedArises, TakeSnapshot, TakeFails, MarkRead, MarkSent, MarkRejected

\* Which orders a step adds, and which it forgets.
LEMMA PrecedesStep ==
    ASSUME TypeOK, [Next]_vars, NEW p \in precedes'
    PROVE  \/ /\ p \in precedes
              /\ \A m \in marking : MarkResolved(m) => m.id # p.first
              /\ p.why = "cut" => p.second \notin HandedIds' \ HandedIds
           \/ /\ \/ \E kind \in ReactionKinds : SyncReaction(kind)
                 \/ \E c \in Callers : SyncCompletion(c)
              /\ p.why = "reaction" /\ p.first \in KnownActions /\ p.second = nextId
           \/ \E c \in Callers :
                 /\ SyncCompletion(c) /\ p.why = (IF NoDrain THEN "readback" ELSE "cut")
                 /\ p.first = nextId /\ p.second = nextId + 1
           \/ /\ p.why = "readback" /\ NoDrain'
              /\ \E q \in precedes : q.why = "cut" /\ q.first = p.first /\ q.second = p.second
              /\ \A m \in marking : MarkResolved(m) => m.id # p.first
              /\ p.second \notin HandedIds' \ HandedIds
           \/ \E c \in Callers : \E q \in InHand(c) :
                 /\ Queue(c) /\ p.why = "signature" /\ QueueSigningKeysRequest(c, Head(inHand[c]))
                 /\ q.kind = "SignatureUpload"
                 /\ p.first = Head(inHand[c]).id /\ p.second = q.id
<1>1. ASSUME NEW c \in Callers, Queue(c)
      PROVE  \/ p \in precedes
             \/ \E q \in InHand(c) :
                   /\ p.why = "signature" /\ QueueSigningKeysRequest(c, Head(inHand[c]))
                   /\ q.kind = "SignatureUpload"
                   /\ p.first = Head(inHand[c]).id /\ p.second = q.id
    <2> DEFINE r == Head(inHand[c])
    <2>1. CASE QueueActionRequest(r) \/ QueueAccountKeyQuery(r) \/ QueuePeerKeyQuery(r)
        BY <2>1 DEF QueueActionRequest, QueueAccountKeyQuery, QueuePeerKeyQuery
    <2>2. CASE QueueSigningKeysRequest(c, r)
        <3>1. precedes' = precedes \cup
                 {Pair(r.id, q.id, "signature") : q \in {q \in InHand(c) : q.kind = "SignatureUpload"}}
            BY <2>2 DEF QueueSigningKeysRequest
        <3> HIDE DEF r
        <3>2. p \in precedes \/ \E q \in InHand(c) :
                  q.kind = "SignatureUpload" /\ p = Pair(r.id, q.id, "signature")
            BY <3>1
        <3>3. QED
            BY <2>2, <3>2 DEF Pair, r
    <2>3. QED
        BY <1>1, <2>1, <2>2 DEF Queue
<1>2. ASSUME NEW kind \in ReactionKinds, SyncReaction(kind)
      PROVE  \/ p \in precedes
             \/ p.why = "reaction" /\ p.first \in KnownActions /\ p.second = nextId
    BY <1>2 DEF SyncReaction, Pair
<1>3. ASSUME NEW c \in Callers, SyncCompletion(c)
      PROVE  \/ p \in precedes
             \/ p.why = "reaction" /\ p.first \in KnownActions /\ p.second = nextId
             \/ /\ p.why = (IF NoDrain THEN "readback" ELSE "cut")
                /\ p.first = nextId /\ p.second = nextId + 1
    BY <1>3 DEF SyncCompletion, Pair
<1>4. ASSUME NEW m \in marking, MarkResolved(m)
      PROVE  p \in precedes /\ p.first # m.id /\ HandedIds' = HandedIds
    BY <1>4 DEF MarkResolved, out, HandedIds
<1>5. CASE \E m \in marking : MarkResolved(m)
    BY <1>4, <1>5
<1>6. CASE ~\E m \in marking : MarkResolved(m)
    <2>1. CASE UNCHANGED <<precedes, handed>>
        BY <1>6, <2>1 DEF HandedIds
    <2>2. CASE \/ \E c \in Callers : Queue(c) \/ SyncCompletion(c)
               \/ \E kind \in ReactionKinds : SyncReaction(kind)
        <3>1. HandedIds' = HandedIds
            BY <2>2 DEF Queue, SyncCompletion, SyncReaction, out, HandedIds
        <3>2. QED
            BY <1>1, <1>2, <1>3, <1>6, <2>2, <3>1
    <2>3. ASSUME NEW d \in Drains, NEW taken, precedes' = OrdersAfter(d, taken),
                 HandedIds' \ HandedIds \subseteq taken,
                 snapshot' = [snapshot EXCEPT ![d] = {}]
          PROVE  \/ p \in precedes /\ (p.why = "cut" => p.second \notin HandedIds' \ HandedIds)
                 \/ /\ p.why = "readback" /\ NoDrain'
                    /\ \E q \in precedes :
                          q.why = "cut" /\ q.first = p.first /\ q.second = p.second
                    /\ p.second \notin HandedIds' \ HandedIds
        <3>1. CASE p \in precedes /\ (p.why = "cut" => p.second \notin taken)
            BY <2>3, <3>1
        <3>2. CASE /\ \A e \in Drains \ {d} : snapshot[e] = {}
                   /\ \E q \in precedes :
                         /\ q.why = "cut" /\ q.second \notin taken
                         /\ p = [first |-> q.first, second |-> q.second, why |-> "readback"]
            <4>1. NoDrain'
                BY <2>3, <3>2 DEF NoDrain, TypeOK
            <4>2. QED
                BY <2>3, <3>2, <4>1
        <3>3. QED
            BY <2>3, <3>1, <3>2, OrdersAfterStep
    <2>4. ASSUME NEW d \in Drains, TakeFails(d) \/ HandOut(d)
          PROVE  \E taken : /\ precedes' = OrdersAfter(d, taken)
                            /\ HandedIds' \ HandedIds \subseteq taken
                            /\ snapshot' = [snapshot EXCEPT ![d] = {}]
        <3>1. CASE TakeFails(d)
            BY <3>1 DEF TakeFails, out, HandedIds
        <3>2. CASE HandOut(d)
            <4>1. PICK unstamped, entries : HandOutBatch(d, unstamped, entries)
                BY <3>2 DEF HandOut
            <4>2. HandedIds' \ HandedIds \subseteq {e.id : e \in entries}
                BY <4>1 DEF HandOutBatch, HandedIds
            <4>3. QED
                BY <4>1, <4>2 DEF HandOutBatch
        <3>3. QED
            BY <2>4, <3>1, <3>2
    <2>5. CASE \E d \in Drains : TakeFails(d) \/ HandOut(d)
        <3>1. PICK d \in Drains : TakeFails(d) \/ HandOut(d)
            BY <2>5
        <3>2. PICK taken : /\ precedes' = OrdersAfter(d, taken)
                           /\ HandedIds' \ HandedIds \subseteq taken
                           /\ snapshot' = [snapshot EXCEPT ![d] = {}]
            BY <2>4, <3>1
        <3>3. QED
            BY <1>6, <2>3, <3>2
    <2>6. QED
        BY <1>6, <2>1, <2>2, <2>5
           DEF Next, vars, out, Obtain, Repeat, ShareScopeKey, QueueShared, NeedArises,
               TakeSnapshot, MarkRead, MarkSent, MarkRejected
<1>7. QED
    BY <1>5, <1>6

\* A reaction is not a caller's own, and comes after the action, which waits or is
\* unresolved.
ReactionsInOrder ==
    \A p \in precedes : p.why = "reaction" =>
       /\ p.second < nextId /\ ~Own(p.second)
       /\ p.first \in KnownActions
       /\ Before(p.first, p.second)

LEMMA ReactionStep ==
    ASSUME Homes, ReactionsInOrder, [Next]_vars, nextId' \in Nat, nextId <= nextId'
    PROVE  ReactionsInOrder'
<1>0. TypeOK /\ nextId \in Nat /\ \A i \in Ids : i \in Nat
    <2>1. TypeOK
        BY DEF Homes
    <2>2. nextId \in Nat /\ \A i \in Ids : i \in Nat
        BY <2>1, PumpAssumption DEF TypeOK, Ids
    <2>3. QED
        BY <2>1, <2>2
<1> SUFFICES ASSUME NEW p \in precedes', p.why = "reaction"
             PROVE  /\ p.second < nextId' /\ ~Own(p.second)'
                    /\ p.first \in KnownActions'
                    /\ Before(p.first, p.second)'
    BY DEF ReactionsInOrder
<1>1. CASE p \in precedes /\ \A m \in marking : MarkResolved(m) => m.id # p.first
    <2>1. /\ p.second < nextId /\ ~Own(p.second) /\ p.first \in KnownActions
          /\ Before(p.first, p.second) /\ p.second \in Ids
        BY <1>0, <1>1 DEF ReactionsInOrder, TypeOK
    <2>2. p.second < nextId' /\ ~(nextId <= p.second)
        BY <1>0, <2>1
    <2>3. ~Own(p.second)'
        BY <1>0, <2>1, <2>2, OwnStep
    <2>4. p.first \in KnownActions'
        BY <1>1, <2>1, KnownStays
    <2>5. \A s : At(p.first, s)' => At(p.first, s)
        BY <2>1, PlacedStays DEF KnownActions, Stamped
    <2>6. \A c \in Callers : inHand[c] # <<>> /\ inHand[c][1].id = p.second =>
              inHand[c][1].kind \notin SlotKinds
        BY <1>0, <2>1, HandTail DEF Own, SlotKinds
    <2>7. QED
        BY <2>1, <2>2, <2>3, <2>4, <2>5, <2>6, BeforeStep
<1>2. CASE /\ \/ \E kind \in ReactionKinds : SyncReaction(kind)
              \/ \E c \in Callers : SyncCompletion(c)
           /\ p.first \in KnownActions /\ p.second = nextId
    <2>1. UNCHANGED <<pending, queued_action, queued_signing_keys, queued_account_query>>
          /\ nextId' \in {nextId + 1, nextId + 2}
        BY <1>2 DEF SyncReaction, SyncCompletion, state
    <2>2. p.first \in KnownActions'
        BY <1>2, <2>1 DEF KnownActions
    <2>3. \A j : Own(j) => j # nextId
        BY <1>0, OwnCarried DEF Homes
    <2>4. ~Own(p.second)'
        <3>1. ASSUME NEW c \in Callers, NEW program \in Programs, Obtain(c, program)
              PROVE  FALSE
            <4>1. p \in precedes
                BY <3>1 DEF Obtain
            <4>2. QED
                BY <1>0, <1>2, <4>1 DEF ReactionsInOrder
        <3>2. QED
            BY <1>0, <1>2, <2>3, <3>1, OwnStep
    <2>5. \A s \in Nat : ~At(p.second, s)'
        BY <1>0, <1>2, <2>1, StampedCarried, PendingCarried DEF Homes, At, Stamped, Minted
    <2>6. QED
        BY <1>0, <1>2, <2>1, <2>2, <2>4, <2>5 DEF Before
<1>3. QED
    BY <1>0, <1>1, <1>2, PrecedesStep

-----------------------------------------------------------------------------
(* Signatures follow the publication they refer to.                        *)

\* signing.rs queues a publication before it gives the machine lock back.
PublicationsLocked ==
    \A program \in Programs : \A n \in DOMAIN program.calls :
        program.calls[n] = "SigningKeysUpload" => program.locked

Publishes(c) == \E n \in DOMAIN inHand[c] : inHand[c][n].kind = "SigningKeysUpload"

\* A request that one caller has in hand, once, and that is nowhere else yet.
HeldOnce(c, n) ==
    /\ inHand[c][n].id \notin HandedIds
    /\ \A e \in Stamped : e.id # inHand[c][n].id
    /\ \A b \in Callers : \A l \in DOMAIN inHand[b] :
          inHand[b][l].id = inHand[c][n].id => b = c /\ l = n

\* A caller that publishes keeps the machine lock, with keys newer than those in the
\* slot and signatures nobody else has.
Publications ==
    \A c \in Callers : Publishes(c) =>
        /\ holder = {c}
        /\ \A n \in DOMAIN inHand[c] : inHand[c][n].kind = "SigningKeysUpload" =>
              /\ \A e \in queued_signing_keys : e.id < inHand[c][n].id
              /\ \A l \in DOMAIN inHand[c] : l < n => inHand[c][l].id < inHand[c][n].id
        /\ \A n \in DOMAIN inHand[c] : inHand[c][n].kind = "SignatureUpload" => HeldOnce(c, n)

LEMMA ObtainPublications ==
    ASSUME Homes, PublicationsLocked, Publications, NEW c \in Callers,
           NEW program \in Programs, Obtain(c, program)
    PROVE  Publications'
<1> DEFINE s == [n \in 1 .. Len(program.calls) |->
                   [id |-> nextId + n - 1, kind |-> program.calls[n]]]
<1>0. TypeOK
    BY DEF Homes
<1>1. nextId \in Nat /\ \A i \in Ids : i \in Nat
    BY <1>0, PumpAssumption DEF TypeOK, Ids
<1>2. program.calls \in Seq(QueueableKinds \ {"PeerKeysQueryOutOfBand"})
      /\ program.locked \in BOOLEAN
    BY PumpAssumption
<1>3. /\ inHand' = [inHand EXCEPT ![c] = s] /\ holder = {}
      /\ holder' = IF program.locked THEN {c} ELSE {}
      /\ UNCHANGED <<handed, queued_signing_keys>> /\ Stamped' = Stamped
    BY DEF Obtain, out, state, Stamped
<1>4. inHand'[c] = s /\ \A b \in Callers \ {c} : inHand'[b] = inHand[b]
    BY <1>0, <1>3 DEF TypeOK
<1>5. \A n \in DOMAIN s : n \in Nat /\ n >= 1 /\ n \in DOMAIN program.calls
                          /\ s[n].id = nextId + n - 1 /\ s[n].kind = program.calls[n]
    BY <1>2
<1> HIDE DEF s
<1>6. /\ \A i \in HandedIds : i \in Nat /\ i < nextId
      /\ \A e \in Stamped : e.id \in Nat /\ e.id < nextId
      /\ \A b \in Callers : \A l \in DOMAIN inHand[b] :
            inHand[b][l].id \in Nat /\ inHand[b][l].id < nextId
    BY <1>0, <1>1, StampedCarried, HandedCarried, InHandCarried DEF Homes, Minted, HandedIds
<1> SUFFICES ASSUME NEW b \in Callers, Publishes(b)'
             PROVE  /\ holder' = {b}
                    /\ \A n \in DOMAIN inHand'[b] : inHand'[b][n].kind = "SigningKeysUpload" =>
                          /\ \A e \in queued_signing_keys' : e.id < inHand'[b][n].id
                          /\ \A l \in DOMAIN inHand'[b] : l < n =>
                                inHand'[b][l].id < inHand'[b][n].id
                    /\ \A n \in DOMAIN inHand'[b] : inHand'[b][n].kind = "SignatureUpload" =>
                          HeldOnce(b, n)'
    BY DEF Publications
<1>7. b = c
    BY <1>3, <1>4 DEF Publications, Publishes
<1>8. holder' = {c}
    BY <1>2, <1>3, <1>4, <1>5, <1>7 DEF Publishes, PublicationsLocked
<1>9. ASSUME NEW n \in DOMAIN s
      PROVE  /\ \A e \in Stamped : e.id < s[n].id
             /\ \A l \in DOMAIN s : l < n => s[l].id < s[n].id
             /\ HeldOnce(c, n)'
    <2>1. /\ \A i \in Nat : i < nextId => i < s[n].id /\ i # s[n].id
          /\ \A l \in DOMAIN s : l < n => s[l].id < s[n].id
          /\ \A l \in DOMAIN s : s[l].id = s[n].id => l = n
        BY <1>1, <1>5
    <2>2. HandedIds' = HandedIds
        BY <1>3 DEF HandedIds
    <2>3. s[n].id \notin HandedIds /\ \A e \in Stamped : e.id < s[n].id /\ e.id # s[n].id
        BY <1>6, <2>1
    <2>4. \A a \in Callers : \A l \in DOMAIN inHand'[a] :
              inHand'[a][l].id = s[n].id => a = c /\ l = n
        BY <1>4, <1>6, <2>1
    <2>5. QED
        BY <1>3, <1>4, <2>1, <2>2, <2>3, <2>4 DEF HeldOnce
<1>10. QED
    BY <1>3, <1>4, <1>7, <1>8, <1>9 DEF Stamped

LEMMA QueuePublications ==
    ASSUME Homes, Publications, NEW c \in Callers, Queue(c)
    PROVE  Publications'
<1> DEFINE r == inHand[c][1]
<1>0. TypeOK
    BY DEF Homes
<1>1. /\ r = Head(inHand[c]) /\ 1 \in DOMAIN inHand[c]
      /\ \A n \in DOMAIN Tail(inHand[c]) :
            n \in Nat \ {0} /\ n + 1 \in DOMAIN inHand[c] /\ Tail(inHand[c])[n] = inHand[c][n + 1]
    BY <1>0, HandTail DEF Queue
<1>2. inHand'[c] = Tail(inHand[c]) /\ \A b \in Callers \ {c} : inHand'[b] = inHand[b]
    BY <1>0 DEF Queue, TypeOK
<1>3. \A e \in Stamped' : e \in Stamped \/ e.id = r.id
    BY <1>1 DEF Queue, QueueActionRequest, QueueSigningKeysRequest, QueueAccountKeyQuery,
           QueuePeerKeyQuery, Stamped
<1>4. \A e \in queued_signing_keys' :
          e \in queued_signing_keys \/ (e.id = r.id /\ r.kind = "SigningKeysUpload")
    BY <1>1 DEF Queue, QueueActionRequest, QueueSigningKeysRequest, QueueAccountKeyQuery,
           QueuePeerKeyQuery
<1>5. HandedIds' = HandedIds
      /\ holder' = IF Len(inHand[c]) = 1 THEN holder \ {c} ELSE holder
    BY DEF Queue, out, HandedIds
<1> DEFINE Place(b, n) == IF b = c THEN n + 1 ELSE n
<1>6. \A b \in Callers : \A n \in DOMAIN inHand'[b] :
          /\ Place(b, n) \in DOMAIN inHand[b] /\ inHand'[b][n] = inHand[b][Place(b, n)]
          /\ b = c => n \in Nat \ {0}
    BY <1>1, <1>2
<1>7. \A b \in Callers : \A n \in DOMAIN inHand'[b] : b # c \/ Place(b, n) # 1
    BY <1>6
<1> SUFFICES ASSUME NEW b \in Callers, Publishes(b)'
             PROVE  /\ holder' = {b}
                    /\ \A n \in DOMAIN inHand'[b] : inHand'[b][n].kind = "SigningKeysUpload" =>
                          /\ \A e \in queued_signing_keys' : e.id < inHand'[b][n].id
                          /\ \A l \in DOMAIN inHand'[b] : l < n =>
                                inHand'[b][l].id < inHand'[b][n].id
                    /\ \A n \in DOMAIN inHand'[b] : inHand'[b][n].kind = "SignatureUpload" =>
                          HeldOnce(b, n)'
    BY DEF Publications
<1>8. Publishes(b) /\ holder = {b}
    BY <1>6 DEF Publishes, Publications
<1>9. holder' = {b}
    <2>1. CASE b = c
        <3>1. PICK n \in DOMAIN Tail(inHand[c]) : TRUE
            BY <1>2, <2>1 DEF Publishes
        <3>2. inHand[c] \in Seq([id : Ids, kind : QueueableKinds])
            BY <1>0 DEF TypeOK
        <3> DEFINE R == [id : Ids, kind : QueueableKinds]
        <3> HIDE DEF R
        <3>3. inHand[c] \in Seq(R)
            BY <3>2 DEF R
        <3>4. n + 1 \in 1 .. Len(inHand[c]) /\ n \in Nat \ {0} /\ Len(inHand[c]) \in Nat
            BY <1>1, <3>1, <3>3, LenProperties
        <3>5. 1 < Len(inHand[c])
            BY <3>4
        <3>6. \A l \in Nat : 1 < l => (l = 1) = FALSE
            OBVIOUS
        <3>7. QED
            BY <1>5, <1>8, <3>4, <3>5, <3>6
    <2>2. CASE b # c
        BY <1>5, <1>8, <2>2
    <2>3. QED
        BY <2>1, <2>2
<1>10. ASSUME NEW n \in DOMAIN inHand'[b], inHand'[b][n].kind = "SigningKeysUpload"
       PROVE  /\ \A e \in queued_signing_keys' : e.id < inHand'[b][n].id
              /\ \A l \in DOMAIN inHand'[b] : l < n => inHand'[b][l].id < inHand'[b][n].id
    <2> DEFINE q == inHand[b][Place(b, n)]
    <2>1. /\ Place(b, n) \in DOMAIN inHand[b] /\ inHand'[b][n] = q
          /\ q.kind = "SigningKeysUpload"
        BY <1>6, <1>10
    <2>2. /\ \A e \in queued_signing_keys : e.id < q.id
          /\ \A l \in DOMAIN inHand[b] : l < Place(b, n) => inHand[b][l].id < q.id
        BY <1>8, <2>1 DEF Publications
    <2>3. r.kind = "SigningKeysUpload" => b = c
        BY <1>1, <1>8 DEF Publications, Publishes
    <2>4. r.kind = "SigningKeysUpload" => r.id < q.id
        BY <1>1, <1>6, <1>10, <2>2, <2>3
    <2>5. \A l \in DOMAIN inHand'[b] : l < n =>
              /\ Place(b, l) \in DOMAIN inHand[b] /\ inHand'[b][l] = inHand[b][Place(b, l)]
              /\ Place(b, l) < Place(b, n)
        BY <1>6, <1>10
    <2> HIDE DEF q, r, Place
    <2>6. QED
        BY <1>4, <2>1, <2>2, <2>4, <2>5
<1>11. ASSUME NEW n \in DOMAIN inHand'[b], inHand'[b][n].kind = "SignatureUpload"
       PROVE  HeldOnce(b, n)'
    <2> DEFINE q == inHand[b][Place(b, n)]
    <2>1. /\ Place(b, n) \in DOMAIN inHand[b] /\ inHand'[b][n] = q
          /\ HeldOnce(b, Place(b, n))
        BY <1>6, <1>8, <1>11 DEF Publications
    <2>2. r.id # q.id
        BY <1>1, <1>7, <1>11, <2>1 DEF HeldOnce
    <2>3. \A e \in Stamped' : e.id # q.id
        BY <1>3, <2>1, <2>2 DEF HeldOnce
    <2>4. q.id \notin HandedIds'
        BY <1>5, <2>1 DEF HeldOnce
    <2>5. ASSUME NEW a \in Callers, NEW l \in DOMAIN inHand'[a], inHand'[a][l].id = q.id
          PROVE  a = b /\ l = n
        <3>1. a = b /\ Place(a, l) = Place(b, n)
            BY <1>6, <2>1, <2>5 DEF HeldOnce
        <3>2. QED
            BY <1>6, <1>11, <2>5, <3>1
    <2> HIDE DEF q
    <2>6. QED
        BY <2>1, <2>3, <2>4, <2>5 DEF HeldOnce
<1>12. QED
    BY <1>9, <1>10, <1>11

LEMMA HandOutPublications ==
    ASSUME Homes, Publications, NEW d \in Drains, HandOut(d)
    PROVE  Publications'
<1>0. TypeOK
    BY DEF Homes
<1>1. PICK offered \in snapshot[d] : \E stamp \in Stamps(Unstamped(offered)) :
          HandOutBatch(d, Unstamped(offered), Ordered(Unstamped(offered), stamp))
    BY DEF HandOut
<1>2. PICK stamp \in Stamps(Unstamped(offered)) :
          HandOutBatch(d, Unstamped(offered), Ordered(Unstamped(offered), stamp))
    BY <1>1
<1> DEFINE entries == Ordered(Unstamped(offered), stamp)
<1>3. /\ UNCHANGED <<inHand, holder>> /\ queued_signing_keys' = {} /\ Stamped' = {}
      /\ handed' = handed \cup {[id |-> e.id, kind |-> e.kind] : e \in entries}
    BY <1>2 DEF HandOutBatch, Stamped
<1>4. \A e \in entries : e \in Stamped \/ (/\ e.id \in Ids /\ e.kind \in Kinds
                                           /\ Loose(e.id, e.kind) \/ Offered(e.id, e.kind))
    BY <1>0, EntryCarried
<1> HIDE DEF entries
<1>5. ASSUME NEW c \in Callers, NEW n \in DOMAIN inHand[c],
             inHand[c][n].kind = "SignatureUpload", HeldOnce(c, n)
      PROVE  HeldOnce(c, n)'
    <2>1. Own(inHand[c][n].id)
        BY <1>5 DEF Own
    <2>2. \A e \in entries : e.id # inHand[c][n].id
        BY <1>4, <1>5, <2>1 DEF Homes, SourcesApart, HeldOnce
    <2>3. inHand[c][n].id \notin HandedIds'
        BY <1>3, <1>5, <2>2 DEF HandedIds, HeldOnce
    <2>4. QED
        BY <1>3, <1>5, <2>3 DEF HeldOnce
<1>6. QED
    BY <1>3, <1>5 DEF Publications, Publishes

LEMMA PublicationsStep ==
    ASSUME Homes, PublicationsLocked, Publications, [Next]_vars
    PROVE  Publications'
<1>0. TypeOK
    BY DEF Homes
<1>1. ASSUME NEW c \in Callers, Repeat(c)
      PROVE  Publications'
    <2>1. PICK e \in queued_action :
              inHand' = [inHand EXCEPT ![c] = <<[id |-> e.id, kind |-> e.kind]>>]
        BY <1>1 DEF Repeat
    <2> DEFINE s == <<[id |-> e.id, kind |-> e.kind]>>
    <2>2. inHand'[c] = s /\ \A b \in Callers \ {c} : inHand'[b] = inHand[b]
        BY <1>0, <2>1 DEF TypeOK
    <2>3. /\ e \in Stamped /\ e.kind # "SigningKeysUpload"
          /\ \A n \in DOMAIN s : s[n].id = e.id /\ s[n].kind = e.kind
        <3>1. e \in Stamped
            BY DEF Stamped
        <3>2. e.kind \in ActionKinds
            BY <1>0 DEF TypeOK
        <3>3. e.kind # "SigningKeysUpload"
            BY <3>2 DEF ActionKinds
        <3>4. \A n \in DOMAIN s : s[n].id = e.id /\ s[n].kind = e.kind
            OBVIOUS
        <3>5. QED
            BY <3>1, <3>3, <3>4
    <2>4. UNCHANGED <<holder, queued_signing_keys>> /\ Stamped' = Stamped /\ HandedIds' = HandedIds
        BY <1>1 DEF Repeat, state, out, Stamped, HandedIds
    <2> HIDE DEF s
    <2> SUFFICES ASSUME NEW b \in Callers, Publishes(b)'
                 PROVE  /\ holder' = {b}
                        /\ \A n \in DOMAIN inHand'[b] : inHand'[b][n].kind = "SigningKeysUpload" =>
                              /\ \A f \in queued_signing_keys' : f.id < inHand'[b][n].id
                              /\ \A l \in DOMAIN inHand'[b] : l < n =>
                                    inHand'[b][l].id < inHand'[b][n].id
                        /\ \A n \in DOMAIN inHand'[b] : inHand'[b][n].kind = "SignatureUpload" =>
                              HeldOnce(b, n)'
        BY DEF Publications
    <2>5. b # c
        BY <2>2, <2>3 DEF Publishes
    <2>6. inHand'[b] = inHand[b] /\ Publishes(b)
        BY <2>2, <2>5 DEF Publishes
    <2>7. ASSUME NEW n \in DOMAIN inHand[b], HeldOnce(b, n)
          PROVE  HeldOnce(b, n)'
        BY <2>2, <2>3, <2>4, <2>6, <2>7 DEF HeldOnce
    <2>8. QED
        BY <2>4, <2>6, <2>7 DEF Publications
<1>2. ASSUME NEW c \in Callers, SyncCompletion(c)
      PROVE  Publications'
    <2> DEFINE s == <<[id |-> nextId + 1, kind |-> "PeerKeysQueryOutOfBand"]>>
    <2>1. inHand' = [inHand EXCEPT ![c] = s] /\ holder = {}
        BY <1>2 DEF SyncCompletion
    <2>2. inHand'[c] = s /\ \A b \in Callers \ {c} : inHand'[b] = inHand[b]
        BY <1>0, <2>1 DEF TypeOK
    <2>3. \A n \in DOMAIN s : s[n].kind # "SigningKeysUpload"
        OBVIOUS
    <2> HIDE DEF s
    <2>4. \A b \in Callers : ~Publishes(b)'
        BY <2>1, <2>2, <2>3 DEF Publications, Publishes
    <2>5. QED
        BY <2>4 DEF Publications
<1>3. CASE UNCHANGED <<inHand, holder, queued_action, queued_signing_keys,
                       queued_account_query, handed>>
    BY <1>3 DEF Publications, Publishes, HeldOnce, Stamped, HandedIds
<1>4. QED
    BY <1>1, <1>2, <1>3, ObtainPublications, QueuePublications, HandOutPublications
       DEF Next, vars, state, out, ShareScopeKey, QueueShared, SyncReaction, NeedArises,
           TakeSnapshot, TakeFails, MarkRead, MarkSent, MarkRejected, MarkResolved

\* A signature is its caller's, and nothing but a signature.
Signature(i) ==
    /\ i \in Ids /\ i < nextId
    /\ \/ InHands(i, "SignatureUpload") \/ \E e \in Stamped : e.id = i /\ e.kind = "SignatureUpload"
       \/ [id |-> i, kind |-> "SignatureUpload"] \in handed

\* Signing keys that wait in their slot for signatures nobody has seen, or that left.
PublishedBefore(q, i) ==
    \/ i \notin HandedIds /\ \E e \in queued_signing_keys : e.id = q
    \/ [id |-> q, kind |-> "SigningKeysUpload"] \in handed

\* A signature comes after its publication or the one that replaced it.
SignaturesInOrder ==
    \A p \in precedes : p.why = "signature" =>
       /\ Signature(p.second)
       /\ \E q \in Ids : /\ p.first <= q
                         /\ PublishedBefore(q, p.second)
                         /\ Before(q, p.second)

LEMMA SignatureStays ==
    ASSUME Homes, NEW i, Signature(i), [Next]_vars, nextId' \in Nat, nextId <= nextId'
    PROVE  Signature(i)'
<1>0. TypeOK /\ OneKind /\ HandedKnown /\ "SignatureUpload" \in Kinds
    BY DEF Homes, Kinds
<1>1. i \in Ids /\ i < nextId'
    <2>1. nextId \in Nat /\ i \in Nat
        BY <1>0, PumpAssumption DEF TypeOK, Ids, Signature
    <2>2. QED
        BY <2>1 DEF Signature
<1>2. handed \subseteq handed'
    BY <1>0, HandedStep
<1>3. CASE [id |-> i, kind |-> "SignatureUpload"] \in handed
    BY <1>1, <1>2, <1>3 DEF Signature
<1>4. CASE InHands(i, "SignatureUpload")
    <2>1. PICK c \in Callers : [id |-> i, kind |-> "SignatureUpload"] \in InHand(c)
        BY <1>4 DEF InHands
    <2>2. PICK n \in DOMAIN inHand[c] : inHand[c][n] = [id |-> i, kind |-> "SignatureUpload"]
        BY <2>1 DEF InHand
    <2>3. ASSUME NEW b \in Callers, Idle(b), NEW t, inHand' = [inHand EXCEPT ![b] = t]
          PROVE  Signature(i)'
        <3>1. b # c
            <4>1. inHand[b] = <<>>
                BY <2>3 DEF Idle
            <4>2. QED
                BY <2>2, <4>1
        <3>2. inHand'[c] = inHand[c]
            BY <1>0, <2>3, <3>1 DEF TypeOK
        <3>3. QED
            BY <1>1, <2>1, <3>2 DEF Signature, InHands, InHand
    <2>4. ASSUME NEW b \in Callers, Queue(b)
          PROVE  Signature(i)'
        <3> DEFINE r == inHand[b][1]
        <3>1. r = Head(inHand[b]) /\ 1 \in DOMAIN inHand[b]
            BY <1>0, <2>4, HandTail DEF Queue
        <3>2. inHand' = [inHand EXCEPT ![b] = Tail(@)] /\ inHand[b] # <<>>
            BY <2>4 DEF Queue
        <3>3. CASE b # c
            <4>1. inHand'[c] = inHand[c]
                BY <1>0, <3>2, <3>3 DEF TypeOK
            <4>2. QED
                BY <1>1, <2>1, <4>1 DEF Signature, InHands, InHand
        <3>4. CASE b = c /\ n # 1
            <4>1. inHand'[c] = Tail(inHand[c])
                BY <1>0, <3>2, <3>4 DEF TypeOK
            <4>2. inHand[c] \in Seq([id : Ids, kind : QueueableKinds])
                BY <1>0 DEF TypeOK
            <4> DEFINE R == [id : Ids, kind : QueueableKinds]
            <4> HIDE DEF R
            <4>3. inHand[c] \in Seq(R)
                BY <4>2 DEF R
            <4>4. n - 1 \in DOMAIN Tail(inHand[c]) /\ Tail(inHand[c])[n - 1] = inHand[c][n]
                <5>1. n \in 1 .. Len(inHand[c]) /\ Len(inHand[c]) \in Nat
                    BY <2>2, <4>3, LenProperties
                <5>2. /\ Tail(inHand[c]) \in Seq(R) /\ Len(Tail(inHand[c])) = Len(inHand[c]) - 1
                      /\ \A l \in 1 .. Len(Tail(inHand[c])) : Tail(inHand[c])[l] = inHand[c][l + 1]
                    BY <3>2, <3>4, <4>3, HeadTailProperties
                <5>3. DOMAIN Tail(inHand[c]) = 1 .. Len(Tail(inHand[c]))
                    BY <5>2, LenProperties
                <5>4. n - 1 \in 1 .. Len(Tail(inHand[c])) /\ (n - 1) + 1 = n
                    BY <3>4, <5>1, <5>2
                <5>5. QED
                    BY <5>2, <5>3, <5>4
            <4>5. [id |-> i, kind |-> "SignatureUpload"] \in InHand(c)'
                BY <2>2, <4>1, <4>4 DEF InHand
            <4>6. QED
                BY <1>1, <4>5 DEF Signature, InHands
        <3>5. CASE b = c /\ n = 1
            <4>1. r.id = i /\ r.kind = "SignatureUpload"
                BY <2>2, <3>5
            <4>2. QueueActionRequest(r)
                BY <2>4, <3>1, <4>1 DEF Queue, QueueSigningKeysRequest, QueueAccountKeyQuery,
                       QueuePeerKeyQuery
            <4> HIDE DEF r
            <4>3. CASE \E e \in queued_action : e.id = i
                <5>1. PICK e \in queued_action : e.id = i
                    BY <4>3
                <5>2. e.kind = "SignatureUpload"
                    BY <1>0, <1>4, <5>1, StampedCarried DEF OneKind, Carries, Stamped
                <5>3. e \in queued_action'
                    BY <4>2, <5>1 DEF QueueActionRequest
                <5>4. QED
                    BY <1>1, <5>1, <5>2, <5>3 DEF Signature, Stamped
            <4>4. CASE i \in DOMAIN pending
                <5>1. pending[i].kind = "SignatureUpload"
                    BY <1>0, <1>4, <4>4, PendingCarried DEF OneKind, Carries
                <5>2. QED
                    BY <1>0, <1>1, <1>2, <4>4, <5>1 DEF HandedKnown, Signature
            <4>5. CASE (~\E e \in queued_action : e.id = i) /\ i \notin DOMAIN pending
                <5> DEFINE e == [id |-> r.id, kind |-> r.kind, sequence |-> next_sequence]
                <5>1. e \in queued_action'
                    BY <4>1, <4>2, <4>5 DEF QueueActionRequest
                <5>2. e.id = i /\ e.kind = "SignatureUpload"
                    BY <4>1
                <5> HIDE DEF e
                <5>3. QED
                    BY <1>1, <5>1, <5>2 DEF Signature, Stamped
            <4>6. QED
                BY <4>3, <4>4, <4>5
        <3>6. QED
            BY <3>3, <3>4, <3>5
    <2>5. CASE UNCHANGED inHand
        BY <1>1, <2>1, <2>5 DEF Signature, InHands, InHand
    <2>6. QED
        BY <2>3, <2>4, <2>5
           DEF Next, vars, Obtain, Repeat, SyncCompletion, ShareScopeKey, QueueShared,
               SyncReaction, NeedArises, TakeSnapshot, TakeFails, HandOut, HandOutBatch,
               MarkRead, MarkSent, MarkRejected, MarkResolved
<1>5. CASE \E e \in Stamped : e.id = i /\ e.kind = "SignatureUpload"
    <2>1. PICK e \in Stamped : e.id = i /\ e.kind = "SignatureUpload"
        BY <1>5
    <2>2. e \in queued_action
        BY <1>0, <2>1 DEF Stamped, TypeOK
    <2>3. ASSUME NEW d \in Drains, HandOut(d)
          PROVE  [id |-> i, kind |-> "SignatureUpload"] \in handed'
        BY <2>1, <2>3 DEF HandOut, HandOutBatch, Ordered
    <2>4. e \in queued_action' \/ \E d \in Drains : HandOut(d)
        BY <2>2 DEF Next, vars, state, Obtain, Repeat, Queue, QueueActionRequest,
               QueueSigningKeysRequest, QueueAccountKeyQuery, QueuePeerKeyQuery,
               SyncCompletion, ShareScopeKey, QueueShared, SyncReaction, NeedArises,
               TakeSnapshot, TakeFails, MarkRead, MarkSent, MarkRejected, MarkResolved
    <2>5. QED
        BY <1>1, <2>1, <2>3, <2>4 DEF Signature, Stamped
<1>6. QED
    BY <1>3, <1>4, <1>5 DEF Signature

\* Signing keys in their slot, or handed out, get no new place.
LEMMA PublicationStays ==
    ASSUME Homes, [Next]_vars, NEW q \in Ids,
           \/ \E e \in queued_signing_keys : e.id = q
           \/ [id |-> q, kind |-> "SigningKeysUpload"] \in handed
    PROVE  \A s : At(q, s)' => At(q, s)
<1>0. TypeOK /\ OneKind /\ OffersOrdinary /\ HandsApart /\ "SigningKeysUpload" \in Kinds
    BY DEF Homes, Kinds
<1>1. CASE \E e \in queued_signing_keys : e.id = q
    BY <1>1, PlacedStays DEF Stamped
<1>2. CASE [id |-> q, kind |-> "SigningKeysUpload"] \in handed
    <2>1. Placed(q, "SigningKeysUpload")
        BY <1>2 DEF Placed
    <2>2. \A k \in Kinds : Carries(q, k) => k = "SigningKeysUpload"
        BY <1>0, <2>1 DEF OneKind, Carries
    <2>3. \A k \in Kinds : ~Loose(q, k) /\ ~Offered(q, k)
        <3>1. ~Loose(q, "SigningKeysUpload")
            BY DEF Loose
        <3>2. ~Offered(q, "SigningKeysUpload")
            BY <1>0 DEF Offered, OffersOrdinary, LibraryKinds, SlotKinds
        <3>3. QED
            BY <2>2, <3>1, <3>2 DEF Carries
    <2>4. q \in HandedIds
        <3> DEFINE h == [id |-> q, kind |-> "SigningKeysUpload"]
        <3>1. h \in handed /\ h.id = q
            BY <1>2
        <3>2. QED
            BY <3>1 DEF HandedIds
    <2>5. \A c \in Callers : \A n \in DOMAIN inHand[c] : inHand[c][n].id # q
        <3> SUFFICES ASSUME NEW c \in Callers, NEW n \in DOMAIN inHand[c], inHand[c][n].id = q
                     PROVE  FALSE
            OBVIOUS
        <3>1. inHand[c][n].kind = "SigningKeysUpload"
            BY <1>0, <2>2, InHandCarried
        <3>2. QED
            BY <1>0, <2>4, <3>1 DEF HandsApart, SlotKinds
    <2>6. \A c \in Callers : inHand[c] # <<>> => inHand[c][1].id # q
        BY <1>0, <2>5, HandTail
    <2>7. QED
        BY <1>0, <2>3, <2>6, PlaceStep DEF Homes
<1>3. QED
    BY <1>1, <1>2

\* A caller that queues a signature puts it in no slot.
LEMMA SignatureKind ==
    ASSUME Homes, NEW i, Signature(i)
    PROVE  \A c \in Callers : \A n \in DOMAIN inHand[c] :
               inHand[c][n].id = i => inHand[c][n].kind = "SignatureUpload"
<1>0. TypeOK /\ OneKind /\ "SignatureUpload" \in Kinds
    BY DEF Homes, Kinds
<1>1. i \in Ids /\ Carries(i, "SignatureUpload")
    BY DEF Signature, Carries, Placed
<1>2. QED
    BY <1>0, <1>1, InHandCarried DEF OneKind

\* The order of a signature after its publication outlives every step.
LEMMA SignatureOrderStays ==
    ASSUME Homes, Publications, [Next]_vars, NEW i, Signature(i),
           NEW q \in Ids, PublishedBefore(q, i), Before(q, i)
    PROVE  \E k \in Ids : q <= k /\ PublishedBefore(k, i)' /\ Before(k, i)'
<1>0. TypeOK /\ HandedKnown /\ q \in Nat
    <2>1. TypeOK /\ HandedKnown
        BY DEF Homes
    <2>2. QED
        BY <2>1, PumpAssumption DEF Ids
<1>1. \A c \in Callers : inHand[c] # <<>> /\ inHand[c][1].id = i =>
          inHand[c][1].kind \notin SlotKinds
    BY <1>0, HandTail, SignatureKind DEF SlotKinds
<1>2. Before(q, i)'
    BY <1>1, PublicationStays, BeforeStep DEF PublishedBefore
<1>3. CASE [id |-> q, kind |-> "SigningKeysUpload"] \in handed
    <2>1. PublishedBefore(q, i)'
        BY <1>0, <1>3, HandedStep DEF PublishedBefore
    <2>2. QED
        BY <1>0, <1>2, <2>1
<1>4. ASSUME NEW e \in queued_signing_keys, e.id = q, i \notin HandedIds
      PROVE  \E k \in Ids : q <= k /\ PublishedBefore(k, i)' /\ Before(k, i)'
    <2>1. ASSUME NEW d \in Drains, HandOut(d)
          PROVE  PublishedBefore(q, i)'
        <3>1. e \in Stamped /\ e.kind = "SigningKeysUpload"
            BY <1>0 DEF Stamped, TypeOK
        <3>2. [id |-> e.id, kind |-> e.kind] \in handed'
            BY <2>1, <3>1 DEF HandOut, HandOutBatch, Ordered
        <3>3. QED
            BY <1>4, <3>1, <3>2 DEF PublishedBefore
    <2>2. CASE UNCHANGED <<queued_signing_keys, handed>>
        <3>1. PublishedBefore(q, i)'
            BY <1>4, <2>2 DEF PublishedBefore, HandedIds
        <3>2. QED
            BY <1>0, <1>2, <3>1
    <2>3. ASSUME NEW c \in Callers, Queue(c), QueueSigningKeysRequest(c, Head(inHand[c]))
          PROVE  \E k \in Ids : q <= k /\ PublishedBefore(k, i)' /\ Before(k, i)'
        <3>1. PICK r : /\ r = inHand[c][1] /\ r = Head(inHand[c]) /\ 1 \in DOMAIN inHand[c]
                       /\ UNCHANGED <<pending, handed>>
            BY <1>0, <2>3, HandTail DEF Queue, out
        <3>2. r.kind = "SigningKeysUpload" /\ r.id \in Ids
            BY <1>0, <2>3, <3>1, InHandCarried DEF QueueSigningKeysRequest
        <3>3. q < r.id
            BY <1>4, <3>1, <3>2 DEF Publications, Publishes
        <3>4. /\ r.id \notin DOMAIN pending
              /\ \A f \in Stamped : f.id # r.id
            BY <3>1, <3>2 DEF Homes, HandsApart, SlotKinds
        <3>5. queued_signing_keys = {e}
            BY <1>4 DEF Homes, Singletons
        <3>6. /\ queued_signing_keys' = {[id |-> r.id, kind |-> r.kind, sequence |-> e.sequence]}
              /\ UNCHANGED <<queued_action, queued_account_query>>
            BY <2>3, <3>1, <3>5 DEF QueueSigningKeysRequest
        <3>7. \A s : At(r.id, s)' => s = e.sequence
            BY <3>1, <3>4, <3>6 DEF At, Stamped
        <3>8. e.sequence \in Nat /\ At(q, e.sequence)
            BY <1>0, <1>4 DEF At, Stamped, TypeOK
        <3>9. Before(r.id, i)'
            <4> SUFFICES ASSUME NEW s \in Nat, NEW t \in Nat, At(r.id, s)', At(i, t)'
                         PROVE  s < t
                BY DEF Before
            <4>1. At(q, s) /\ s < next_sequence /\ next_sequence \in Nat
                BY <3>7, <3>8, PlacesBelow DEF Homes
            <4>2. At(i, t) \/ next_sequence <= t
                BY <1>1, PlaceStep DEF Homes
            <4>3. QED
                BY <4>1, <4>2 DEF Before
        <3>10. PublishedBefore(r.id, i)'
            BY <1>4, <3>1, <3>6 DEF PublishedBefore, HandedIds
        <3>11. QED
            BY <1>0, <3>2, <3>3, <3>9, <3>10, PumpAssumption DEF Ids
    <2>4. \/ UNCHANGED <<queued_signing_keys, handed>>
          \/ \E d \in Drains : HandOut(d)
          \/ \E c \in Callers : Queue(c) /\ QueueSigningKeysRequest(c, Head(inHand[c]))
        BY DEF Next, vars, state, out, Obtain, Repeat, Queue, QueueActionRequest,
               QueueAccountKeyQuery, QueuePeerKeyQuery, SyncCompletion, ShareScopeKey,
               QueueShared, SyncReaction, NeedArises, TakeSnapshot, TakeFails, MarkRead,
               MarkSent, MarkRejected, MarkResolved
    <2>5. QED
        BY <1>0, <1>2, <2>1, <2>2, <2>3, <2>4
<1>5. QED
    BY <1>3, <1>4 DEF PublishedBefore

LEMMA SignatureStep ==
    ASSUME Homes, Publications, SignaturesInOrder, [Next]_vars,
           nextId' \in Nat, nextId <= nextId'
    PROVE  SignaturesInOrder'
<1>0. TypeOK /\ HandedKnown /\ Minted /\ \A i \in Ids : i \in Nat
    <2>1. TypeOK /\ HandedKnown /\ Minted
        BY DEF Homes
    <2>2. QED
        BY <2>1, PumpAssumption DEF Ids
<1> SUFFICES ASSUME NEW p \in precedes', p.why = "signature"
             PROVE  /\ Signature(p.second)'
                    /\ \E q \in Ids : /\ p.first <= q
                                      /\ PublishedBefore(q, p.second)'
                                      /\ Before(q, p.second)'
    BY DEF SignaturesInOrder
<1>1. CASE p \in precedes
    <2>1. PICK q \in Ids : /\ p.first <= q
                           /\ PublishedBefore(q, p.second)
                           /\ Before(q, p.second)
        BY <1>1 DEF SignaturesInOrder
    <2>2. Signature(p.second) /\ p.first \in Ids
        BY <1>0, <1>1 DEF SignaturesInOrder, TypeOK
    <2>3. PICK k \in Ids : /\ q <= k
                           /\ PublishedBefore(k, p.second)'
                           /\ Before(k, p.second)'
        BY <2>1, <2>2, SignatureOrderStays
    <2>4. p.first <= k
        BY <1>0, <2>1, <2>2, <2>3
    <2>5. QED
        BY <2>2, <2>3, <2>4, SignatureStays
<1>2. ASSUME NEW c \in Callers, NEW x \in InHand(c), Queue(c),
             QueueSigningKeysRequest(c, Head(inHand[c])), x.kind = "SignatureUpload",
             p.first = Head(inHand[c]).id, p.second = x.id
      PROVE  /\ Signature(p.second)'
             /\ \E q \in Ids : /\ p.first <= q
                               /\ PublishedBefore(q, p.second)'
                               /\ Before(q, p.second)'
    <2>1. PICK r : /\ r = inHand[c][1] /\ r = Head(inHand[c]) /\ 1 \in DOMAIN inHand[c]
                   /\ UNCHANGED <<pending, handed>>
        BY <1>0, <1>2, HandTail DEF Queue, out
    <2>2. r.kind = "SigningKeysUpload" /\ r.id \in Ids
        BY <1>0, <1>2, <2>1, InHandCarried DEF QueueSigningKeysRequest
    <2>3. PICK n \in DOMAIN inHand[c] : inHand[c][n] = x
        BY DEF InHand
    <2>4. HeldOnce(c, n) /\ n # 1
        BY <1>2, <2>1, <2>2, <2>3 DEF Publications, Publishes
    <2>5. x.id # r.id /\ x.id \notin HandedIds /\ \A e \in Stamped : e.id # x.id
        BY <2>1, <2>3, <2>4 DEF HeldOnce
    <2>6. x.id \notin DOMAIN pending
        <3> SUFFICES ASSUME x.id \in DOMAIN pending
                     PROVE  FALSE
            OBVIOUS
        <3> DEFINE h == [id |-> x.id, kind |-> pending[x.id].kind]
        <3>1. h \in handed /\ h.id = x.id
            BY <1>0 DEF HandedKnown
        <3> HIDE DEF h
        <3>2. QED
            BY <2>5, <3>1 DEF HandedIds
    <2>7. /\ \A e \in queued_signing_keys' : e.id = r.id
          /\ \E e \in queued_signing_keys' : e.id = r.id
          /\ UNCHANGED <<queued_action, queued_account_query>>
        <3>1. QueueSigningKeysRequest(c, r)
            BY <1>2, <2>1
        <3>2. UNCHANGED <<queued_action, queued_account_query>>
            BY <3>1 DEF QueueSigningKeysRequest
        <3>3. CASE queued_signing_keys = {}
            <4>1. queued_signing_keys' =
                      {[id |-> r.id, kind |-> r.kind, sequence |-> next_sequence]}
                BY <3>1, <3>3 DEF QueueSigningKeysRequest
            <4>2. QED
                BY <3>2, <4>1
        <3>4. CASE queued_signing_keys # {}
            <4>1. queued_signing_keys' =
                      {[id |-> r.id, kind |-> r.kind, sequence |-> e.sequence] :
                          e \in queued_signing_keys}
                BY <3>1, <3>4 DEF QueueSigningKeysRequest
            <4>2. PICK f \in queued_signing_keys : TRUE
                BY <3>4
            <4> DEFINE g == [id |-> r.id, kind |-> r.kind, sequence |-> f.sequence]
            <4>3. g \in queued_signing_keys' /\ g.id = r.id
                BY <4>1
            <4>4. \A e \in queued_signing_keys' : e.id = r.id
                BY <4>1
            <4> HIDE DEF g
            <4>5. QED
                BY <3>2, <4>3, <4>4
        <3>5. QED
            BY <3>3, <3>4
    <2>8. \A t : ~At(x.id, t)'
        BY <2>1, <2>5, <2>6, <2>7 DEF At, Stamped
    <2>9. PublishedBefore(r.id, x.id)'
        BY <2>1, <2>5, <2>7 DEF PublishedBefore, HandedIds
    <2>10. Signature(x.id)
        <3>1. x \in [id : Ids, kind : QueueableKinds] /\ x.kind \in Kinds
              /\ Carries(x.id, x.kind)
            BY <1>0, <2>3, HandKinds, InHandCarried
        <3>2. x = [id |-> x.id, kind |-> "SignatureUpload"]
            BY <1>2, <3>1
        <3>3. InHands(x.id, "SignatureUpload")
            BY <3>2 DEF InHands
        <3>4. QED
            BY <1>0, <3>1, <3>3 DEF Signature, Minted
    <2>11. Before(r.id, x.id)' /\ p.first <= r.id
        BY <1>0, <1>2, <2>1, <2>2, <2>8 DEF Before
    <2>12. QED
        BY <1>2, <2>2, <2>9, <2>10, <2>11, SignatureStays
<1>3. QED
    BY <1>0, <1>1, <1>2, PrecedesStep

-----------------------------------------------------------------------------
(* Read-backs follow the signature they read.                              *)

\* A signature that upstream still offers to every drain, and its read-back, have
\* not left.
Unsent(i, j) ==
    /\ i \notin HandedIds /\ j \notin HandedIds
    /\ [id |-> i, kind |-> "SignatureUpload"] \in reactions
    /\ \A d \in Drains : \A offered \in snapshot[d] :
          [id |-> i, kind |-> "SignatureUpload"] \in offered

\* Neither is a caller's own; the read-back is no offer of upstream's either, and
\* does not leave without the signature.
ReadbacksInOrder ==
    \A p \in precedes : p.why = "readback" =>
       /\ p.first < nextId /\ ~Own(p.first)
       /\ p.second < nextId /\ ~Own(p.second)
       /\ \A k \in Kinds : ~Offered(p.second, k)
       /\ \/ Unsent(p.first, p.second)
          \/ p.first \in KnownActions /\ Before(p.first, p.second)

\* The batch that carries the read-back carries the signature first.
LEMMA HandOutReadback ==
    ASSUME Homes, NEW d \in Drains, HandOut(d), NEW i \in Ids, NEW j \in Ids,
           ~Own(i), ~Own(j), \A k \in Kinds : ~Offered(j, k), Unsent(i, j)
    PROVE  i \in KnownActions' /\ Before(i, j)'
<1>0. TypeOK /\ OneKind /\ HandedKnown /\ "SignatureUpload" \in Kinds
    BY DEF Homes, Kinds
<1>1. PICK offered \in snapshot[d] : \E stamp \in Stamps(Unstamped(offered)) :
          HandOutBatch(d, Unstamped(offered), Ordered(Unstamped(offered), stamp))
    BY DEF HandOut
<1>2. PICK stamp \in Stamps(Unstamped(offered)) :
          HandOutBatch(d, Unstamped(offered), Ordered(Unstamped(offered), stamp))
    BY <1>1
<1> DEFINE entries == Ordered(Unstamped(offered), stamp)
           u == [id |-> i, kind |-> "SignatureUpload", rank |-> 3]
<1>3. u \in Unstamped(offered) /\ u.id = i /\ u.rank = 3
    <2>1. [id |-> i, kind |-> "SignatureUpload"] \in offered
        BY DEF Unsent
    <2>2. Rank("upstream", "SignatureUpload") = 3
        BY DEF Rank, QueuedKinds, OutgoingKinds
    <2> DEFINE r == [id |-> i, kind |-> "SignatureUpload"]
    <2>3. u = [id |-> r.id, kind |-> r.kind, rank |-> Rank("upstream", r.kind)]
        BY <2>2
    <2> HIDE DEF u
    <2>4. u \in Unstamped(offered)
        BY <2>1, <2>3 DEF Unstamped
    <2>5. QED
        BY <2>4 DEF u
<1> HIDE DEF u
<1>4. i \notin DOMAIN pending /\ j \notin DOMAIN pending
    <2> SUFFICES ASSUME NEW l \in DOMAIN pending
                 PROVE  l \in HandedIds
        BY DEF Unsent
    <2> DEFINE h == [id |-> l, kind |-> pending[l].kind]
    <2>1. h \in handed /\ h.id = l
        BY <1>0 DEF HandedKnown
    <2> HIDE DEF h
    <2>2. QED
        BY <2>1 DEF HandedIds
<1>5. i \in NewIds(Unstamped(offered)) /\ DOMAIN stamp = NewIds(Unstamped(offered))
    <2>1. offered \in SUBSET Request
        BY <1>0 DEF TypeOK
    <2>2. QED
        BY <1>0, <1>3, <1>4, <2>1, StampsType DEF NewIds
<1>6. \A e \in entries : e.id \in {i, j} =>
          /\ e \notin Stamped
          /\ \E v \in Unstamped(offered) :
                /\ v.id = e.id /\ v.kind = e.kind
                /\ e.id \in NewIds(Unstamped(offered)) /\ e.sequence = stamp[e.id]
    <2> SUFFICES ASSUME NEW e \in entries, e.id \in {i, j}
                 PROVE  /\ e \notin Stamped
                        /\ \E v \in Unstamped(offered) :
                              /\ v.id = e.id /\ v.kind = e.kind
                              /\ e.id \in NewIds(Unstamped(offered)) /\ e.sequence = stamp[e.id]
        OBVIOUS
    <2>1. e \notin Stamped
        BY DEF Own
    <2>2. PICK v \in Unstamped(offered) :
              e = [id |-> v.id, kind |-> v.kind,
                   sequence |-> IF v.id \in DOMAIN stamp THEN stamp[v.id]
                                ELSE pending[v.id].sequence]
        BY <2>1 DEF Ordered
    <2>3. v.id = e.id /\ v.kind = e.kind /\ e.id \notin DOMAIN pending
        BY <1>4, <2>2
    <2>4. e.id \in NewIds(Unstamped(offered))
        BY <2>3 DEF NewIds
    <2>5. QED
        BY <1>5, <2>1, <2>2, <2>3, <2>4
<1>7. \A v \in Unstamped(offered) : v.id = j => 3 < v.rank
    <2>1. \A r \in offered : r.id # j
        <3> SUFFICES ASSUME NEW r \in offered, r.id = j
                     PROVE  FALSE
            OBVIOUS
        <3>1. r \in Request
            BY <1>0 DEF TypeOK
        <3>2. r = [id |-> j, kind |-> r.kind] /\ r.kind \in Kinds
            BY <3>1 DEF Request
        <3>3. QED
            BY <3>2 DEF Offered
    <2>2. QED
        BY <2>1 DEF Unstamped, Rank
<1>8. \A l \in DOMAIN pending' : l \in {i, j} =>
          \E e \in entries : /\ e.id = l
                             /\ pending'[l].kind = e.kind /\ pending'[l].sequence = e.sequence
    BY <1>0, <1>2, <1>4, HandOutPlaces
<1>9. i \in DOMAIN pending'
    <2>1. \E e \in entries : e.id = i
        <3> DEFINE e == [id |-> u.id, kind |-> u.kind,
                         sequence |-> IF u.id \in DOMAIN stamp THEN stamp[u.id]
                                      ELSE pending[u.id].sequence]
        <3>1. e \in entries
            BY <1>3 DEF Ordered
        <3>2. e.id = i
            BY <1>3
        <3>3. QED
            BY <3>1, <3>2
    <2> HIDE DEF entries
    <2>2. DOMAIN pending' = {l \in DOMAIN pending :
                               EvictionGroup(pending[l].kind) \notin Refreshed(entries)}
                            \cup {e.id : e \in entries}
        BY <1>2 DEF HandOutBatch, Registered, entries
    <2>3. QED
        BY <2>1, <2>2
<1>10. i \in KnownActions'
    <2>1. PICK e \in entries : e.id = i /\ pending'[i].kind = e.kind
        BY <1>8, <1>9
    <2>2. e.kind \in Kinds /\ Carries(i, e.kind)
        BY <1>0, <2>1, EntryCarried DEF Carries, Placed
    <2>3. Carries(i, "SignatureUpload")
        BY DEF Unsent, Carries, Offered
    <2>4. e.kind = "SignatureUpload"
        BY <1>0, <2>2, <2>3 DEF OneKind
    <2>5. QED
        BY <1>9, <2>1, <2>4 DEF KnownActions, FlowKinds
<1>11. \A s : \A l \in {i, j} : At(l, s)' => l \in NewIds(Unstamped(offered)) /\ s = stamp[l]
    <2>1. Stamped' = {}
        BY <1>2 DEF HandOutBatch, Stamped
    <2> HIDE DEF entries
    <2>2. QED
        BY <1>6, <1>8, <2>1 DEF At
<1>12. j \in NewIds(Unstamped(offered)) => stamp[i] < stamp[j]
    <2> SUFFICES ASSUME j \in NewIds(Unstamped(offered))
                 PROVE  stamp[i] < stamp[j]
        OBVIOUS
    <2>1. PICK v \in Unstamped(offered) : v.id = j
        BY DEF NewIds
    <2>2. u.rank < v.rank
        BY <1>3, <1>7, <2>1
    <2>3. QED
        BY <1>3, <1>5, <2>1, <2>2 DEF Stamps
<1>13. QED
    BY <1>10, <1>11, <1>12 DEF Before

\* Upstream offers what it offered, or what it mints.
LEMMA OfferedStep ==
    ASSUME TypeOK, [Next]_vars, NEW i, NEW k, Offered(i, k)'
    PROVE  Offered(i, k) \/ nextId <= i
<1>0. nextId \in Nat
    BY DEF TypeOK
<1>1. ASSUME NEW d \in Drains, NEW withBackup \in BOOLEAN, TakeSnapshot(d, withBackup)
      PROVE  Offered(i, k) \/ nextId <= i
    <2> DEFINE fresh == {[id |-> nextId + Position(n), kind |-> n] : n \in needs}
               offered == {r \in reactions : withBackup \/ r.kind # "RoomKeyBackup"}
    <2>1. snapshot' = [snapshot EXCEPT ![d] = {offered \cup fresh}] /\ UNCHANGED reactions
        BY <1>1 DEF TakeSnapshot
    <2>2. \A r \in fresh : nextId <= r.id
        BY <1>0 DEF Position
    <2>3. offered \subseteq reactions
        OBVIOUS
    <2> HIDE DEF fresh, offered
    <2>4. \A b \in Drains : \A o \in snapshot'[b] :
              o \in snapshot[b] \/ o = offered \cup fresh
        BY <2>1 DEF TypeOK
    <2>5. ASSUME NEW r, r = [id |-> i, kind |-> k], r \in offered \cup fresh
          PROVE  Offered(i, k) \/ nextId <= i
        BY <2>2, <2>3, <2>5 DEF Offered
    <2>6. QED
        BY <2>1, <2>4, <2>5 DEF Offered
<1>2. CASE /\ UNCHANGED reactions
           /\ \A d \in Drains : snapshot'[d] \subseteq snapshot[d]
    BY <1>2 DEF Offered
<1>3. ASSUME NEW d \in Drains, TakeFails(d) \/ HandOut(d)
      PROVE  Offered(i, k) \/ nextId <= i
    <2>1. snapshot' = [snapshot EXCEPT ![d] = {}] /\ UNCHANGED reactions
        BY <1>3 DEF TakeFails, HandOut, HandOutBatch, upstream
    <2>2. \A b \in Drains : snapshot'[b] \subseteq snapshot[b]
        BY <2>1 DEF TypeOK
    <2>3. QED
        BY <1>2, <2>1, <2>2
<1>4. CASE /\ UNCHANGED snapshot
           /\ \A r \in reactions' : r \in reactions \/ r.id = nextId
    <2>1. ASSUME NEW r, r = [id |-> i, kind |-> k], r \in reactions'
          PROVE  r \in reactions \/ nextId <= i
        BY <1>0, <1>4, <2>1
    <2>2. QED
        BY <1>4, <2>1 DEF Offered
<1>5. CASE \/ \E kind \in ReactionKinds : SyncReaction(kind)
           \/ \E c \in Callers : SyncCompletion(c)
    BY <1>4, <1>5 DEF SyncReaction, SyncCompletion
<1>6. CASE \E m \in marking : \E settled \in AnswerAboutAccount : MarkSent(m, settled)
    BY <1>4, <1>6 DEF MarkSent
<1>7. CASE UNCHANGED <<reactions, snapshot>>
    BY <1>4, <1>7
<1>8. QED
    BY <1>1, <1>3, <1>5, <1>6, <1>7
       DEF Next, vars, upstream, Obtain, Repeat, Queue, ShareScopeKey, QueueShared,
           NeedArises, MarkRead, MarkRejected, MarkResolved

\* Upstream keeps a request that nobody was handed.
LEMMA ReactionStays ==
    ASSUME Homes, [Next]_vars, NEW r \in reactions, r.id \notin HandedIds
    PROVE  r \in reactions'
<1>1. ASSUME NEW m \in marking, NEW settled \in AnswerAboutAccount, MarkSent(m, settled)
      PROVE  r \in reactions'
    <2>1. m.id # r.id
        BY DEF Homes, HandedKnown
    <2>2. QED
        BY <1>1, <2>1 DEF MarkSent
<1>2. QED
    BY <1>1
       DEF Next, vars, upstream, Obtain, Repeat, Queue, SyncCompletion, ShareScopeKey,
           QueueShared, SyncReaction, NeedArises, TakeSnapshot, TakeFails, HandOut,
           HandOutBatch, MarkRead, MarkRejected, MarkResolved

\* The signature stays with upstream, and in what every drain read, until it is
\* handed out.
LEMMA UnsentStays ==
    ASSUME Homes, [Next]_vars, NEW i \in Ids, NEW j \in Ids, Unsent(i, j),
           ~\E d \in Drains : HandOut(d)
    PROVE  Unsent(i, j)'
<1> DEFINE r == [id |-> i, kind |-> "SignatureUpload"]
<1>0. TypeOK /\ HandedKnown
    BY DEF Homes
<1>1. r \in reactions /\ \A d \in Drains : \A offered \in snapshot[d] : r \in offered
    BY DEF Unsent
<1>2. r.id = i /\ r.kind # "RoomKeyBackup"
    OBVIOUS
<1> HIDE DEF r
<1>3. HandedIds' = HandedIds
    <2>1. UNCHANGED handed
        BY DEF Next, vars, state, out, Obtain, Repeat, Queue, SyncCompletion, ShareScopeKey,
               QueueShared, SyncReaction, NeedArises, TakeSnapshot, TakeFails, MarkRead,
               MarkSent, MarkRejected, MarkResolved
    <2>2. QED
        BY <2>1 DEF HandedIds
<1>4. r \in reactions'
    BY <1>1, <1>2, ReactionStays DEF Unsent
<1>5. \A d \in Drains : \A offered \in snapshot'[d] : r \in offered
    <2>1. ASSUME NEW d \in Drains, NEW withBackup \in BOOLEAN, TakeSnapshot(d, withBackup)
          PROVE  \A b \in Drains : \A offered \in snapshot'[b] : r \in offered
        <3>1. PICK fresh : snapshot' = [snapshot EXCEPT ![d] =
                  {{x \in reactions : withBackup \/ x.kind # "RoomKeyBackup"} \cup fresh}]
            BY <2>1 DEF TakeSnapshot
        <3>2. r \in {x \in reactions : withBackup \/ x.kind # "RoomKeyBackup"} \cup fresh
            BY <1>1, <1>2
        <3>3. QED
            BY <1>0, <1>1, <3>1, <3>2 DEF TypeOK
    <2>2. ASSUME NEW d \in Drains, TakeFails(d)
          PROVE  \A b \in Drains : \A offered \in snapshot'[b] : r \in offered
        BY <1>0, <1>1, <2>2 DEF TakeFails, TypeOK
    <2>3. CASE UNCHANGED snapshot
        BY <1>1, <2>3
    <2>4. QED
        BY <2>1, <2>2, <2>3
           DEF Next, vars, Obtain, Repeat, Queue, SyncCompletion, ShareScopeKey,
               QueueShared, SyncReaction, NeedArises, MarkRead, MarkSent, MarkRejected,
               MarkResolved
<1>6. QED
    BY <1>3, <1>4, <1>5 DEF Unsent, r

\* A read-back that a drain under way may take alone has not left; its signature is
\* with upstream still, or on its way.
Cut(i, j) ==
    /\ i < nextId /\ ~Own(i)
    /\ j < nextId /\ ~Own(j) /\ j \notin HandedIds
    /\ \A k \in Kinds : ~Offered(j, k)
    /\ \/ i \notin HandedIds /\ [id |-> i, kind |-> "SignatureUpload"] \in reactions
       \/ i \in KnownActions

CutsOpen == \A p \in precedes : p.why = "cut" => Cut(p.first, p.second)

\* A batch that takes the signature makes it a known action.
LEMMA HandOutSignature ==
    ASSUME Homes, NEW d \in Drains, HandOut(d), NEW i \in Ids, i \in HandedIds' \ HandedIds,
           [id |-> i, kind |-> "SignatureUpload"] \in reactions
    PROVE  i \in KnownActions'
<1>0. TypeOK /\ OneKind /\ "SignatureUpload" \in Kinds
    BY DEF Homes, Kinds
<1>1. PICK offered \in snapshot[d] : \E stamp \in Stamps(Unstamped(offered)) :
          HandOutBatch(d, Unstamped(offered), Ordered(Unstamped(offered), stamp))
    BY DEF HandOut
<1>2. PICK stamp \in Stamps(Unstamped(offered)) :
          HandOutBatch(d, Unstamped(offered), Ordered(Unstamped(offered), stamp))
    BY <1>1
<1> DEFINE entries == Ordered(Unstamped(offered), stamp)
<1>3. \A e \in entries : e.kind \in Kinds /\ Carries(e.id, e.kind)
    BY <1>0, EntryCarried DEF Carries, Placed
<1>4. \A l \in DOMAIN pending' :
          \/ \E e \in entries : e.id = l /\ pending'[l].kind = e.kind
          \/ l \in DOMAIN pending /\ \A e \in entries : e.id # l
    BY <1>0, <1>2, HandOutPlaces
<1> HIDE DEF entries
<1>5. \E e \in entries : e.id = i
    BY <1>2 DEF HandOutBatch, HandedIds, entries
<1>6. DOMAIN pending' = {l \in DOMAIN pending :
                           EvictionGroup(pending[l].kind) \notin Refreshed(entries)}
                        \cup {e.id : e \in entries}
    BY <1>2 DEF HandOutBatch, Registered, entries
<1>7. PICK e \in entries : e.id = i /\ pending'[i].kind = e.kind
    BY <1>4, <1>5, <1>6
<1>8. Carries(i, "SignatureUpload")
    BY DEF Carries, Offered
<1>9. e.kind = "SignatureUpload"
    BY <1>0, <1>3, <1>7, <1>8 DEF OneKind
<1>10. QED
    BY <1>5, <1>6, <1>7, <1>9 DEF KnownActions, FlowKinds

LEMMA CutStays ==
    ASSUME Homes, [Next]_vars, nextId' \in Nat, nextId <= nextId',
           NEW i \in Ids, NEW j \in Ids, Cut(i, j),
           \A m \in marking : MarkResolved(m) => m.id # i,
           j \notin HandedIds' \ HandedIds
    PROVE  Cut(i, j)'
<1>0. TypeOK /\ nextId \in Nat /\ i \in Nat /\ j \in Nat
    <2>1. TypeOK
        BY DEF Homes
    <2>2. nextId \in Nat /\ \A l \in Ids : l \in Nat
        BY <2>1, PumpAssumption DEF TypeOK, Ids
    <2>3. QED
        BY <2>1, <2>2
<1>1. /\ i < nextId' /\ ~(nextId <= i)
      /\ j < nextId' /\ ~(nextId <= j)
    BY <1>0 DEF Cut
<1>2. ~Own(i)' /\ ~Own(j)'
    BY <1>0, <1>1, OwnStep DEF Cut
<1>3. \A k \in Kinds : ~Offered(j, k)'
    BY <1>0, <1>1, OfferedStep DEF Cut
<1>4. j \notin HandedIds'
    BY DEF Cut
<1>5. CASE i \in KnownActions
    <2>1. i \in KnownActions'
        BY <1>5, KnownStays
    <2>2. QED
        BY <1>1, <1>2, <1>3, <1>4, <2>1 DEF Cut
<1>6. CASE i \notin HandedIds /\ [id |-> i, kind |-> "SignatureUpload"] \in reactions
    <2> DEFINE r == [id |-> i, kind |-> "SignatureUpload"]
    <2>1. r.id = i
        OBVIOUS
    <2>2. r \in reactions'
        BY <1>6, <2>1, ReactionStays
    <2>3. i \in HandedIds' \ HandedIds => \E d \in Drains : HandOut(d)
        <3>1. CASE UNCHANGED handed
            BY <3>1 DEF HandedIds
        <3>2. QED
            BY <3>1
               DEF Next, vars, out, Obtain, Repeat, Queue, SyncCompletion, ShareScopeKey,
                   QueueShared, SyncReaction, NeedArises, TakeSnapshot, TakeFails, MarkRead,
                   MarkSent, MarkRejected, MarkResolved
    <2>4. i \in HandedIds' => i \in KnownActions'
        BY <1>6, <2>3, HandOutSignature
    <2>5. QED
        BY <1>1, <1>2, <1>3, <1>4, <2>2, <2>4 DEF Cut
<1>7. QED
    BY <1>5, <1>6 DEF Cut

\* What a sync that completes a verification adds.
LEMMA CompletionOpens ==
    ASSUME Homes, NEW c \in Callers, SyncCompletion(c),
           NEW i, i = nextId, NEW j, j = nextId + 1
    PROVE  /\ Cut(i, j)'
           /\ NoDrain => Unsent(i, j)'
<1>0. TypeOK /\ Minted /\ nextId \in Nat /\ \A l \in Ids : l \in Nat
    <2>1. TypeOK /\ Minted
        BY DEF Homes
    <2>2. nextId \in Nat /\ \A l \in Ids : l \in Nat
        BY <2>1, PumpAssumption DEF TypeOK, Ids
    <2>3. QED
        BY <2>1, <2>2
<1>1. i = nextId /\ j = nextId + 1 /\ nextId' = nextId + 2 /\ i < nextId' /\ j < nextId'
      /\ i \in Ids /\ j \in Ids
    BY <1>0, PumpAssumption DEF SyncCompletion, Ids
<1>2. \A l : Own(l)' => Own(l)
    <2> DEFINE s == <<[id |-> nextId + 1, kind |-> "PeerKeysQueryOutOfBand"]>>
    <2>1. inHand' = [inHand EXCEPT ![c] = s] /\ Stamped' = Stamped
        BY DEF SyncCompletion, state, Stamped
    <2>2. inHand'[c] = s /\ \A b \in Callers \ {c} : inHand'[b] = inHand[b]
        BY <1>0, <2>1 DEF TypeOK
    <2>3. \A n \in DOMAIN s : s[n].kind = "PeerKeysQueryOutOfBand"
        OBVIOUS
    <2> HIDE DEF s
    <2>4. QED
        BY <2>1, <2>2, <2>3 DEF Own
<1>3. \A l : Own(l) => l < nextId
    BY <1>0, OwnCarried
<1>4. ~Own(i)' /\ ~Own(j)'
    BY <1>0, <1>1, <1>2, <1>3
<1>5. \A h \in handed : h.id < nextId
    BY <1>0, HandedCarried DEF Minted
<1>6. i \notin HandedIds' /\ j \notin HandedIds'
    BY <1>0, <1>1, <1>5 DEF SyncCompletion, out, HandedIds
<1>7. UNCHANGED snapshot
      /\ reactions' = reactions \cup {[id |-> i, kind |-> "SignatureUpload"]}
    BY <1>1 DEF SyncCompletion
<1>8. \A k \in Kinds : ~Offered(j, k)'
    <2> SUFFICES ASSUME NEW k \in Kinds, Offered(j, k)'
                 PROVE  FALSE
        OBVIOUS
    <2> DEFINE r == [id |-> j, kind |-> k]
               n == [id |-> i, kind |-> "SignatureUpload"]
    <2>1. r.id = j /\ n.id = i /\ i # j
        BY <1>0, <1>1
    <2>2. \/ r \in reactions'
          \/ \E d \in Drains : \E offered \in snapshot[d] : r \in offered
        BY <1>7 DEF Offered
    <2> HIDE DEF r, n
    <2>3. \/ r \in reactions
          \/ \E d \in Drains : \E offered \in snapshot[d] : r \in offered
        BY <1>7, <2>1, <2>2 DEF n
    <2>4. Carries(j, k)
        BY <2>3 DEF Carries, Offered, r
    <2>5. QED
        BY <1>0, <1>1, <2>4 DEF Minted
<1>9. QED
    BY <1>1, <1>4, <1>6, <1>7, <1>8 DEF Cut, Unsent, NoDrain

LEMMA CutStep ==
    ASSUME Homes, CutsOpen, [Next]_vars, nextId' \in Nat, nextId <= nextId'
    PROVE  CutsOpen'
<1>0. TypeOK
    BY DEF Homes
<1> SUFFICES ASSUME NEW p \in precedes', p.why = "cut"
             PROVE  Cut(p.first, p.second)'
    BY DEF CutsOpen
<1>1. CASE /\ p \in precedes
           /\ \A m \in marking : MarkResolved(m) => m.id # p.first
           /\ p.second \notin HandedIds' \ HandedIds
    <2>1. p.first \in Ids /\ p.second \in Ids /\ Cut(p.first, p.second)
        BY <1>0, <1>1 DEF TypeOK, CutsOpen
    <2>2. QED
        BY <1>1, <2>1, CutStays
<1>2. ASSUME NEW c \in Callers, SyncCompletion(c), p.first = nextId, p.second = nextId + 1
      PROVE  Cut(p.first, p.second)'
    BY <1>2, CompletionOpens
<1>3. QED
    BY <1>0, <1>1, <1>2, PrecedesStep

LEMMA ReadbackStep ==
    ASSUME Homes, HandedKnown', CutsOpen, ReadbacksInOrder, [Next]_vars,
           nextId' \in Nat, nextId <= nextId'
    PROVE  ReadbacksInOrder'
<1>0. TypeOK /\ Minted /\ nextId \in Nat /\ \A i \in Ids : i \in Nat
    <2>1. TypeOK /\ Minted
        BY DEF Homes
    <2>2. nextId \in Nat /\ \A i \in Ids : i \in Nat
        BY <2>1, PumpAssumption DEF TypeOK, Ids
    <2>3. QED
        BY <2>1, <2>2
<1> SUFFICES ASSUME NEW p \in precedes', p.why = "readback"
             PROVE  /\ p.first < nextId' /\ ~Own(p.first)'
                    /\ p.second < nextId' /\ ~Own(p.second)'
                    /\ \A k \in Kinds : ~Offered(p.second, k)'
                    /\ \/ Unsent(p.first, p.second)'
                       \/ p.first \in KnownActions' /\ Before(p.first, p.second)'
    BY DEF ReadbacksInOrder
<1>1. CASE p \in precedes /\ \A m \in marking : MarkResolved(m) => m.id # p.first
    <2>1. /\ p.first \in Ids /\ p.first < nextId /\ ~Own(p.first)
          /\ p.second \in Ids /\ p.second < nextId /\ ~Own(p.second)
          /\ \A k \in Kinds : ~Offered(p.second, k)
          /\ \/ Unsent(p.first, p.second)
             \/ p.first \in KnownActions /\ Before(p.first, p.second)
        BY <1>0, <1>1 DEF ReadbacksInOrder, TypeOK
    <2>2. \A i \in {p.first, p.second} : i < nextId' /\ ~(nextId <= i)
        BY <1>0, <2>1
    <2>3. ~Own(p.first)' /\ ~Own(p.second)'
        BY <1>0, <2>1, <2>2, OwnStep
    <2>4. \A k \in Kinds : ~Offered(p.second, k)'
        BY <1>0, <2>1, <2>2, OfferedStep
    <2>5. CASE Unsent(p.first, p.second)
        BY <2>1, <2>2, <2>3, <2>4, <2>5, UnsentStays, HandOutReadback
    <2>6. CASE p.first \in KnownActions /\ Before(p.first, p.second)
        <3>1. p.first \in KnownActions'
            BY <1>1, <2>6, KnownStays
        <3>2. \A s : At(p.first, s)' => At(p.first, s)
            BY <2>6, PlacedStays DEF KnownActions, Stamped
        <3>3. \A c \in Callers : inHand[c] # <<>> /\ inHand[c][1].id = p.second =>
                  inHand[c][1].kind \notin SlotKinds
            BY <1>0, <2>1, HandTail DEF Own, SlotKinds
        <3>4. QED
            BY <2>2, <2>3, <2>4, <2>6, <3>1, <3>2, <3>3, BeforeStep
    <2>7. QED
        BY <2>1, <2>5, <2>6
<1>2. ASSUME NEW c \in Callers, SyncCompletion(c), NoDrain,
             p.first = nextId, p.second = nextId + 1
      PROVE  /\ p.first < nextId' /\ ~Own(p.first)'
             /\ p.second < nextId' /\ ~Own(p.second)'
             /\ \A k \in Kinds : ~Offered(p.second, k)'
             /\ Unsent(p.first, p.second)'
    <2>1. Cut(p.first, p.second)' /\ Unsent(p.first, p.second)'
        BY <1>2, CompletionOpens
    <2>2. QED
        BY <2>1 DEF Cut
<1>3. CASE /\ NoDrain'
           /\ \E q \in precedes : q.why = "cut" /\ q.first = p.first /\ q.second = p.second
           /\ \A m \in marking : MarkResolved(m) => m.id # p.first
           /\ p.second \notin HandedIds' \ HandedIds
    <2>1. p.first \in Ids /\ p.second \in Ids /\ Cut(p.first, p.second)
        BY <1>0, <1>3 DEF TypeOK, CutsOpen
    <2>2. Cut(p.first, p.second)'
        BY <1>3, <2>1, CutStays
    <2>3. p.second \notin DOMAIN pending'
        <3> SUFFICES ASSUME p.second \in DOMAIN pending'
                     PROVE  p.second \in HandedIds'
            BY <2>2 DEF Cut
        <3> DEFINE h == [id |-> p.second, kind |-> pending'[p.second].kind]
        <3>1. h \in handed' /\ h.id = p.second
            BY DEF HandedKnown
        <3> HIDE DEF h
        <3>2. QED
            BY <3>1 DEF HandedIds
    <2>4. Before(p.first, p.second)'
        BY <2>2, <2>3 DEF Cut, Own, Before, At
    <2>5. p.first \notin HandedIds' /\ [id |-> p.first, kind |-> "SignatureUpload"] \in reactions'
          => Unsent(p.first, p.second)'
        BY <1>3, <2>2 DEF Unsent, NoDrain, Cut
    <2>6. QED
        BY <2>2, <2>4, <2>5 DEF Cut
<1>4. QED
    BY <1>0, <1>1, <1>2, <1>3, PrecedesStep

-----------------------------------------------------------------------------
(* What must reach the homeserver in an order leaves in that order.        *)

LEMMA CounterGrows ==
    ASSUME TypeOK, TypeOK', [Next]_vars
    PROVE  nextId' \in Nat /\ nextId <= nextId'
<1>1. nextId \in Nat /\ nextId' \in Nat
    BY DEF TypeOK
<1>2. ASSUME NEW c \in Callers, NEW program \in Programs, Obtain(c, program)
      PROVE  nextId <= nextId'
    BY <1>1, <1>2, ObtainMints
<1>3. CASE nextId' \in {nextId, nextId + 1, nextId + 2, nextId + 3}
    BY <1>1, <1>3
<1>4. QED
    BY <1>1, <1>2, <1>3
       DEF Next, vars, Repeat, Queue, QueueActionRequest, QueueSigningKeysRequest,
           QueueAccountKeyQuery, QueuePeerKeyQuery, SyncCompletion, ShareScopeKey,
           QueueShared, SyncReaction, NeedArises, TakeSnapshot, TakeFails, HandOut,
           HandOutBatch, MarkRead, MarkSent, MarkRejected, MarkResolved

LEMMA SourcesHold == Spec => [](SourcesApart /\ HandedKnown)
<1>1. Init => SourcesApart /\ HandedKnown
    BY DEF Init, SourcesApart, HandedKnown, Own, Stamped
<1>2. TypeOK /\ OneKind /\ Minted /\ SourcesApart /\ HandedKnown /\ [Next]_vars
      => SourcesApart' /\ HandedKnown'
    BY SourcesStep, HandedStep
<1>3. QED
    BY <1>1, <1>2, TypeCorrect, HomesHold, PTL DEF Spec

LEMMA EverythingHome == Spec => []Homes
<1>1. /\ TypeOK /\ Singletons /\ SequencesDistinct
      /\ OneKind /\ Minted /\ OffersOrdinary /\ HandsApart /\ OneHomePerId
      /\ SourcesApart /\ HandedKnown
      => Homes
    BY DEF Homes
<1>2. QED
    BY <1>1, TypeCorrect, SingletonsHold, SequencesStayDistinct, HomesHold, SourcesHold, PTL

\* A reaction never overtakes the action it reacts to in a batch, whatever callers,
\* drains, syncs and reports do at the same time.
LEMMA ReactionsKept == Spec => []ReactionsInOrder
<1>1. Init => ReactionsInOrder
    BY DEF Init, ReactionsInOrder
<1>2. Homes /\ Homes' /\ ReactionsInOrder /\ [Next]_vars => ReactionsInOrder'
    BY CounterGrows, ReactionStep DEF Homes
<1>3. QED
    BY <1>1, <1>2, EverythingHome, PTL DEF Spec

LEMMA SignaturesKept ==
    ASSUME PublicationsLocked
    PROVE  Spec => [](Publications /\ SignaturesInOrder)
<1>1. Init => Publications /\ SignaturesInOrder
    BY DEF Init, Publications, Publishes, SignaturesInOrder
<1>2. Homes /\ Homes' /\ Publications /\ SignaturesInOrder /\ [Next]_vars
      => Publications' /\ SignaturesInOrder'
    BY CounterGrows, PublicationsStep, SignatureStep DEF Homes
<1>3. QED
    BY <1>1, <1>2, EverythingHome, PTL DEF Spec

LEMMA ReadbacksKept == Spec => [](CutsOpen /\ ReadbacksInOrder)
<1>1. Init => CutsOpen /\ ReadbacksInOrder
    BY DEF Init, CutsOpen, ReadbacksInOrder
<1>2. Homes /\ Homes' /\ CutsOpen /\ ReadbacksInOrder /\ [Next]_vars
      => CutsOpen' /\ ReadbacksInOrder'
    BY CounterGrows, CutStep, ReadbackStep DEF Homes
<1>3. QED
    BY <1>1, <1>2, EverythingHome, PTL DEF Spec

\* With the one thing the code gives the pump, that a publication is queued under the
\* machine lock: reactions follow actions, signatures follow their publication, and
\* a read-back follows its signature unless a drain that was between its two sections
\* when the sync came takes it; for any number of callers, drains, batches, reports
\* and repeats, whatever overlaps.
THEOREM OrdersKeptHolds ==
    ASSUME PublicationsLocked
    PROVE  Spec => []OrdersKept
<1>1. Homes /\ ReactionsInOrder => ReactionFollowsAction
    <2> SUFFICES ASSUME Homes, ReactionsInOrder, NEW p \in precedes, p.why = "reaction"
                 PROVE  InOrder(p.first, p.second)
        BY DEF ReactionFollowsAction
    <2>1. QED
        BY BeforeInOrder DEF Homes, ReactionsInOrder
<1>2. Homes /\ SignaturesInOrder => SignaturesFollowPublication
    <2> SUFFICES ASSUME Homes, SignaturesInOrder, NEW p \in precedes, p.why = "signature",
                        p.second \in HandedIds
                 PROVE  PublicationLeftBefore(p.first, p.second)
        BY DEF SignaturesFollowPublication
    <2>1. PICK q \in Ids : /\ p.first <= q
                           /\ PublishedBefore(q, p.second)
                           /\ Before(q, p.second)
        BY DEF SignaturesInOrder
    <2> DEFINE h == [id |-> q, kind |-> "SigningKeysUpload"]
    <2>2. h \in handed /\ h.id = q /\ h.kind = "SigningKeysUpload"
        BY <2>1 DEF PublishedBefore
    <2> HIDE DEF h
    <2>3. q >= p.first /\ q \in HandedIds
        <3>1. p.first \in Nat /\ q \in Nat
            BY PumpAssumption DEF Homes, TypeOK, Ids
        <3>2. QED
            BY <2>1, <2>2, <3>1 DEF HandedIds
    <2>4. InOrder(q, p.second)
        BY <2>1, BeforeInOrder DEF Homes
    <2>5. QED
        BY <2>2, <2>3, <2>4 DEF PublicationLeftBefore, LeftBefore
<1>3. Homes /\ ReadbacksInOrder => ReadbackFollowsSignature
    <2> SUFFICES ASSUME Homes, ReadbacksInOrder, NEW p \in precedes, p.why = "readback",
                        p.second \in HandedIds
                 PROVE  LeftBefore(p.first, p.second)
        BY DEF ReadbackFollowsSignature
    <2>1. p.first \in KnownActions /\ Before(p.first, p.second) /\ ~Own(p.first)
        BY DEF ReadbacksInOrder, Unsent
    <2>2. p.first \in DOMAIN pending
        BY <2>1 DEF KnownActions, Own, Stamped
    <2> DEFINE h == [id |-> p.first, kind |-> pending[p.first].kind]
    <2>3. h \in handed /\ h.id = p.first
        BY <2>2 DEF Homes, HandedKnown
    <2> HIDE DEF h
    <2>4. QED
        BY <2>1, <2>3, BeforeInOrder DEF Homes, LeftBefore, HandedIds
<1>4. QED
    BY <1>1, <1>2, <1>3, EverythingHome, ReactionsKept, SignaturesKept, ReadbacksKept, PTL
       DEF OrdersKept

-----------------------------------------------------------------------------
(* What is answered or superseded is gone: no call repeats an action, no   *)
(* scope key is shared, and no report overlaps a drain.                    *)

\* Upstream has nothing of a session to hand back.
NothingShared ==
    /\ queued_to_device = {} /\ unshared = {} /\ pending_claim = {}
    /\ \A c \in Callers : sharing[c] = {}

LEMMA NothingSharedStep ==
    ASSUME ~Sharing, NothingShared, [Next]_vars
    PROVE  NothingShared'
<1>1. ASSUME NEW c \in Callers, NEW missing, NEW fresh, NEW sharedOk
      PROVE  ~ShareScopeKey(c, missing, fresh, sharedOk)
    BY DEF ShareScopeKey
<1>2. ASSUME NEW c \in Callers
      PROVE  ~QueueShared(c)
    BY <1>2 DEF NothingShared, QueueShared
<1>3. ASSUME NEW d \in Drains, HandOut(d)
      PROVE  NothingShared'
    BY <1>3 DEF HandOut, HandOutBatch, NothingShared, upstream
<1>4. ASSUME NEW m \in marking, NEW settled \in AnswerAboutAccount, MarkSent(m, settled)
      PROVE  NothingShared'
    BY <1>4 DEF MarkSent, NothingShared, state
<1>5. CASE UNCHANGED <<queued_to_device, unshared, pending_claim, sharing>>
    BY <1>5 DEF NothingShared
<1>6. QED
    BY <1>1, <1>2, <1>3, <1>4, <1>5
       DEF Next, vars, state, upstream, Obtain, Repeat, Queue, SyncCompletion, SyncReaction,
           NeedArises, TakeSnapshot, TakeFails, MarkRead, MarkRejected, MarkResolved

\* What a batch carries was queued with a stamp, offered by upstream to this drain, or
\* a query about a person.
LEMMA EntrySource ==
    ASSUME TypeOK, NothingShared, NEW d \in Drains, NEW offered \in snapshot[d],
           NEW stamp \in Stamps(Unstamped(offered)),
           NEW e \in Ordered(Unstamped(offered), stamp)
    PROVE  \/ e \in Stamped
           \/ [id |-> e.id, kind |-> e.kind] \in offered
           \/ e.id \in queued_peer_queries /\ e.kind = "PeerKeysQueryOutOfBand"
<1>1. offered \in SUBSET Request
    BY DEF TypeOK
<1>2. ASSUME NEW u \in Unstamped(offered)
      PROVE  \/ [id |-> u.id, kind |-> u.kind] \in offered
             \/ u.id \in queued_peer_queries /\ u.kind = "PeerKeysQueryOutOfBand"
    <2>1. ASSUME NEW r \in offered, u.id = r.id, u.kind = r.kind
          PROVE  [id |-> u.id, kind |-> u.kind] \in offered
        <3>1. r = [id |-> r.id, kind |-> r.kind]
            BY <1>1 DEF Request
        <3>2. QED
            BY <2>1, <3>1
    <2>2. QED
        BY <2>1 DEF Unstamped, NothingShared
<1>3. ASSUME NEW u \in Unstamped(offered), e.id = u.id, e.kind = u.kind
      PROVE  \/ [id |-> e.id, kind |-> e.kind] \in offered
             \/ e.id \in queued_peer_queries /\ e.kind = "PeerKeysQueryOutOfBand"
    BY <1>2, <1>3
<1>4. QED
    BY <1>3 DEF Ordered

\* What a drain hands out is in its batch.
LEMMA HandedOut ==
    ASSUME TypeOK, NEW d \in Drains, NEW offered \in snapshot[d],
           NEW stamp \in Stamps(Unstamped(offered)),
           HandOutBatch(d, Unstamped(offered), Ordered(Unstamped(offered), stamp)),
           NEW i \in HandedIds'
    PROVE  i \in HandedIds \/ \E e \in Ordered(Unstamped(offered), stamp) : e.id = i
BY DEF HandOutBatch, HandedIds

-----------------------------------------------------------------------------
(* The requests in hand.                                                   *)

\* A request a caller has in hand is there once, and not yet queued or handed out.
InHandOnce ==
    \A c \in Callers : \A n \in DOMAIN inHand[c] :
        HeldOnce(c, n) /\ inHand[c][n].id \notin queued_peer_queries

\* A caller that gets new requests.
LEMMA NewHeldOnce ==
    ASSUME TypeOK, Minted, InHandOnce, NEW c \in Callers, NEW s,
           UNCHANGED <<queued_action, queued_signing_keys, queued_account_query,
                       queued_peer_queries, handed>>,
           inHand' = [inHand EXCEPT ![c] = s],
           \A n \in DOMAIN s :
              /\ s[n].id \in Ids /\ nextId <= s[n].id
              /\ \A l \in DOMAIN s : s[l].id = s[n].id => l = n
    PROVE  InHandOnce'
<1>1. inHand'[c] = s /\ \A b \in Callers \ {c} : inHand'[b] = inHand[b]
    BY DEF TypeOK
<1>2. Stamped' = Stamped /\ HandedIds' = HandedIds /\ UNCHANGED queued_peer_queries
    BY DEF Stamped, HandedIds
<1>3. nextId \in Nat /\ Ids \subseteq Nat
    BY PumpAssumption DEF TypeOK, Ids
\* Whatever the pump knows is older than what the caller got.
<1> DEFINE Old(i) == i \in Ids /\ i < nextId
<1>4. /\ \A e \in Stamped : Old(e.id)
      /\ \A i \in HandedIds : Old(i)
      /\ \A b \in Callers : \A l \in DOMAIN inHand[b] : Old(inHand[b][l].id)
    BY StampedCarried, HandedCarried, InHandCarried DEF Minted, HandedIds
<1>5. \A i \in queued_peer_queries : Old(i)
    <2>1. \A i \in queued_peer_queries : Carries(i, "PeerKeysQueryOutOfBand") /\ i \in Ids
        BY DEF TypeOK, Carries, Loose
    <2>2. QED
        BY <2>1 DEF Minted, Kinds
<1>6. \A n \in DOMAIN s : ~Old(s[n].id)
    <2> SUFFICES ASSUME NEW n \in DOMAIN s
                 PROVE  ~Old(s[n].id)
        OBVIOUS
    <2> DEFINE j == s[n].id
    <2>1. j \in Ids /\ nextId <= j
        OBVIOUS
    <2> HIDE DEF j
    <2>2. ~Old(j)
        BY <1>3, <2>1
    <2>3. QED
        BY <2>2 DEF j
<1> HIDE DEF Old
<1>7. ASSUME NEW n \in DOMAIN s
      PROVE  /\ s[n].id \notin HandedIds \cup queued_peer_queries
             /\ \A e \in Stamped : e.id # s[n].id
             /\ \A b \in Callers : \A l \in DOMAIN inHand'[b] :
                   inHand'[b][l].id = s[n].id => b = c /\ l = n
    BY <1>1, <1>4, <1>5, <1>6
<1>8. ASSUME NEW b \in Callers, b # c, NEW n \in DOMAIN inHand[b]
      PROVE  \A l \in DOMAIN s : s[l].id # inHand[b][n].id
    BY <1>4, <1>6
<1>9. QED
    BY <1>1, <1>2, <1>7, <1>8 DEF InHandOnce, HeldOnce

LEMMA CallerHeldOnce ==
    ASSUME TypeOK, Minted, InHandOnce, NEW c \in Callers,
           (\E program \in Programs : Obtain(c, program)) \/ SyncCompletion(c)
    PROVE  InHandOnce'
<1>0. UNCHANGED <<queued_action, queued_signing_keys, queued_account_query,
                  queued_peer_queries, handed>>
      /\ nextId \in Nat
    BY DEF Obtain, SyncCompletion, state, out, TypeOK
<1>1. ASSUME NEW program \in Programs, Obtain(c, program)
      PROVE  InHandOnce'
    <2> DEFINE s == [n \in 1 .. Len(program.calls) |->
                       [id |-> nextId + n - 1, kind |-> program.calls[n]]]
    <2>1. inHand' = [inHand EXCEPT ![c] = s]
        BY <1>1 DEF Obtain
    <2>2. program.calls \in Seq(QueueableKinds \ {"PeerKeysQueryOutOfBand"})
        BY PumpAssumption
    <2>3. Len(program.calls) \in Nat /\ nextId + Len(program.calls) <= MaxIds
        BY <1>1, <2>2 DEF Obtain
    <2>4. \A n \in DOMAIN s : n \in Nat /\ n >= 1 /\ n <= Len(program.calls)
                              /\ s[n].id = nextId + n - 1
        BY <2>3
    <2> HIDE DEF s
    <2>5. ASSUME NEW n \in DOMAIN s
          PROVE  /\ s[n].id \in Ids /\ nextId <= s[n].id
                 /\ \A l \in DOMAIN s : s[l].id = s[n].id => l = n
        <3>1. /\ n \in Nat /\ n >= 1 /\ n <= Len(program.calls) /\ s[n].id = nextId + n - 1
              /\ \A l \in DOMAIN s : l \in Nat /\ s[l].id = nextId + l - 1
            BY <2>4
        <3>2. nextId + n - 1 \in Ids /\ nextId <= nextId + n - 1
            BY <1>0, <2>3, <3>1, PumpAssumption DEF Ids
        <3>3. \A l \in Nat : nextId + l - 1 = nextId + n - 1 => l = n
            BY <1>0, <3>1
        <3>4. QED
            BY <3>1, <3>2, <3>3
    <2>6. QED
        BY <1>0, <2>1, <2>5, NewHeldOnce
<1>2. CASE SyncCompletion(c)
    <2> DEFINE s == <<[id |-> nextId + 1, kind |-> "PeerKeysQueryOutOfBand"]>>
    <2>1. inHand' = [inHand EXCEPT ![c] = s] /\ nextId + 1 < MaxIds
        BY <1>2 DEF SyncCompletion
    <2>2. nextId + 1 \in Ids /\ nextId <= nextId + 1
        BY <1>0, <2>1, PumpAssumption DEF Ids
    <2>3. DOMAIN s = {1} /\ s[1].id = nextId + 1
        OBVIOUS
    <2> HIDE DEF s
    <2>4. QED
        BY <1>0, <2>1, <2>2, <2>3, NewHeldOnce
<1>3. QED
    BY <1>1, <1>2

\* A caller queues the first of its requests: the others are not that one.
LEMMA QueueHeldOnce ==
    ASSUME TypeOK, InHandOnce, NEW c \in Callers, Queue(c)
    PROVE  InHandOnce'
<1> DEFINE r == inHand[c][1]
<1>1. /\ r = Head(inHand[c]) /\ 1 \in DOMAIN inHand[c]
      /\ \A n \in DOMAIN Tail(inHand[c]) :
            n \in Nat \ {0} /\ n + 1 \in DOMAIN inHand[c] /\ Tail(inHand[c])[n] = inHand[c][n + 1]
    BY HandTail DEF Queue
<1>2. inHand'[c] = Tail(inHand[c]) /\ \A b \in Callers \ {c} : inHand'[b] = inHand[b]
    BY DEF Queue, TypeOK
<1>3. /\ \A e \in Stamped' : e \in Stamped \/ e.id = r.id
      /\ \A i \in queued_peer_queries' : i \in queued_peer_queries \/ i = r.id
    BY <1>1 DEF Queue, QueueActionRequest, QueueSigningKeysRequest, QueueAccountKeyQuery,
           QueuePeerKeyQuery, Stamped
<1>4. HandedIds' = HandedIds
    BY DEF Queue, out, HandedIds
\* Where a request of the next hands is in these.
<1> DEFINE Place(b, n) == IF b = c THEN n + 1 ELSE n
<1>5. \A b \in Callers : \A n \in DOMAIN inHand'[b] :
          /\ Place(b, n) \in DOMAIN inHand[b] /\ inHand'[b][n] = inHand[b][Place(b, n)]
          /\ b = c => n \in Nat \ {0}
    BY <1>1, <1>2
<1>6. \A b \in Callers : \A n \in DOMAIN inHand'[b] : b # c \/ Place(b, n) # 1
    BY <1>5
<1>7. ASSUME NEW b \in Callers, NEW n \in DOMAIN inHand'[b]
      PROVE  /\ inHand'[b][n].id \notin HandedIds' \cup queued_peer_queries'
             /\ \A e \in Stamped' : e.id # inHand'[b][n].id
             /\ \A a \in Callers : \A l \in DOMAIN inHand'[a] :
                   inHand'[a][l].id = inHand'[b][n].id => a = b /\ l = n
    <2> DEFINE q == inHand[b][Place(b, n)]
    <2>1. q = inHand'[b][n] /\ Place(b, n) \in DOMAIN inHand[b]
        BY <1>5
    <2>2. r.id # q.id
        BY <1>1, <1>6, <2>1 DEF InHandOnce, HeldOnce
    <2>3. \A e \in Stamped' : e.id # q.id
        BY <1>3, <2>1, <2>2 DEF InHandOnce, HeldOnce
    <2>4. q.id \notin HandedIds' \cup queued_peer_queries'
        BY <1>3, <1>4, <2>1, <2>2 DEF InHandOnce, HeldOnce
    <2>5. ASSUME NEW a \in Callers, NEW l \in DOMAIN inHand'[a], inHand'[a][l].id = q.id
          PROVE  a = b /\ l = n
        <3>1. a = b /\ Place(a, l) = Place(b, n)
            BY <1>5, <2>1, <2>5 DEF InHandOnce, HeldOnce
        <3>2. QED
            BY <1>5, <3>1
    <2> HIDE DEF q
    <2>6. QED
        BY <2>1, <2>3, <2>4, <2>5
<1>8. QED
    BY <1>7 DEF InHandOnce, HeldOnce

\* No request in a hand is one upstream offers.
LEMMA HeldNotOffered ==
    ASSUME TypeOK, OneKind, OffersOrdinary, SourcesApart,
           NEW c \in Callers, NEW n \in DOMAIN inHand[c], NEW k \in Kinds
    PROVE  ~Offered(inHand[c][n].id, k)
<1> DEFINE r == inHand[c][n]
<1>1. r.id \in Ids /\ r.kind \in Kinds /\ Carries(r.id, r.kind)
    BY InHandCarried
<1>2. CASE r.kind = "PeerKeysQueryOutOfBand"
    <2>1. SUFFICES ASSUME Offered(r.id, k)
                   PROVE  FALSE
        OBVIOUS
    <2>2. k = r.kind
        BY <1>1, <2>1 DEF OneKind, Carries
    <2>3. k \notin LibraryKinds
        BY <2>1 DEF Offered, OffersOrdinary
    <2>4. QED
        BY <1>2, <2>2, <2>3 DEF LibraryKinds
<1>3. CASE r.kind # "PeerKeysQueryOutOfBand"
    <2>1. Own(r.id)
        BY <1>3 DEF Own
    <2>2. QED
        BY <1>1, <2>1 DEF SourcesApart
<1>4. QED
    BY <1>2, <1>3

LEMMA HandOutHeldOnce ==
    ASSUME TypeOK, OneKind, OffersOrdinary, SourcesApart, NothingShared, InHandOnce,
           NEW d \in Drains, HandOut(d)
    PROVE  InHandOnce'
<1>1. PICK offered \in snapshot[d] : \E stamp \in Stamps(Unstamped(offered)) :
          HandOutBatch(d, Unstamped(offered), Ordered(Unstamped(offered), stamp))
    BY DEF HandOut
<1>2. PICK stamp \in Stamps(Unstamped(offered)) :
          HandOutBatch(d, Unstamped(offered), Ordered(Unstamped(offered), stamp))
    BY <1>1
<1>3. Stamped' = {} /\ queued_peer_queries' = {} /\ UNCHANGED inHand
    BY <1>2 DEF HandOutBatch, Stamped
<1>4. ASSUME NEW c \in Callers, NEW n \in DOMAIN inHand[c]
      PROVE  inHand[c][n].id \notin HandedIds'
    <2>1. ASSUME NEW e \in Ordered(Unstamped(offered), stamp), e.id = inHand[c][n].id
          PROVE  FALSE
        <3>1. e.kind \in Kinds
            BY EntryCarried
        <3>2. ~Offered(e.id, e.kind)
            BY <2>1, <3>1, HeldNotOffered
        <3>3. [id |-> e.id, kind |-> e.kind] \notin offered
            BY <3>2 DEF Offered
        <3>4. QED
            BY <2>1, <3>3, EntrySource DEF InHandOnce, HeldOnce
    <2>2. QED
        BY <1>2, <2>1, HandedOut DEF InHandOnce, HeldOnce
<1>5. QED
    BY <1>3, <1>4 DEF InHandOnce, HeldOnce

LEMMA HeldOnceStep ==
    ASSUME MaxRepeatAt = 0, TypeOK, OneKind, Minted, OffersOrdinary, SourcesApart,
           NothingShared, InHandOnce, [Next]_vars
    PROVE  InHandOnce'
<1>1. ASSUME NEW c \in Callers
      PROVE  ~Repeat(c)
    BY DEF Repeat, TypeOK
<1>2. ASSUME NEW c \in Callers,
             (\E program \in Programs : Obtain(c, program)) \/ SyncCompletion(c)
      PROVE  InHandOnce'
    BY <1>2, CallerHeldOnce
<1>3. ASSUME NEW c \in Callers, Queue(c)
      PROVE  InHandOnce'
    BY <1>3, QueueHeldOnce
<1>4. ASSUME NEW d \in Drains, HandOut(d)
      PROVE  InHandOnce'
    BY <1>4, HandOutHeldOnce
<1>5. CASE UNCHANGED <<queued_action, queued_signing_keys, queued_account_query,
                       queued_peer_queries, inHand, handed>>
    BY <1>5 DEF InHandOnce, HeldOnce, HandedIds, Stamped
<1>6. QED
    BY <1>1, <1>2, <1>3, <1>4, <1>5
       DEF Next, vars, state, out, ShareScopeKey, QueueShared, SyncReaction, NeedArises,
           TakeSnapshot, TakeFails, MarkRead, MarkSent, MarkRejected, MarkResolved

-----------------------------------------------------------------------------
(* What upstream offers.                                                   *)

\* What upstream queues for itself supersedes nothing.
ReactionsUngrouped == \A r \in reactions : EvictionGroup(r.kind) = NoGroup

LEMMA UngroupedStep ==
    ASSUME ReactionsUngrouped, [Next]_vars
    PROVE  ReactionsUngrouped'
<1>1. \A k \in QueuedKinds : EvictionGroup(k) = NoGroup
    BY DEF QueuedKinds, OutgoingKinds, EvictionGroup, NoGroup
<1>2. ASSUME NEW kind \in ReactionKinds, SyncReaction(kind)
      PROVE  ReactionsUngrouped'
    BY <1>1, <1>2, PumpAssumption DEF SyncReaction, ReactionsUngrouped
<1>3. ASSUME NEW c \in Callers, SyncCompletion(c)
      PROVE  ReactionsUngrouped'
    BY <1>3 DEF SyncCompletion, ReactionsUngrouped, EvictionGroup, NoGroup
<1>4. ASSUME NEW m \in marking, NEW settled \in AnswerAboutAccount, MarkSent(m, settled)
      PROVE  ReactionsUngrouped'
    BY <1>4 DEF MarkSent, ReactionsUngrouped
<1>5. CASE UNCHANGED reactions
    BY <1>5 DEF ReactionsUngrouped
<1>6. QED
    BY <1>2, <1>3, <1>4, <1>5
       DEF Next, vars, upstream, Obtain, Repeat, Queue, ShareScopeKey, QueueShared,
           NeedArises, TakeSnapshot, TakeFails, HandOut, HandOutBatch, MarkRead,
           MarkRejected, MarkResolved

\* A request derived for one drain is offered to that drain alone, and to it until
\* it is handed out or dropped.
DerivedOnce ==
    \A d \in Drains : \A offered \in snapshot[d] : \A r \in offered :
        EvictionGroup(r.kind) # NoGroup =>
            /\ r.id \notin HandedIds
            /\ \A b \in Drains \ {d} : \A other \in snapshot[b] : \A q \in other : q.id # r.id

LEMMA SnapshotDerivedOnce ==
    ASSUME TypeOK, OneKind, Minted, ReactionsUngrouped, DerivedOnce,
           NEW d \in Drains, NEW withBackup \in BOOLEAN, TakeSnapshot(d, withBackup)
    PROVE  DerivedOnce'
<1> DEFINE fresh == {[id |-> nextId + Position(k), kind |-> k] : k \in needs}
           cached == {r \in reactions : withBackup \/ r.kind # "RoomKeyBackup"}
<1>1. /\ snapshot' = [snapshot EXCEPT ![d] = {cached \cup fresh}]
      /\ HandedIds' = HandedIds
    BY DEF TakeSnapshot, out, HandedIds
<1>2. snapshot'[d] = {cached \cup fresh} /\ \A b \in Drains \ {d} : snapshot'[b] = snapshot[b]
    BY <1>1 DEF TypeOK
<1>3. nextId \in Nat /\ Ids \subseteq Nat
    BY PumpAssumption DEF TypeOK, Ids
<1>4. \A r \in fresh : r.id \in Nat /\ nextId <= r.id
    BY <1>3 DEF Position
<1>5. \A i \in HandedIds : i \in Nat /\ i < nextId
    BY <1>3, HandedCarried DEF Minted, HandedIds
<1>6. ASSUME NEW b \in Drains, NEW other \in snapshot[b], NEW q \in other
      PROVE  q.id \in Nat /\ q.id < nextId
    <2>1. q \in Request
        BY DEF TypeOK
    <2>2. q = [id |-> q.id, kind |-> q.kind] /\ q.id \in Ids /\ q.kind \in Kinds
        BY <2>1 DEF Request
    <2>3. Offered(q.id, q.kind)
        BY <2>2 DEF Offered
    <2>4. QED
        BY <1>3, <2>2, <2>3 DEF Minted, Carries
<1> HIDE DEF fresh
\* What is derived now is newer than what anybody was handed or is offered.
<1>7. ASSUME NEW r \in fresh
      PROVE  /\ r.id \notin HandedIds
             /\ \A b \in Drains : \A other \in snapshot[b] : \A q \in other : q.id # r.id
    <2>1. r.id \in Nat /\ nextId <= r.id
        BY <1>4
    <2> DEFINE j == r.id
    <2> HIDE DEF j
    <2>2. \A i \in Nat : i < nextId => i # j
        BY <1>3, <2>1 DEF j
    <2>3. QED
        BY <1>5, <1>6, <2>2 DEF j
<1>8. \A r \in cached : EvictionGroup(r.kind) = NoGroup
    BY DEF ReactionsUngrouped
<1> HIDE DEF cached
<1>9. ASSUME NEW b \in Drains \ {d}, NEW other \in snapshot[b], NEW q \in other,
             EvictionGroup(q.kind) # NoGroup, NEW r \in cached
      PROVE  r.id # q.id
    <2>1. q \in Request /\ r \in reactions
        BY DEF TypeOK, cached
    <2>2. r \in Request
        BY <2>1 DEF TypeOK
    <2>3. q = [id |-> q.id, kind |-> q.kind] /\ q.id \in Ids /\ q.kind \in Kinds
        BY <2>1 DEF Request
    <2>4. r = [id |-> r.id, kind |-> r.kind] /\ r.kind \in Kinds
        BY <2>2 DEF Request
    <2>5. Offered(q.id, q.kind) /\ Offered(r.id, r.kind)
        BY <2>1, <2>3, <2>4 DEF Offered
    <2>6. r.id = q.id => r.kind = q.kind
        BY <2>3, <2>4, <2>5 DEF OneKind, Carries
    <2>7. QED
        BY <1>8, <1>9, <2>6
<1>10. QED
    BY <1>1, <1>2, <1>7, <1>8, <1>9 DEF DerivedOnce

LEMMA HandOutDerivedOnce ==
    ASSUME TypeOK, OneKind, OffersOrdinary, SourcesApart, NothingShared, DerivedOnce,
           NEW d \in Drains, HandOut(d)
    PROVE  DerivedOnce'
<1>1. PICK offered \in snapshot[d] : \E stamp \in Stamps(Unstamped(offered)) :
          HandOutBatch(d, Unstamped(offered), Ordered(Unstamped(offered), stamp))
    BY DEF HandOut
<1>2. PICK stamp \in Stamps(Unstamped(offered)) :
          HandOutBatch(d, Unstamped(offered), Ordered(Unstamped(offered), stamp))
    BY <1>1
<1>3. snapshot'[d] = {} /\ \A b \in Drains \ {d} : snapshot'[b] = snapshot[b]
    BY <1>2 DEF HandOutBatch, TypeOK
<1>4. ASSUME NEW b \in Drains \ {d}, NEW other \in snapshot[b], NEW r \in other,
             EvictionGroup(r.kind) # NoGroup
      PROVE  r.id \notin HandedIds'
    <2>1. r \in Request
        BY DEF TypeOK
    <2>2. r = [id |-> r.id, kind |-> r.kind] /\ r.id \in Ids /\ r.kind \in Kinds
        BY <2>1 DEF Request
    <2>3. Offered(r.id, r.kind)
        BY <2>2 DEF Offered
    <2>4. ASSUME NEW e \in Ordered(Unstamped(offered), stamp), e.id = r.id
          PROVE  FALSE
        <3>1. CASE e \in Stamped
            BY <2>2, <2>3, <2>4, <3>1 DEF SourcesApart, Own
        <3>2. CASE [id |-> e.id, kind |-> e.kind] \in offered
            BY <1>4, <2>4, <3>2 DEF DerivedOnce
        <3>3. CASE e.id \in queued_peer_queries /\ e.kind = "PeerKeysQueryOutOfBand"
            <4>1. Carries(r.id, "PeerKeysQueryOutOfBand") /\ Carries(r.id, r.kind)
                BY <2>3, <2>4, <3>3 DEF Carries, Loose
            <4>2. r.kind = "PeerKeysQueryOutOfBand"
                BY <2>2, <4>1 DEF OneKind, Kinds
            <4>3. QED
                BY <4>2 DEF OffersOrdinary, LibraryKinds
        <3>4. QED
            BY <3>1, <3>2, <3>3, EntrySource
    <2>5. QED
        BY <1>2, <1>4, <2>4, HandedOut DEF DerivedOnce
<1>5. QED
    BY <1>3, <1>4 DEF DerivedOnce

LEMMA DerivedOnceStep ==
    ASSUME TypeOK, OneKind, Minted, OffersOrdinary, SourcesApart, NothingShared,
           ReactionsUngrouped, DerivedOnce, [Next]_vars
    PROVE  DerivedOnce'
<1>1. ASSUME NEW d \in Drains, NEW withBackup \in BOOLEAN, TakeSnapshot(d, withBackup)
      PROVE  DerivedOnce'
    BY <1>1, SnapshotDerivedOnce
<1>2. ASSUME NEW d \in Drains, HandOut(d)
      PROVE  DerivedOnce'
    BY <1>2, HandOutDerivedOnce
<1>3. ASSUME NEW d \in Drains, TakeFails(d)
      PROVE  DerivedOnce'
    <2>1. UNCHANGED handed /\ \A b \in Drains : snapshot'[b] \subseteq snapshot[b]
        BY <1>3 DEF TakeFails, out, TypeOK
    <2>2. QED
        BY <2>1 DEF DerivedOnce, HandedIds
<1>4. CASE UNCHANGED <<snapshot, handed>>
    BY <1>4 DEF DerivedOnce, HandedIds
<1>5. QED
    BY <1>1, <1>2, <1>3, <1>4
       DEF Next, vars, out, Obtain, Repeat, Queue, SyncCompletion, ShareScopeKey,
           QueueShared, SyncReaction, NeedArises, MarkRead, MarkSent, MarkRejected,
           MarkResolved

-----------------------------------------------------------------------------
(* Reports and drains exclude each other.                                  *)

\* While a response is reported no drain is under way, and what upstream has been told
\* about is not offered any more.
ReportsAlone ==
    /\ marking # {} => NoDrain
    /\ \A m \in marking : m.applied => \A k \in Kinds : ~Offered(m.id, k)

LEMMA ReportsAloneStep ==
    ASSUME "report" \notin Overlap, TypeOK, Minted, HandedKnown, ReportsAlone, [Next]_vars
    PROVE  ReportsAlone'
<1>0. \A m \in marking : m.id \in Ids /\ m.id < nextId
    <2>1. ASSUME NEW m \in marking
          PROVE  m.id \in Ids /\ m.id < nextId
        <3>1. PICK h \in handed : h.id = m.id
            BY DEF HandedKnown, HandedIds
        <3>2. QED
            BY <3>1, HandedCarried DEF Minted
    <2>2. QED
        BY <2>1
<1>1. ASSUME NEW d \in Drains, \E withBackup \in BOOLEAN : TakeSnapshot(d, withBackup)
      PROVE  ReportsAlone'
    BY <1>1 DEF TakeSnapshot, ReportsAlone
<1>2. ASSUME NEW d \in Drains, TakeFails(d) \/ HandOut(d)
      PROVE  ReportsAlone'
    <2>1. UNCHANGED <<marking, reactions>> /\ \A b \in Drains : snapshot'[b] \subseteq snapshot[b]
        BY <1>2 DEF TakeFails, HandOut, HandOutBatch, upstream, TypeOK
    <2>2. QED
        BY <2>1 DEF ReportsAlone, NoDrain, Offered
<1>3. ASSUME \/ \E kind \in ReactionKinds : SyncReaction(kind)
             \/ \E c \in Callers : SyncCompletion(c)
      PROVE  ReportsAlone'
    <2>1. /\ UNCHANGED <<marking, snapshot>>
          /\ \A r \in reactions' : r \in reactions \/ r.id = nextId
        BY <1>3 DEF SyncReaction, SyncCompletion
    <2>2. nextId \in Nat /\ Ids \subseteq Nat
        BY PumpAssumption DEF TypeOK, Ids
    <2>3. \A m \in marking : m.id # nextId
        BY <1>0, <2>2
    <2>4. QED
        BY <2>1, <2>3 DEF ReportsAlone, NoDrain, Offered
<1>4. ASSUME NEW call \in Reports, NEW i \in DOMAIN pending, MarkRead(call, i)
      PROVE  ReportsAlone'
    <2>1. /\ NoDrain /\ UNCHANGED <<snapshot, reactions>>
          /\ \A m \in marking' : m \in marking \/ ~m.applied
        BY <1>4 DEF MarkRead, upstream
    <2>2. QED
        BY <2>1 DEF ReportsAlone, NoDrain, Offered
<1>5. ASSUME NEW m \in marking, NEW settled \in AnswerAboutAccount, MarkSent(m, settled)
      PROVE  ReportsAlone'
    <2>1. /\ NoDrain /\ UNCHANGED snapshot
          /\ reactions' = {r \in reactions : r.id # m.id}
          /\ \A n \in marking' : n \in marking \/ n.id = m.id
        BY <1>5 DEF MarkSent, ReportsAlone, TypeOK
    <2>2. \A k \in Kinds : ~Offered(m.id, k)'
        BY <2>1 DEF Offered, NoDrain
    <2>3. \A i, k : Offered(i, k)' => Offered(i, k)
        BY <2>1 DEF Offered
    <2>4. QED
        BY <2>1, <2>2, <2>3 DEF ReportsAlone, NoDrain
<1>6. ASSUME /\ UNCHANGED <<snapshot, reactions>> /\ marking' \subseteq marking
      PROVE  ReportsAlone'
    BY <1>6 DEF ReportsAlone, NoDrain, Offered
<1>7. QED
    BY <1>1, <1>2, <1>3, <1>4, <1>5, <1>6
       DEF Next, vars, upstream, Obtain, Repeat, Queue, ShareScopeKey, QueueShared,
           NeedArises, MarkRejected, MarkResolved

-----------------------------------------------------------------------------
(* What has left the pump.                                                 *)

\* What was handed out is in no queue any more, and once it is answered or superseded
\* upstream does not offer it either.
SpentNowhere ==
    /\ \A i \in HandedIds : i \notin queued_peer_queries /\ \A e \in Stamped : e.id # i
    /\ \A i \in HandedIds \ DOMAIN pending : \A k \in Kinds : ~Offered(i, k)

\* What a batch retires was derived for an earlier one, or made by a caller: upstream
\* does not hold it.
LEMMA RetiredNotOffered ==
    ASSUME TypeOK, OneKind, HandedKnown, ReactionsUngrouped, DerivedOnce,
           NEW i \in DOMAIN pending, EvictionGroup(pending[i].kind) # NoGroup,
           NEW k \in Kinds
    PROVE  ~Offered(i, k)
<1>1. SUFFICES ASSUME Offered(i, k)
               PROVE  FALSE
    OBVIOUS
<1>2. k = pending[i].kind
    BY <1>1, PendingCarried DEF OneKind, Carries
<1> DEFINE r == [id |-> i, kind |-> k]
<1>3. r \in handed /\ r.id = i /\ r.kind = k
    BY <1>2 DEF HandedKnown
<1> HIDE DEF r
<1>4. i \in HandedIds
    BY <1>3 DEF HandedIds
<1>5. r \notin reactions
    BY <1>2, <1>3 DEF ReactionsUngrouped
<1>6. ASSUME NEW d \in Drains, NEW offered \in snapshot[d], r \in offered
      PROVE  FALSE
    BY <1>2, <1>3, <1>4, <1>6 DEF DerivedOnce
<1>7. QED
    BY <1>1, <1>5, <1>6 DEF Offered, r

\* A request leaves `pending` in a hand-out only by being superseded.
LEMMA HandOutRetires ==
    ASSUME TypeOK, NEW d \in Drains, NEW offered \in snapshot[d],
           NEW stamp \in Stamps(Unstamped(offered)),
           HandOutBatch(d, Unstamped(offered), Ordered(Unstamped(offered), stamp))
    PROVE  /\ \A i \in DOMAIN pending \ DOMAIN pending' :
                 EvictionGroup(pending[i].kind) # NoGroup
           /\ \A e \in Ordered(Unstamped(offered), stamp) : e.id \in DOMAIN pending'
<1> DEFINE entries == Ordered(Unstamped(offered), stamp)
<1>1. DOMAIN pending' = {i \in DOMAIN pending :
                            EvictionGroup(pending[i].kind) \notin Refreshed(entries)}
                        \cup {e.id : e \in entries}
    BY DEF HandOutBatch, Registered
<1>2. NoGroup \notin Refreshed(entries)
    BY DEF Refreshed
<1> HIDE DEF entries
<1>3. QED
    BY <1>1, <1>2 DEF entries

LEMMA HandOutSpent ==
    ASSUME TypeOK, OneKind, HandedKnown, ReactionsUngrouped, DerivedOnce, SpentNowhere,
           NEW d \in Drains, HandOut(d)
    PROVE  SpentNowhere'
<1>1. PICK offered \in snapshot[d] : \E stamp \in Stamps(Unstamped(offered)) :
          HandOutBatch(d, Unstamped(offered), Ordered(Unstamped(offered), stamp))
    BY DEF HandOut
<1>2. PICK stamp \in Stamps(Unstamped(offered)) :
          HandOutBatch(d, Unstamped(offered), Ordered(Unstamped(offered), stamp))
    BY <1>1
<1>3. /\ Stamped' = {} /\ queued_peer_queries' = {} /\ UNCHANGED reactions
      /\ \A b \in Drains : snapshot'[b] \subseteq snapshot[b]
    BY <1>2 DEF HandOutBatch, Stamped, upstream, TypeOK
<1>4. \A i \in Ids : \A k \in Kinds : Offered(i, k)' => Offered(i, k)
    BY <1>3 DEF Offered
<1>5. ASSUME NEW i \in HandedIds' \ DOMAIN pending', NEW k \in Kinds
      PROVE  ~Offered(i, k)
    <2>1. i \in HandedIds
        BY <1>2, HandedOut, HandOutRetires
    <2>2. CASE i \in DOMAIN pending
        BY <1>2, <1>5, <2>2, HandOutRetires, RetiredNotOffered
    <2>3. CASE i \notin DOMAIN pending
        BY <2>1, <2>3 DEF SpentNowhere
    <2>4. QED
        BY <2>2, <2>3
<1>6. HandedIds' \subseteq Ids
    BY <1>2, HandedOut, HandedCarried, EntryCarried DEF HandedIds
<1>7. QED
    BY <1>3, <1>4, <1>5, <1>6 DEF SpentNowhere

LEMMA SpentStep ==
    ASSUME TypeOK, OneKind, Minted, HandedKnown, InHandOnce, ReactionsUngrouped, DerivedOnce,
           ReportsAlone, SpentNowhere, [Next]_vars
    PROVE  SpentNowhere'
<1>a. nextId \in Nat /\ Ids \subseteq Nat
    BY PumpAssumption DEF TypeOK, Ids
<1>b. \A i \in HandedIds : i \in Ids /\ i < nextId
    <2>1. ASSUME NEW h \in handed
          PROVE  h.id \in Ids /\ h.id < nextId
        BY HandedCarried DEF Minted
    <2>2. QED
        BY <2>1 DEF HandedIds
<1>0. \A i \in HandedIds : i \in Ids /\ ~(nextId <= i)
    <2>1. ASSUME NEW i \in Nat, i < nextId
          PROVE  ~(nextId <= i)
        BY <1>a, <2>1
    <2>2. QED
        BY <1>a, <1>b, <2>1
<1>1. ASSUME NEW c \in Callers, Queue(c)
      PROVE  SpentNowhere'
    <2> DEFINE r == inHand[c][1]
    <2>1. r = Head(inHand[c]) /\ 1 \in DOMAIN inHand[c]
        BY <1>1, HandTail DEF Queue
    <2>2. r.id \notin HandedIds
        BY <2>1 DEF InHandOnce, HeldOnce
    <2>3. /\ \A e \in Stamped' : e \in Stamped \/ e.id = r.id
          /\ \A i \in queued_peer_queries' : i \in queued_peer_queries \/ i = r.id
        BY <1>1, <2>1 DEF Queue, QueueActionRequest, QueueSigningKeysRequest,
               QueueAccountKeyQuery, QueuePeerKeyQuery, Stamped
    <2>4. UNCHANGED <<reactions, snapshot, pending, handed>>
        BY <1>1 DEF Queue, upstream, out
    <2>5. QED
        BY <2>2, <2>3, <2>4 DEF SpentNowhere, HandedIds, Offered
<1>2. ASSUME NEW d \in Drains, HandOut(d)
      PROVE  SpentNowhere'
    BY <1>2, HandOutSpent
<1>3. ASSUME NEW m \in marking, MarkResolved(m)
      PROVE  SpentNowhere'
    <2>1. /\ DOMAIN pending' = DOMAIN pending \ {m.id}
          /\ UNCHANGED <<queued_peer_queries, queued_action, queued_signing_keys,
                         queued_account_query, reactions, snapshot, handed>>
        BY <1>3 DEF MarkResolved, upstream, out
    <2>2. \A k \in Kinds : ~Offered(m.id, k)
        BY <1>3 DEF MarkResolved, ReportsAlone
    <2>3. QED
        BY <2>1, <2>2 DEF SpentNowhere, HandedIds, Stamped, Offered
<1>4. ASSUME UNCHANGED <<queued_peer_queries, queued_action, queued_signing_keys,
                         queued_account_query, pending, handed>>,
             \A i \in Ids : \A k \in Kinds : Offered(i, k)' => Offered(i, k) \/ nextId <= i
      PROVE  SpentNowhere'
    <2>1. Stamped' = Stamped /\ HandedIds' = HandedIds
        BY <1>4 DEF Stamped, HandedIds
    <2>2. \A i \in HandedIds \ DOMAIN pending : \A k \in Kinds : ~Offered(i, k)'
        BY <1>0, <1>4 DEF SpentNowhere
    <2>3. QED
        BY <1>4, <2>1, <2>2 DEF SpentNowhere
<1>5. ASSUME \/ \E kind \in ReactionKinds : SyncReaction(kind)
             \/ \E c \in Callers : SyncCompletion(c)
      PROVE  SpentNowhere'
    <2>1. /\ UNCHANGED <<queued_peer_queries, queued_action, queued_signing_keys,
                         queued_account_query, pending, handed, snapshot>>
          /\ \A r \in reactions' : r \in reactions \/ r.id = nextId
        BY <1>5 DEF SyncReaction, SyncCompletion, state, out
    <2>2. \A i \in Ids : \A k \in Kinds : Offered(i, k)' => Offered(i, k) \/ nextId <= i
        BY <1>a, <2>1 DEF Offered
    <2>3. QED
        BY <1>4, <2>1, <2>2
<1>6. ASSUME NEW d \in Drains, NEW withBackup \in BOOLEAN, TakeSnapshot(d, withBackup)
      PROVE  SpentNowhere'
    <2> DEFINE fresh == {[id |-> nextId + Position(k), kind |-> k] : k \in needs}
               cached == {r \in reactions : withBackup \/ r.kind # "RoomKeyBackup"}
    <2>1. /\ snapshot' = [snapshot EXCEPT ![d] = {cached \cup fresh}]
          /\ UNCHANGED <<queued_peer_queries, queued_action, queued_signing_keys,
                         queued_account_query, pending, handed, reactions>>
        BY <1>6 DEF TakeSnapshot, state, out
    <2>2. snapshot'[d] = {cached \cup fresh}
          /\ \A b \in Drains \ {d} : snapshot'[b] = snapshot[b]
        BY <2>1 DEF TypeOK
    <2>3. \A r \in fresh : nextId <= r.id
        BY <1>a DEF Position
    <2> HIDE DEF fresh
    <2>4. \A i \in Ids : \A k \in Kinds : Offered(i, k)' => Offered(i, k) \/ nextId <= i
        BY <2>1, <2>2, <2>3 DEF Offered
    <2>5. QED
        BY <1>4, <2>1, <2>4
<1>7. ASSUME NEW d \in Drains, TakeFails(d)
      PROVE  SpentNowhere'
    <2>1. /\ UNCHANGED <<queued_peer_queries, queued_action, queued_signing_keys,
                         queued_account_query, pending, handed, reactions>>
          /\ \A b \in Drains : snapshot'[b] \subseteq snapshot[b]
        BY <1>7 DEF TakeFails, state, upstream, out, TypeOK
    <2>2. \A i \in Ids : \A k \in Kinds : Offered(i, k)' => Offered(i, k)
        BY <2>1 DEF Offered
    <2>3. QED
        BY <1>4, <2>1, <2>2
<1>8. ASSUME UNCHANGED <<queued_peer_queries, queued_action, queued_signing_keys,
                         queued_account_query, pending, handed, snapshot>>,
             reactions' \subseteq reactions
      PROVE  SpentNowhere'
    <2>1. \A i \in Ids : \A k \in Kinds : Offered(i, k)' => Offered(i, k)
        BY <1>8 DEF Offered
    <2>2. QED
        BY <1>4, <1>8, <2>1
<1>9. QED
    BY <1>1, <1>2, <1>3, <1>5, <1>6, <1>7, <1>8
       DEF Next, vars, state, upstream, out, Obtain, Repeat, ShareScopeKey, QueueShared,
           NeedArises, MarkRead, MarkSent, MarkRejected

\* What holds while nothing is repeated, shared or reported over a drain.
OneWay == /\ NothingShared /\ InHandOnce /\ ReactionsUngrouped /\ DerivedOnce
          /\ ReportsAlone /\ SpentNowhere

\* No batch brings back what has left and is not unresolved.
LEMMA GoneStep ==
    ASSUME TypeOK, NothingShared, SpentNowhere, [Next]_vars,
           NEW h \in handed, h.id \notin DOMAIN pending
    PROVE  h.id \notin DOMAIN pending'
<1>1. ASSUME NEW d \in Drains, HandOut(d)
      PROVE  h.id \notin DOMAIN pending'
    <2>1. PICK offered \in snapshot[d] : \E stamp \in Stamps(Unstamped(offered)) :
              HandOutBatch(d, Unstamped(offered), Ordered(Unstamped(offered), stamp))
        BY <1>1 DEF HandOut
    <2>2. PICK stamp \in Stamps(Unstamped(offered)) :
              HandOutBatch(d, Unstamped(offered), Ordered(Unstamped(offered), stamp))
        BY <2>1
    <2>3. h.id \in HandedIds
        BY DEF HandedIds
    <2>4. ASSUME NEW e \in Ordered(Unstamped(offered), stamp), e.id = h.id
          PROVE  FALSE
        <3>1. e.kind \in Kinds /\ ~Offered(e.id, e.kind)
            BY <2>3, <2>4, EntryCarried DEF SpentNowhere
        <3>2. [id |-> e.id, kind |-> e.kind] \notin offered
            BY <3>1 DEF Offered
        <3>3. QED
            BY <2>3, <2>4, <3>2, EntrySource DEF SpentNowhere
    <2>5. QED
        BY <2>2, <2>4, HandOutPlaces
<1>2. CASE DOMAIN pending' \subseteq DOMAIN pending
    BY <1>2
<1>3. QED
    BY <1>1, <1>2
       DEF Next, vars, state, Obtain, Repeat, Queue, SyncCompletion, ShareScopeKey,
           QueueShared, SyncReaction, NeedArises, TakeSnapshot, TakeFails, MarkRead,
           MarkSent, MarkRejected, MarkResolved

\* For a product that reports no response while it draws a batch, and whose calls
\* neither repeat an action nor share a scope key, an id that was answered or
\* superseded never comes back, whatever callers, drains, syncs and failures do: what
\* was accepted once is not sent again.
THEOREM GoneForGoodHolds ==
    ASSUME ~Sharing, MaxRepeatAt = 0, "report" \notin Overlap
    PROVE  Spec => GoneForGood
<1>1. Init => OneWay
    BY DEF Init, OneWay, NothingShared, InHandOnce, ReactionsUngrouped, DerivedOnce,
           ReportsAlone, SpentNowhere, HandedIds
<1>2. Homes /\ OneWay /\ [Next]_vars => OneWay'
    <2> SUFFICES ASSUME Homes, OneWay, [Next]_vars
                 PROVE  OneWay'
        OBVIOUS
    <2>1. NothingShared' /\ ReactionsUngrouped'
        BY NothingSharedStep, UngroupedStep DEF OneWay
    <2>2. InHandOnce'
        BY HeldOnceStep DEF Homes, OneWay
    <2>3. DerivedOnce'
        BY DerivedOnceStep DEF Homes, OneWay
    <2>4. ReportsAlone'
        BY ReportsAloneStep DEF Homes, OneWay
    <2>5. SpentNowhere'
        BY SpentStep DEF Homes, OneWay
    <2>6. QED
        BY <2>1, <2>2, <2>3, <2>4, <2>5 DEF OneWay
<1>3. Homes /\ OneWay /\ [Next]_vars =>
          [\A h \in handed : h.id \notin DOMAIN pending => h.id \notin DOMAIN pending']_vars
    BY GoneStep DEF Homes, OneWay
<1>4. QED
    BY <1>1, <1>2, <1>3, EverythingHome, PTL DEF Spec, GoneForGood
=============================================================================
