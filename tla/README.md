# react-native-matrix-crypto: a verification development

TLA+ models of the Rust core of `react-native-matrix-crypto`
(`src/rust/matrix-crypto-core/src`) and of the part of the bridge that keeps
state, TLC runs that check them on small instances, and TLAPS proofs about them
for every instance. File names without a directory below are those of that
directory; `lib.rs` is `src/rust/matrix-crypto-ffi/src/lib.rs` and `signals.ts`
is `src/packages/react-native-matrix-crypto/src/signals.ts`.

The library wraps `matrix-sdk-crypto` for a React Native product. It performs
no network request: the product feeds it the slices of `/sync`, drains the
requests the library wants sent, sends them, and reports each response. All
that this crate adds to the upstream machine is *ordering, bookkeeping, refusal
and naming*: which requests are handed out in which order and which id may still
be answered; when a signing identity may be made, published or used; which
verification flows are remembered and what is told about them; which copy of a
key is where; what account data a recovery writes; under which word an error or
a verdict reaches the product. That is what the models are about.

## 1. Inventory

| Component | State | Operations | Modules |
| --- | --- | --- | --- |
| request pump (`session.rs`) | `RequestState` behind `STATE`: five queues, `pending`, two account flags, `next_sequence` | `queue_*`, `share_scope_key`, `take_outgoing_requests`, `mark_request_sent`, `mark_request_failed` (changes nothing) | RequestPump |
| response gate (`session.rs`) | none | `refuse_a_non_response`, the parse behind it, the statuses of `mark_request_failed` | ResponseGate, used by SenderTrust |
| signing identity (`signing.rs`, parts of `session.rs`, `recovery.rs`, `verification.rs`) | upstream's store (public identity, private keys, the record of an unpublished mint), the account flags, the arrival latch | `bootstrap_identity`, `create_identity`, `create_recovery`, `recover_identity`, `request_self_flow`, the judgement of a key query answer, restart | SigningIdentity |
| verification flow registry (`verification.rs`) | `FLOWS`: flow id to handles and two marks | `request_flow`, `handles`, `release_finished`, `queue_peer_key_queries`, `announce_state_changes` | FlowRegistry |
| codes and comparisons (`verification.rs`) | `CODE_CAPABILITIES`; in a record the cached comparison, code and negotiation | `offer_codes`, `accept_flow`, `begin_comparison`, `read_material`, `confirm_flow`, `read_code`, `submit_scanned_code`, `confirm_scan`, `cancel_flow`, `flow_stage` | CodeExchange |
| identity and device statuses (`identity.rs`) | upstream's store | `device_statuses`, `Envelope::sender_verification` | SenderTrust |
| room key backup (`backup.rs`), key vault (`vault.rs`) | upstream's flags, backup key and one batch | create, enable, replace, disable, restore; export, import | KeyBackup |
| event encryption (`session.rs`), history (`history.rs`) | upstream's group session and sessions; the last announced bundle | `share_scope_key`, `discard_scope_key`, `encrypt_event`, `decrypt_event`; build, share, offered, receive | RoomKeys |
| recovery (`recovery.rs`) | none of its own; account data on the homeserver, read and written by the product | `create_recovery`, `recover_identity` | Recovery |
| machine holder (`machine.rs`, `runtime.rs`) | `HELD`, `INIT_LOCK`, the store on disk | `create_machine`, `open_store`, `with_machine` | MachineHolder, OneMachine |
| crypto signal channel (`observer.rs`, `signals.ts`) | `CRYPTO_OBSERVER`; in TypeScript a listener set and `nativeInstalled` | set, clear, emit; subscribe, unsubscribe, deliver | SignalChannel; the pass in FlowRegistry |
| FFI surface (`lib.rs`), generated bindings | none | conversions | Bindings: the enums and their order |
| attachments, OPRF, probe, TypeScript facade, build | none | pure functions | not modelled, see section 6 |

Interactions. Every call that needs upstream goes through `with_machine`, which
holds the machine lock for one closure. `STATE` and `FLOWS` are separate,
ordinary locks, taken for a moment, in or outside the machine lock, and never
across an await. So one public call is a *sequence of sections*, and between two
sections of one call any section of another may run. `verification.rs` and
`signing.rs` obtain requests from upstream and queue them into the pump;
`receive_sync_changes` advances flows under the machine lock, then queues the
key queries completed scans owe, then tells the observer; `mark_request_sent`
judges a key query answer under the machine lock and later raises the flag that
`signing.rs`, `recovery.rs` and `verification.rs` read. Signals are delivered on
detached threads into one JavaScript thread. Recovery and backup depend on what
the product reads from and writes to the homeserver between two calls.

Hard behaviours, and what has to hold there:

- *pump*: overlapping drains and reports, a sync in the middle of a drain, a
  repeated action, failed shares. One order spans all sources; what must reach
  the homeserver in an order leaves in it; an id stays answerable until
  superseded; one generation of each standing need.
- *identity*: crashes between two store writes, restarts, refused, lost and
  misreported uploads, answers that omit the account, say half or are old, and
  another client that signs the account up.
- *flows and codes*: sweeps racing syncs, overlapping syncs, an observer that
  goes in the middle of an announcement; cached handles that a sync outdates;
  upstream's rule that a second verification with a person cancels both, which also
  counts what finished until the next sync.
- *keys*: a batch of a replaced backup version, lost answers, imports that must not
  count as uploaded; a share that races a rotation; a bundle upstream drops in silence.
- *recovery*: a write interrupted at any PUT, a second device with an old list,
  damage told from a wrong secret.
- *trust*: verdicts judged at one time and read at another; refusals that come
  back as successes; a read-back that is refused, lost or repeated.
- *process*: concurrent initialisation, a build that fails half-way, native calls
  that throw, hot reloads.

The full list, each at its line, is under `hazards` in `PROJECT.json`.

## 2. Modules

Each module stands alone with its environment (upstream, the homeserver, the
product); where two components meet, one has the detail and the other what it
leaves behind, and its header says which. RoomKeys extends KeyBackup, SenderTrust
extends ResponseGate, and the modules that answer the product extend Bindings.

**Bindings**: the words. What the core can say as sets of names; each FFI enum as
the sequence of its variants in the order of declaration. `Crossed` is the
conversion by name, the position written by Rust and the switch that reads it
back. MachineHolder, CodeExchange, FlowRegistry, SenderTrust, RoomKeys and Recovery
pass their answers through it, so that their properties speak of what the
product is told. Variants carrying text are their names.

**RequestPump**: `state` is `RequestState` field by field, an `Option` being a set
of at most one element. Ids are naturals in order of minting, which no action
compares except for equality. One action is one section under one lock:

- `Obtain` / `Queue` (a call of `verification.rs` or `signing.rs` obtains requests,
  then queues them; `locked` programs hold the machine meanwhile), `Repeat`,
  `ShareScopeKey` / `QueueShared`, `SyncReaction`, `SyncCompletion`, `NeedArises`;
- `TakeSnapshot` / `HandOut` are the two sections of `take_outgoing_requests`,
  `TakeFails` its early return; `Ordered`, `Refreshed` and `Registered` are the
  stamping, the eviction and the registration of a batch;
- `MarkRead` / `MarkSent` or `MarkRejected` / `MarkResolved` are the sections of
  `mark_request_sent`. `mark_request_failed` changes no state and has no action.

`MaxIds`, `MaxRepeatAt`, `MaxSyncAt` and `MaxActionAt` bound the model. `Reports` are the
concurrent calls of `mark_request_sent`, two of which may report one id. `Overlap` says
what the product lets run while a drain is under way: the repository's `README.md:155-159`
forbids overlapping drains and nothing else, so a sync may come between the two
sections of a drain in both runs, and a report in one. A sync that does so marks the
order of its read-back and its signature as `cut`.

**SigningIdentity**: the store (`stored`, `private`, `record`), the process, the
homeserver, and the account's other clients. `MayPublish` and `MayCreate` are the
two rules of the gate, `Verdict` is `answer_about_this_account`, `Consume` /
`SetFlag` the two halves of reporting an answer, `CreateIdentity` /
`RecordAndPublish` the two store writes of a mint, `CheckSelfFlow` /
`RequestSelfFlow` the two trips of `request_self_flow`. An answer describes the
instant the server computed it and may be reported at any later time. `Calls`,
`AnswerKinds` and `Faults` choose what the product calls, what a server may answer
and what may go wrong. The queues of the pump are reduced to `asking` and `uploads`.

**FlowRegistry**: `registered`, `announced` and `queried` are the keys of `FLOWS` and
its two marks; `began`, `stage`, `over` and `codes` are what upstream's handles say.
A sync is `Begin`, its events, `Release` (under the machine lock), `CollectOwed`,
`QueueQueries`, then `NobodyListens` or `TakeCompletions`, `CollectInvitations`,
`Announce` once per signal, `Return`. `Kept` is the rule of `release_finished`, which
`Register` and `CollectInvitations` run. Abstracted: cached handles and methods
(CodeExchange has them), the filter for this account's own id at
`verification.rs:2846` (flows are with another user), the order of one pass's
signals. The far side's done reaches the request first (`DoneOverRequest`) and then the
comparison or code (`DoneOverHandle`), the order the comment at
`verification.rs:1191-1200` gives; in between the flow is `halfway`, any sweep may run,
and a record it takes then is `torn`. `ConfirmFlow` finishes a bare comparison by itself
where the far side confirmed first. `MaxWired` is how many flow ids the product also
reads off the sync itself. The properties are stated for `Ordinary` flows, those no call
named before the library gave out the id; section 3 says why.

**CodeExchange**: `request`, `made`, `current` are upstream's; `comparison`, `code`,
`negotiation` the caches of a record, which every call fills in as it clones it
(`Look`). A call with a machine trip of its own is two or three steps
(`BeginComparison` / `StartSas` / `Remember`, `ReadCode` / `GenerateCode` /
`Remember`, `SubmitScannedCode` / `ScanCode` or `RefuseScan`), and syncs run in
between. `Insert` and `InsertRequest` are upstream's rule of one verification per person:
it counts what is in force and, until the sweep at the start of a sync, what is done
(`unswept`). A sync is `BeginSync`, the far side's messages, `EndSync`, and a trip to the
machine waits until it is over. `account` says whose identities are known, the input of
`WhyNoCode`.

**KeyBackup, RoomKeys**: KeyBackup has the store's flags, the process's version and
one batch, the homeserver's current version, and the vault file; one action per
call, because each is one lock trip. RoomKeys adds the outbound session, who was
given which key, what was encrypted and opened, and history bundles from building
to import. An event may be encrypted at any time once a session exists, also between a
discard and the next share; a rotation notes who has left (`leaving`), and the share
that makes the next session bars them from it (`barred`). `uses` is the set of features
a product uses, so that each run of calls is explored without the product of all of them.

**Recovery**: account data is a pointer, a description per key and a ciphertext per
secret and key; a ciphertext is the identity it brings back. `create_recovery` hands
over entries (`Setup`, pointer last) which the product writes one PUT at a time
(`writing`), from a `list` it read earlier; `Routes` are the ways past
`RecoveryAlreadyExists`.

**MachineHolder, OneMachine**: the sections of `init` (`LookAtHeld`, `RefuseIdentifier`,
`OpenStore`, `LoadAccount`, `Hold`), `with_machine`, the store on disk over process
restarts, and the names of errors on each surface. OneMachine is the abstract
specification: a machine chosen at most once per process, equal calls succeed,
others are refused, nothing is served before. `KeepsPromise` is the refinement, with
`machine <- HELD`, `asked <- wants` and `told` the answer as the product reads it.

**SignalChannel**: one invitation from the pass that consumes it, over `emit_crypto`
and the blocking pool, to the listener set. A hot reload is a new `copy` of
`signals.ts` with a set and a flag of its own, beside the old observer and the functions
the old copy returned, which still remove from the old set and clear whatever observer
is registered (`Unsubscribe`, of any copy; `silenced` when the new copy's observer goes
that way). An invitation is a request, which is offered again until it is heard, or a
bare start (`Bare`), which is `lost` when nobody is there; `Faults` are the native calls that
may throw.

**SenderTrust, ResponseGate**: one other person, their devices and identity, our
signature on it and where it has got to; `requests` is the pump reduced to its
order, in which a scan's upload and read-back stand as queued or, where the sync `cut` a
drain in two, the other way round (`overtaken`). Every report passes `AnswerToSent`, the
gate over the shape of a body (`ResponseGate`); `session` is what the store remembers of
a key's sender, judged
again by `Recalculated` where upstream does.

MC modules give TLC its constants: the programs callers run, configurations,
people, products, symmetry of what differs in name only.

## 3. Runs

| Run | Bounds, and why they are enough |
| --- | --- |
| pump_order | One caller (confirmations with and without a signature, publications, refused bootstraps), one drain loop that may cut anything anywhere and need not wait for answers, 7 ids, syncs up to the second id, also between the two sections of a drain, verification actions up to the second id: two publications and a confirmation meet. The three orders of `OrdersKept`, `GoneForGood` |
| pump_overlap | Two overlapping drains and two overlapping reports, also of one id, scope keys shared, 5 ids. Each of the four properties relates two requests and at most two calls |
| identity_account | All calls, two identities (another client's and ours), one restart, misreported uploads, all answers |
| identity_finishes | Liveness of an interrupted sign-up |
| identity_mint_crash | Violation, see findings |
| flows | Two overlapping syncs, two flows of any shape, a registering caller, an observer that comes and goes, a done applied in two halves with sweeps in between, one id read off the wire. Every property relates one flow to at most two syncs and one sweep |
| codes | Two flows with one person (the rule needs a second one), of which one cannot be drawn, three kinds of person, a far side that may announce half of what it can in the flow that can be drawn, three comparisons or codes in all: one per flow and one that replaces. One product call at a time beside the syncs, whose machine trips come before or after a whole sync; a refused scan fails for a key that does not match or an identity that is missing (`ScanFailures`), as the call changes nothing whichever cause it is |
| rooms | Two keys, two versions, batches of one, two of them at the product, one relaunch or reinstall, two members of whom one has a signed device, two bundles; four products |
| recovery | Two devices and two keys, another client's recovery, five routes, two identities, one relaunch, an interruption at every PUT. Two of the three secrets: they differ in name only |
| machine_holder | Three callers, five configurations of which four meet in one store that may fail and one does not parse, two processes |
| signals | Three listeners of which one throws, a request and a bare start, one hot reload after which the first copy's functions may be called, both native calls may throw |
| senders | Two devices, an identity that may be replaced once, one comparison or scan, its drain whole or cut by the sync, one restart, every shape of body |

The properties themselves are stated, each with the code it is about, at the end
of their modules; `PROJECT.json` names a mutant of the code for each, which TLC
finds to violate it. A type invariant is proved (section 4) or a conjunct of one of
its invariants (the others).

`CHECK_DEADLOCK FALSE` stands where the bounds end a behaviour: ids, versions or
flows are spent, or the product calls nothing more.

### Fairness

- `identity_finishes`: the library runs no task that finishes a sign-up. Assumed is
  the documented remedy: the user decides to finish (`SF CreateIdentity`; strong
  because a call waits for tokio's fair machine lock, which other calls take and
  release), the product drains and reports answers that name the account (`SF`, per
  content), the server does not for ever answer without naming it (`SF`), accepts an
  upload (`WF`), and a step begun ends (`WF`). Other clients, misreports and
  omissions are under no fairness.
- `rooms`, `BackupCatchesUp`: the product drains (`WF`), resolves or fails every batch
  it has (`WF`), and of the uploads it repeats one goes through (`SF`).
- `signals`, `StayerHears`: the product goes on syncing (`WF` of both ends of a pass
  and of `Emit`) and the pool runs its closures (`WF`). Nobody has to subscribe and
  nothing has to stop throwing. It speaks of whoever stays subscribed to a copy that is
  not silenced, and of invitations that are not lost.
- `senders`, `ScannedReadsVerified`: a homeserver that is asked again and again accepts
  (`SF`), answers are reported (`WF`).
- The others are checked for safety: their progress is the product's.

### Findings

- `identity_mint_crash` (`signing.rs:959`): the process dies between the mint and the
  record that it is unpublished; reopened, the store looks like one whose identity
  is the account's, against `signing.rs:383-387`.

### Where the code does less than a comment says

Met while modelling; none has a run of its own. The properties above are stated so
that they hold beside these, and say where.

Pump.

- A sync between the two sections of one drain (`session.rs:3057`, `TakeSnapshot` /
  `HandOut`) that completes a scan: the drain has read upstream before it and reads the
  queues after it, so its batch carries the read-back query, and the signature upload
  leaves in the next one, behind it. 2066-2075 and 3126-3133 say the upload goes first.
  `OrdersKept` names exactly this case (`cut`) and holds for every other read-back. What
  it costs is in SenderTrust: the query is answered before the upload, it is asked for
  once, and the person reads unverified until something else asks about them.
- `session.rs:3199-3203` orders a publication before actions queued earlier, where
  2976-2979 speaks of production order.
- An id may be handed out again after its answer was accepted: by `share_scope_key`,
  which queues all that upstream held when asked (1530), by an action obtained
  before its twin was reported, and by a report that overlaps a drain. `GoneForGood`
  is checked without these; they cost a second send.
- With overlapping syncs a listener may be told of a completed scan before the key
  query it owes is queued (575, against `verification.rs:2827`): one sync has marked
  the record and waits for the machine, the other announces.

Identity.

- `request_self_flow` checks the record of an unpublished identity in one trip and
  makes the request in the next (`verification.rs:1722`); a `create_identity` in between
  lets the invitation out under the identity just minted.
- The arrival latch never stores `false` (`signing.rs:307`): keys dropped and gossiped
  again in one process are not announced.
- `signing.rs:198-205` lets the write of the mint's record fail silently; the theorems
  name the assumption.
- An answer that names another identity clears the record, but an upload already
  handed out cannot be withdrawn and may still be accepted.
- `note_identity_published`'s comment (`signing.rs:211-217`) names a call from the
  report of the signing-keys upload that is not made; the answer to a query is what
  clears the record. `PeerIdentityNotKnown`'s comment (`machine.rs:350`) names
  `bootstrap_identity` as the remedy of `IdentityNotKnown`, whose own says
  `create_identity`.

Flows.

- A sweep while a done message is half applied drops a flow about to complete: its key
  query is never queued and its completion never told, against 1118-1141. The steps are
  `RequestFlow`, `Register`, `RequestFlow` of another flow, `Begin`, `Accepted`,
  `ConfirmScan`, `DoneOverRequest`, `Register` of the other flow, which sweeps, and
  `DoneOverHandle`. `OwedQueryKept` and `CompletionKept` hold of every flow that was not
  `torn` that way. The comment at 1191-1200 has the two moves and asks of them only
  that a request be over for good.
- "A record can only reach `Done` inside `receive_sync_changes`" (1145-1152): a comparison
  that began without a request is done when `confirm_flow` returns (2066-2087), so that a
  sweep before the next sync finds an unmarked done record. `EvictionKeepsUp` names it.
- For ids the product read off the sync itself: `forget_flow` can take a flow the
  product has accepted (3220), and a call about to adopt a flow can register it after
  it finished and was swept, so that it is announced again.

Codes.

- The comment at 2552-2554 speaks of one *live* verification per person; one that finished
  counts until the next sync too, as `facade.ts:1519-1540` tells the product.
  `CasualtiesAreVisible` says that nothing else invisible does.
- `begin_comparison` decides that a flow is ready outside the machine trip that starts
  the comparison (1929): a second tap in between cancels both, against 1898-1905.
- If both sides begin at once the record may cache the comparison upstream drops; two
  `read_code`s may cache the older code. With one caller beside the syncs, as in
  `codes`, the second cannot happen and upstream keeps ours.
- A code that cannot be drawn is not remembered (2178-2180), but the next call that
  looks finds it (`code_of`). Such flows are outside `StageTellsLive` (`Drawable`).
- A code shown, replaced by a comparison of the far side and cancelled before any call
  looked, reads `started` until it is cancelled here; the comment at 1002-1006 says a
  record never has both.

Keys.

- After a relaunch `backup_version()` is `None`, so that enabling a *different* version
  does not reset the flags: keys already flagged are not offered to it, and
  `backed_up` counts them against it (`backup.rs:220-223` says it reads zero). A
  restore from another version does the same to what it brings, where 436-440 says it
  costs "a redundant upload and nothing worse". `stray` holds the keys this happened to:
  they get to the enabled version only once a later one replaces it in the same process
  or the backup is disabled, which clears the flags. `BackupCatchesUp` and
  `CountedIsHeld` say what holds of the others.
- After such a restore "`pending` therefore cannot grow" (`session.rs`, at `RoomKeyBackup`) does
  not hold for batches of a replaced version.
- A share under way that names a removed user voids the rotation that removed them
  (`EvictedReadNothing` says so). An event encrypted between a discard and the next share
  goes out under the old key (1002-1067 ask nothing of the session), which who was
  evicted still reads, where 1549-1551 says "nothing encrypted from here on".
  `EvictedReadNothing` bars them from the share on that makes the new key.
- The announced bundle may be replaced between `offered_history_bundle` and
  `receive_history_bundle`; the import is then of the later one, and `ReceivedIsHeld`
  speaks of what was imported.
- A key taken in with history stays of unknown origin when its sender is verified later.

Recovery.

- Revoking a key, which `create_recovery`'s comment describes, opens a window in which
  the pointer still names the old key and its ciphertexts are gone.
- A second device with an old list evicts the ciphertexts the first one wrote; a device
  whose key query answer predates a reset re-points the account to the recovery of the
  replaced identity. Both, and a product that hands over nothing, are `Risky`: the
  writes `RecoveryKeepsOpening` does not speak of.
- "Every reader in this module" is to take `{}` for a deletion (`recovery.rs:53-58`). The
  pointer's one reader does; a key description cleared that way is reported as
  malformed (906).

Trust.

- A comparison queues no read-back, only a scan does; what a read-back asks for is asked
  once in a process and behind an upload that may be refused, or ahead of it out of a
  drain cut in two; an upload still queued is lost at a restart. `ScannedReadsVerified`
  is for scans, ends with the process, and says of a read-back that was `overtaken` only
  that the signature gets to the homeserver.

Signals.

- After a hot reload a function that the old copy's `onCryptoSignal` returned
  (`signals.ts:401-407`) still has its own set and flag; the last one called clears the
  native observer, which may be the new copy's, whose flag stays up. The new copy then
  hears nothing and installs nothing until its last listener leaves. The comments on the
  flag (69-87) and on the two windows (145-160) do not name it; `FlagTellsTruth`
  (`silenced`) does, as its only exception.
- A bare start that reached nobody is not offered again, as `verification.rs:2980-2994` and
  `signals.ts:357-363` say: `LoyalListenersHear` and `StayerHears` speak of those that
  are not lost.

## 4. Proofs

TLAPS proves the following for every value of the constants that satisfies the named
assumption of the module. An invariant of a run is seldom inductive: each proof
names the strengthening, which TLC checked as an invariant of the runs before it was
proved, and shows that the initial states satisfy it and each action keeps it.

`RequestPumpProofs` (from `PumpAssumption`, so for any number of callers, drains, ids
and overlaps):

- `TypeCorrect`: `TypeOK` is inductive; one lemma per group of actions.
- `FlagsStayExclusive`: the two account flags; inductive as it stands.
- `OneGenerationHolds`: with the types and `RegistrySteps`, which says that only
  a hand-out adds to `pending` and that it evicts what it refreshes.
- `SequencesStayDistinct`: needs that the two slots are singletons
  (`Singletons`) and that a batch gives each id one entry of one origin
  (`OriginUnique`, `HandOutDistinct`); then one lemma for each way a stamped queue
  changes.
- `OneHomePerIdHolds`. An id can move through every queue, so the invariant follows
  it: an id is of one kind wherever it is (`OneKind`, over queues, offers, hands and
  places), what upstream offers has no queue of its own (`OffersOrdinary`), and no
  two calls carry the same id (`HandsApart`). Each action either mints an id nobody
  has (`Mints`) or moves one it holds.
- `AnswerableUntilSupersededHolds`: what a hand-out evicts is of the group of
  something it hands out.
- `OrdersKeptHolds`, given that publications are queued under the machine lock
  (`PublicationsLocked`, which `signing.rs` does), whatever syncs, drains and reports
  overlap. What holds a request is unique (`SourcesApart`, `HandedKnown`), and a request
  that has a place keeps it: a new place comes after all others unless it takes over a
  slot (`PlaceStep`). On that rest `ReactionsInOrder`, `Publications`,
  `SignaturesInOrder` (whose witness moves to the publication that replaces another) and
  `ReadbacksInOrder`, where the batch that carries the read-back carries the signature
  before it by rank. `CutsOpen` says what a cut is: the read-back has not left, and
  its signature is with upstream still or on its way. So when no drain that could take
  the one alone is under way any more, what it did not take is an ordinary read-back.
- `GoneForGoodHolds`, the action property, for a product that reports nothing while it
  draws a batch and whose calls neither repeat an action nor share a scope key, the
  three cases section 3 describes. It rests on `OneWay`: a request in a hand is there
  once and nowhere else (`InHandOnce`), what upstream derives for one drain is offered
  to no other (`DerivedOnce`) and is the only thing it offers that a batch may retire
  (`ReactionsUngrouped`), what a report is applying is not offered (`ReportsAlone`), and
  so what was handed out is in no queue and, once it is not pending, not offered
  (`SpentNowhere`).

`SigningIdentityProofs` (from `IdentityAssumption`):

- `TypeCorrect`.
- `MintNeedsNone`, `OneMintHolds`, `ConfirmedStays` and `NoFalseConfirmationHolds`
  from `MintInv`: what the flags and the record imply about what this
  process was told, and what was minted and confirmed here.
- `UnacceptedStaysPending` from `AcceptedInv`, under `RecordIsWritten` (neither
  `mid_mint` nor `record_lost` happens), whose absence `identity_mint_crash`
  shows; `UsesAreAccepted` under the same assumption, for `bootstrap_identity`
  and `create_recovery`.
- `AnnouncedOnlyOnArrivalHolds` from `Latched`: the latch is seeded with what the store
  holds and never reset within a process. That every arrival is announced is not part
  of it.

`FlowRegistryProofs` (from `FlowAssumption`, for any flows and syncs):

- `TypeCorrect`, and `LockHeld` and `Carried`: which sync has the machine, and that
  one carries owed queries and signals only in the sections that use them.
- `GivenStaysRegisteredHolds` from `Invited`: how each flow began and who may still
  name it (`Beginnings`), that an invitation under way is the only one of a flow the
  product does not have (`OneInvitation`, which is what makes `forget_flow` safe), and
  that nothing is invited that was given (`InvitedOnce`).
- `InvitationKeptHolds` with `Calling` and `Untaken`: a request of ours is registered
  by the one call that made it, and nobody takes a flow further before it was given.
- `NothingTwiceHolds` from `Once`: an unmarked record, a signal under way and a signal
  told exclude each other, and so do an unmarked record, a query owed and one asked
  (`OneCompletion`, `OneQuery`), of flows that are done (`Marks`, `Tidings`).
- `OwedQueryKeptHolds` and `CompletionKeptHolds`, with no assumption on the halves of a
  done: a confirmed flow whose done is halfway has its record or is torn (`Whole`), and
  what was torn stays so (`TornGrows`). Section 3 describes the sweep that tears one.
- `EvictionKeepsUpHolds`, the action property, from `NewlyDone`: a done flow that
  still owes its query became done in a sync that runs, or is a bare comparison.

`CodeExchangeProofs` (from `CodeAssumption` and `ScanAssumption`, for any flows, people,
offers and announcements and any number of comparisons and codes). The four properties
are proved under `OneCaller`, for a product that makes one call at a time while syncs
run: two calls for one flow may cache the older of two codes or look in between each
other's trips, and then the first and the last do not hold (section 3). Every step is
reduced once to what it does to the record, the calls and upstream (`StepIs`).

- `TypeCorrect`, also for concurrent calls, with `Handles`: whatever a record caches or
  a call is about to remember is of that flow and of that kind.
- `StageTellsLiveHolds` from `CodeInv`: of a flow nothing struck and whose code fits, the
  request and what it became are over together (`InStep`), a cached comparison is the
  last thing made (`LastMade`), and what is in force is cached or about to be unless
  the far side just offered it (`Cached`).
- `CancelHonestHolds` from `CancelSettled`, what the answer meant and still means: nothing
  a later step does brings a flow that is over back, or changes how it reads.
- `CasualtiesAreVisibleHolds` with `OldCode`: an earlier code the record may still have
  is in force as long as the later one is; what kills an arrival is live and visible, or
  was done with no sync begun since (`unswept`, typed by `SyncTyped`).
- `RefusalNamesCauseHolds` from `Negotiated`: what a record remembers of a negotiation is
  what the two sides said, which does not change once it is accepted (`MethodsLast`).

`ProcessProofs`, of the two statics of a process, the machine (from `HolderAssumption`)
and the signal channel (from `ChannelAssumption`); it extends both modules, which is why the
names of the channel's specification begin with `Channel`:

- `HolderInvariant`: who builds holds the lock and there is no machine; who is inside
  `with_machine` holds the machine there is; what is in a store came from a call that
  named its path. `RejectedCallsTouchNothing` follows with one conjunct more.
- `HolderKeepsPromise`: the refinement, the temporal formula `KeepsPromise` itself. The
  step lemma has one case per action; that a store nobody else names accepts the
  passphrase and account it was made with (`SoundPathIsOwn`) is what the abstract
  machine's "a sound configuration does not fail" rests on.
- `ChannelTypeCorrect` and `FlagTellsTruthHolds`, for any number of reloads and with the
  functions of every earlier copy, from `FlagInv`: copies that were not evaluated yet
  have neither listeners nor a flag, and an observer of an earlier copy has a smaller
  number than the copy that is reachable. What silences a copy is named (`silenced`).
- `LoyalListenersHearHolds` from `LoyalInv`: until its delivery the loyal listeners of
  an invitation are subscribed, and a delivery to the observer of an earlier copy has
  none, because behind a flag that is down the set is empty. Before a reload nobody was
  there for a bare start that is lost.

`RecoveryProofs` (from `RecoveryAssumption`, for any private keys, devices, keys of a
setup, routes, identities and relaunches):

- `TypeCorrect` with `Shape`: what the products hold is account data and entries of it.
- `AnswerMatchesDamageHolds`: by cases on the list, for any list, whoever wrote it, and
  any identity; the words are carried by the enum's order (`RecoveryWordsCross`).
- `ActsForLiveIdentityHolds` from `LiveInv`: what a device knows and holds was accepted
  unless it is pending, and was not replaced before the process began once a query was
  answered. An identity is new when it is minted, which is why an answer that was
  given in this process cannot name an old one.
- `RecoveryKeepsOpeningHolds`, the action property, from `CurrentInv`: a device nothing
  was written past holds the account data, or entries of one key merged with it of which
  the pointer is the last (`Underway`). So each PUT adds to what is there
  (`UnderwayKept`, `OpeningKept`), and the pointer moves when all that its key needs is
  written.

`RoomKeysProofs` (from `BackupAssumption` and `BundleAssumption`, for any keys,
versions, batches, members and bundles):

- `CountedIsHeldHolds` from `BackupInv`: the homeserver holds what it accepted, the
  batch upstream waits for is for the enabled version and the only one of its id, and
  with no version enabled every flag is one a relaunch or a restore left. That the
  least free id is free is `LeastId`, from the well-foundedness of finite subsets.
- `EvictedReadNothingHolds` from `EvictionInv`: who is leaving, or barred from a key or an
  event, is no member, is named by no share under way, and was given nothing of the key
  they are barred from; a session that is valid bars all who were leaving. The
  freshness of a rotated key is used once, when it is made.
- `ReceivedIsHeldHolds`: a refusal crosses as itself, and only a new install forgets.
- `HistoryComesBackHolds`: the action property, with the words `decrypt_event` takes.

`SenderTrustProofs` (from `SenderAssumption`):

- `GateSeparatesHolds`: for each kind the fields a success may hold are those the gate
  declares, and none marks a refusal (`SuccessFields`); what can come back is a
  success, mute or marked (`AnswersInv`).
- `VerdictsAreEarnedHolds` from `EarnedInv`: the chain backwards. A session or a
  status that reads verified rests on a signature an answer showed, that on one the
  homeserver stored, that on one that was queued, and that on a comparison; the words
  of `WordsAreKept` say that no other session data reads verified.

Only model-checked: all liveness, which is beyond TLAPS, as is `ENABLED`. No module has
a recursive operator.

## 5. Plan

Modelled as far as section 6 allows, and every invariant and action property the runs
check is the subject of a theorem; section 4 says under which hypotheses.

## 6. Not modelled

- What upstream does inside one call: Olm, Megolm, the store, the collection of
  recipients. Where a property depends on it, the definition is an external one,
  taken from how this crate uses it and what its comments say of it.
- Attachments, the oblivious pseudorandom function and the probe: functions of their
  arguments, which keep nothing.
- The conversion of arguments and records in `lib.rs`, the TypeScript facade and the
  rest of the generated bindings: one copy per field and one forwarded call per
  function. What of them could go wrong over several steps, the order of enums and
  the listener set, is in Bindings and SignalChannel.
- Contents: bodies, ciphertexts, passphrases, wording. A wrong passphrase of a vault,
  bytes damaged on the homeserver and fields that do not parse change no state.
- More than half of the lines of these files are comments and tests; a definition
  here stands for the code and, in an enum or a record, for the comments on its
  variants and fields.
