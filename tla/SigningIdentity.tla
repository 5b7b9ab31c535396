--------------------------- MODULE SigningIdentity ---------------------------
(***************************************************************************)
(* The account's cross-signing identity, seen from one device that runs    *)
(* the library: the gate of signing.rs, the judgement session.rs passes on *)
(* an answer about the account (answer_about_this_account), and the calls  *)
(* that act under the identity (bootstrap_identity, create_identity, the   *)
(* two of recovery.rs, request_self_flow).                                 *)
(*                                                                         *)
(* The store survives a restart, the process does not.  The homeserver     *)
(* holds one identity at a time, other clients of the account may publish  *)
(* theirs at any moment, and an answer describes the instant the server    *)
(* computed it.  Identities are numbered in the order they are minted and  *)
(* 0 is "none".  An answer or an upload that was sent may wait for as long *)
(* as it likes before it is reported.                                      *)
(*                                                                         *)
(* with_machine holds the machine lock for a whole closure, so a call is   *)
(* one action; create_identity is two, because the process may die between *)
(* the mint upstream stores and the record signing.rs stores, and          *)
(* request_self_flow is two, because it takes the lock for its check and   *)
(* again for its request.  mark_request_sent is two as well: the answer is *)
(* judged under the machine lock, the flag is set later under STATE.       *)
(***************************************************************************)
EXTENDS Naturals, FiniteSets

CONSTANTS
    MaxIdentities,    \* bound: identities minted in a behaviour
    MaxRestarts,      \* bound: restarts of the process
    Calls,            \* the calls this product makes
    AnswerKinds,      \* what a homeserver may answer
    Faults            \* what may go wrong besides restarts

Identities == 1 .. MaxIdentities
None == 0

AllCalls == {"bootstrap_identity", "create_identity", "create_recovery",
             "recover_identity", "request_self_flow"}

\* "nokeys": the account is named under device_keys and has no identity.
\* "omitted": the answer does not name the account at all.
\* "partial": a master key upstream stores nothing from.
AllAnswerKinds == {"full", "nokeys", "omitted", "partial"}

\* "mid_mint": the process may die between the mint and its record.
\* "record_lost": the record's own store write may fail.
\* "misreport": the product reports an upload the server never accepted.
AllFaults == {"mid_mint", "record_lost", "misreport"}

ASSUME IdentityAssumption ==
    /\ MaxIdentities \in Nat
    /\ MaxRestarts \in Nat
    /\ Calls \subseteq AllCalls
    /\ AnswerKinds \subseteq AllAnswerKinds
    /\ Faults \subseteq AllFaults

-----------------------------------------------------------------------------
VARIABLES
    \* The store: the public identity, the private keys and the record under
    \* UNPUBLISHED_IDENTITY_KEY.
    stored, private, record,
    \* The process.
    account_keys_answered,
    account_keys_answer_unsettled,
    asking,        \* an account key query is queued or on its way
    uploads,       \* identities whose signing-keys upload is unresolved
    minting,       \* create_identity between its mint and its record
    judged,        \* verdicts whose flag is not set yet
    checked,       \* request_self_flow has passed its check
    PRIVATE_KEYS_HELD,
    \* The homeserver and the rest of the account.
    server,        \* the identity it holds
    published,     \* every identity it ever accepted
    shown,         \* identities it saw in an upload, accepted or not
    theirs,        \* identities other clients minted
    answers,       \* answers computed and not reported yet
    recovery,      \* the identity the account's recovery restores
    minted,        \* how many identities exist
    restarts,
    \* Auxiliary: what the properties need to remember.
    sawNone,       \* this process was told the account has no identity
    confirmed,     \* identities an answer confirmed to this store
    mintedHere,    \* identities this store minted
    strayUses,     \* identities a call acted under before any server accepted
    lastLook       \* what the last look at the private keys found

store   == <<stored, private, record>>
flags   == <<account_keys_answered, account_keys_answer_unsettled>>
process == <<asking, uploads, minting, judged, checked, PRIVATE_KEYS_HELD>>
account == <<server, published, shown, theirs, answers, recovery, restarts>>
ghosts  == <<sawNone, confirmed, mintedHere, strayUses,
             lastLook>>
vars    == <<store, flags, process, account, minted, ghosts>>

Answer == [kind : AllAnswerKinds, id : 0 .. MaxIdentities]

Init ==
    /\ stored = None /\ private = None /\ record = None
    /\ account_keys_answered = FALSE
    /\ account_keys_answer_unsettled = FALSE
    /\ asking = TRUE        \* upstream asks about an account it does not track
    /\ uploads = {}
    /\ minting = None
    /\ judged = {}
    /\ checked = FALSE
    /\ PRIVATE_KEYS_HELD = FALSE
    /\ server = None
    /\ published = {} /\ shown = {} /\ theirs = {}
    /\ answers = {}
    /\ recovery = None
    /\ minted = 0
    /\ restarts = 0
    /\ sawNone = FALSE
    /\ confirmed = {} /\ mintedHere = {}
    /\ strayUses = {}
    /\ lastLook = "absent"

\* with_machine: nobody else is inside it.
MachineFree == minting = None

-----------------------------------------------------------------------------
(* read_status and the two rules of the gate.                              *)

\* identity_is_unpublished: the record names the identity held.
Pending == stored # None /\ record = stored

\* IdentityStatus, as read_status fills it in.
ReadStatus ==
    [account_keys_fetched          |-> account_keys_answered,
     identity_known                |-> stored # None,
     private_keys_held             |-> private # None,
     account_keys_answer_unsettled |-> account_keys_answer_unsettled,
     identity_publication_pending  |-> Pending]

\* Mutant of may_publish: an unconfirmed identity is this call's to publish.
may_publish_pending(status) ==
    IF ~status.account_keys_fetched THEN "AccountKeysNotFetched"
    ELSE IF ~status.identity_known THEN "IdentityNotKnown"
    ELSE IF ~status.private_keys_held THEN "IdentityAlreadyExists"
    ELSE "ok"

\* may_publish: "ok", or what the first condition that fails is called.
may_publish(status) ==
    IF ~status.account_keys_fetched THEN "AccountKeysNotFetched"
    ELSE IF ~status.identity_known \/ status.identity_publication_pending
         THEN "IdentityNotKnown"
    ELSE IF ~status.private_keys_held THEN "IdentityAlreadyExists"
    ELSE "ok"

\* may_create.
may_create(status) ==
    IF ~status.account_keys_fetched THEN "AccountKeysNotFetched"
    ELSE IF status.identity_known /\ ~status.identity_publication_pending
         THEN "IdentityAlreadyExists"
    ELSE "ok"

MayPublish == may_publish(ReadStatus) = "ok"
MayCreate  == may_create(ReadStatus) = "ok"

\* The gate recovery.rs and the self-verification doors share.
MayUse == account_keys_answered /\ ~Pending

\* Every refusal for want of an answer queues the query that lifts it.
Refuse(refusal) ==
    /\ asking' = (asking \/ refusal = "AccountKeysNotFetched")
    /\ UNCHANGED <<store, flags, uploads, minting, judged, checked,
                   PRIVATE_KEYS_HELD, account, minted, ghosts>>

-----------------------------------------------------------------------------
(* What a publication queues.                                              *)

QueuePublication(id) == uploads' = uploads \cup {id}

\* Mutant of QueueRepublication: the launch call hands over the signing keys again.
RepublicationWithKeys(id) == uploads' = uploads \cup {id}

\* queue_republication: everything except the signing keys.
QueueRepublication(id) == uploads' = uploads

Use(id) == strayUses' = strayUses \cup ({id} \ published)

(* bootstrap_identity: served, it signs this device under the identity.    *)
BootstrapIdentity ==
    /\ "bootstrap_identity" \in Calls
    /\ MachineFree
    /\ \/ /\ MayPublish
          /\ QueueRepublication(stored)
          /\ Use(stored)
          /\ UNCHANGED <<store, flags, asking, minting, judged, checked,
                         PRIVATE_KEYS_HELD, account, minted, sawNone, confirmed,
                         mintedHere, lastLook>>
       \/ ~MayPublish /\ Refuse(may_publish(ReadStatus))

\* Mutant of Mints: upstream is told to reset.
MintsAlways == TRUE

\* Upstream mints only where the private identity is empty, and otherwise
\* derives the same keys again.
Mints == private = None

\* create_identity up to bootstrap_cross_signing.
CreateIdentity ==
    /\ "create_identity" \in Calls
    /\ MachineFree
    /\ \/ /\ MayCreate
          /\ Mints
          /\ minted < MaxIdentities
          /\ minted' = minted + 1
          /\ stored' = minted'
          /\ private' = minted'
          /\ minting' = minted'
          /\ mintedHere' = mintedHere \cup {minted'}
          /\ UNCHANGED <<record, flags, asking, uploads, judged, checked,
                         PRIVATE_KEYS_HELD, account, sawNone, confirmed, strayUses,
                         lastLook>>
       \/ /\ MayCreate
          /\ ~Mints
          /\ minting' = private
          /\ UNCHANGED <<store, flags, asking, uploads, judged, checked,
                         PRIVATE_KEYS_HELD, account, minted, ghosts>>
       \/ ~MayCreate /\ Refuse(may_create(ReadStatus))

\* note_identity_minted: a write that fails is not reported.
NoteIdentityMinted ==
    \/ record' = stored
    \/ "record_lost" \in Faults /\ record' = record

\* create_identity from there: note_identity_minted, queue_publication and
\* the confirming query.
RecordAndPublish ==
    /\ minting # None
    /\ NoteIdentityMinted
    /\ QueuePublication(minting)
    /\ asking' = TRUE
    /\ minting' = None
    /\ UNCHANGED <<stored, private, flags, judged, checked, PRIVATE_KEYS_HELD,
                   account, minted, ghosts>>

\* create_recovery: refuses an account that has a recovery, then the gate.
CreateRecovery ==
    /\ "create_recovery" \in Calls
    /\ MachineFree
    /\ recovery = None
    /\ \/ /\ MayUse
          /\ private # None
          /\ recovery' = private
          /\ Use(private)
          /\ UNCHANGED <<store, flags, process, server, published, shown, theirs,
                         answers, restarts, minted, sawNone, confirmed,
                         mintedHere, lastLook>>
       \/ ~account_keys_answered /\ Refuse("AccountKeysNotFetched")

\* recover_identity: the seeds are checked against the public identity.
RecoverIdentity ==
    /\ "recover_identity" \in Calls
    /\ MachineFree
    /\ \/ /\ MayUse
          /\ stored # None
          /\ recovery = stored
          /\ private' = stored
          /\ UNCHANGED <<stored, record, flags, process, account, minted, ghosts>>
       \/ ~account_keys_answered /\ Refuse("AccountKeysNotFetched")

\* refuse_own_flow_until_the_identity_is_settled, in lock trips of its own.
CheckSelfFlow ==
    /\ "request_self_flow" \in Calls
    /\ MachineFree
    /\ ~checked
    /\ \/ /\ MayUse
          /\ checked' = TRUE
          /\ UNCHANGED <<store, flags, asking, uploads, minting, judged,
                         PRIVATE_KEYS_HELD, account, minted, ghosts>>
       \/ ~account_keys_answered /\ Refuse("AccountKeysNotFetched")

\* request_self_flow's own trip: the answer is checked again, the
\* publication is not. The request itself is FlowRegistry's.
RequestSelfFlow ==
    /\ checked
    /\ MachineFree
    /\ checked' = FALSE
    /\ UNCHANGED <<store, flags, asking, uploads, minting, judged,
                   PRIVATE_KEYS_HELD, account, minted, ghosts>>

-----------------------------------------------------------------------------
(* mark_request_sent with the answer to a key query about the account.     *)

\* Upstream stores an identity it can read whole, and nothing from any other
\* answer.
Learned(a) == IF a.kind = "full" THEN a.id ELSE stored

\* claims_an_identity: one of the answer's three maps names a key of the account.
Claims(a) == a.kind \in {"full", "partial"}

\* Mutants of Verdict: the empty maps of an answer that omits the account are
\* believed, and an identity this store holds contradicts "none" even when it
\* was never published.
VerdictUncovered(a) ==
    IF ~Claims(a)
    THEN IF stored = None \/ Pending THEN "Settled" ELSE "Unsettled"
    ELSE IF Learned(a) = a.id THEN "Settled" ELSE "Unsettled"
VerdictContradicted(a) ==
    IF ~Claims(a)
    THEN IF a.kind = "nokeys" /\ stored = None THEN "Settled" ELSE "Unsettled"
    ELSE IF Learned(a) = a.id THEN "Settled" ELSE "Unsettled"

\* answer_about_this_account: "none" settles the question if the answer named
\* the account and the store holds no identity the account really has; an
\* identity settles it if upstream now holds that one.
Verdict(a) ==
    IF ~Claims(a)
    THEN IF a.kind = "nokeys" /\ (stored = None \/ Pending)
         THEN "Settled" ELSE "Unsettled"
    ELSE IF Learned(a) = a.id THEN "Settled" ELSE "Unsettled"

\* Mutant of Confirms: the master key alone confirms a publication.
ConfirmsByMasterKey(a) == a.kind \in {"full", "partial"} /\ Learned(a) = a.id

\* note_identity_published is reached when the answer carries the identity
\* held with all three keys.
Confirms(a) == a.kind = "full" /\ Learned(a) = a.id

\* What is left of the record.
NoteIdentityPublished == None

\* The machine-lock section: upstream consumes the answer, drops a private
\* identity it contradicts (clear_if_differs), and the answer is judged.
Consume(a) ==
    /\ MachineFree
    /\ answers' = answers \ {a}
    /\ stored' = Learned(a)
    /\ private' = IF private = Learned(a) THEN private ELSE None
    /\ record' = IF Confirms(a) THEN NoteIdentityPublished ELSE record
    /\ judged' = judged \cup {Verdict(a)}
    /\ sawNone' = (sawNone \/ a.kind = "nokeys")
    /\ confirmed' = IF a.kind = "full" THEN confirmed \cup {a.id} ELSE confirmed
    /\ UNCHANGED <<flags, asking, uploads, minting, checked, PRIVATE_KEYS_HELD,
                   server, published, shown, theirs, recovery, restarts, minted,
                   mintedHere, strayUses, lastLook>>

\* The STATE section that follows.
SetFlag(verdict) ==
    /\ judged' = judged \ {verdict}
    /\ account_keys_answered' = (account_keys_answered \/ verdict = "Settled")
    /\ account_keys_answer_unsettled' =
         /\ ~account_keys_answered'
         /\ account_keys_answer_unsettled \/ verdict = "Unsettled"
    /\ UNCHANGED <<store, asking, uploads, minting, checked, PRIVATE_KEYS_HELD,
                   account, minted, ghosts>>

\* Mutant of ReportUpload: the report of an upload clears the record.
ReportUploadConfirming(id) ==
    /\ MachineFree
    /\ id \in published \/ "misreport" \in Faults
    /\ uploads' = uploads \ {id}
    /\ record' = None
    /\ UNCHANGED <<stored, private, flags, asking, minting, judged, checked,
                   PRIVATE_KEYS_HELD, account, minted, ghosts>>

\* mark_request_sent for a signing-keys upload: the request is resolved, and
\* deliberately nothing is concluded about the publication.
ReportUpload(id) ==
    /\ MachineFree
    /\ id \in published \/ "misreport" \in Faults
    /\ uploads' = uploads \ {id}
    /\ UNCHANGED <<store, flags, asking, minting, judged, checked,
                   PRIVATE_KEYS_HELD, account, minted, ghosts>>

-----------------------------------------------------------------------------
(* announce_state_changes, and the process.                                *)

\* note_private_keys_held: held_now && !swap(held_now) never stores false.
Announces == private # None /\ ~PRIVATE_KEYS_HELD

Look ==
    /\ MachineFree
    /\ PRIVATE_KEYS_HELD' = (PRIVATE_KEYS_HELD \/ private # None)
    /\ lastLook' = IF private = None THEN "absent"
                   ELSE IF Announces THEN "announced"
                   ELSE "present"
    /\ UNCHANGED <<store, flags, asking, uploads, minting, judged, checked,
                   account, minted, sawNone, confirmed, mintedHere,
                   strayUses>>

\* Mutant of Seed: the latch starts at its default in every process.
SeedFalse == FALSE

\* machine::build seeds the latch from the store it has just opened.
Seed == private # None

Restart ==
    /\ restarts < MaxRestarts
    /\ minting # None => "mid_mint" \in Faults
    /\ restarts' = restarts + 1
    /\ account_keys_answered' = FALSE
    /\ account_keys_answer_unsettled' = FALSE
    /\ asking' = FALSE
    /\ uploads' = {}
    /\ minting' = None
    /\ judged' = {}
    /\ checked' = FALSE
    /\ PRIVATE_KEYS_HELD' = Seed
    /\ answers' = {}
    /\ sawNone' = FALSE
    /\ lastLook' = IF private = None THEN "absent" ELSE "present"
    /\ UNCHANGED <<store, server, published, shown, theirs, recovery, minted,
                   confirmed, mintedHere, strayUses>>

-----------------------------------------------------------------------------
(* The homeserver, the rest of the account, and upstream on its own.       *)

ServerAnswer(kind) ==
    CASE kind = "full"    -> {[kind |-> kind, id |-> i] : i \in {server} \ {None}}
      [] kind = "nokeys"  -> {[kind |-> kind, id |-> None] : i \in {server} \cap {None}}
      [] kind = "omitted" -> {[kind |-> kind, id |-> None]}
      [] kind = "partial" -> {[kind |-> kind, id |-> i] : i \in shown}

ServerAnswers(kind) ==
    /\ asking
    /\ \E a \in ServerAnswer(kind) : answers' = answers \cup {a}
    /\ asking' = FALSE
    /\ UNCHANGED <<store, flags, uploads, minting, judged, checked,
                   PRIVATE_KEYS_HELD, server, published, shown, theirs, recovery,
                   restarts, minted, ghosts>>

\* The upload replaces whatever identity the account has; its response may be
\* lost, and the product may send it again.
ServerAccepts(id) ==
    /\ server' = id
    /\ published' = published \cup {id}
    /\ shown' = shown \cup {id}
    /\ UNCHANGED <<store, flags, process, theirs, answers, recovery, restarts,
                   minted, ghosts>>

\* The user-interactive challenge.
ServerRefuses(id) ==
    /\ shown' = shown \cup {id}
    /\ UNCHANGED <<store, flags, process, server, published, theirs, answers,
                   recovery, restarts, minted, ghosts>>

\* Another client signs the account up, or resets its identity.
OthersPublish ==
    /\ minted < MaxIdentities
    /\ minted' = minted + 1
    /\ server' = minted'
    /\ published' = published \cup {minted'}
    /\ theirs' = theirs \cup {minted'}
    /\ UNCHANGED <<store, flags, process, shown, answers, recovery, restarts,
                   ghosts>>

\* A device list change makes upstream ask about the account by itself.
Volunteer ==
    /\ ~asking
    /\ asking' = TRUE
    /\ UNCHANGED <<store, flags, uploads, minting, judged, checked,
                   PRIVATE_KEYS_HELD, account, minted, ghosts>>

\* Secret gossip: another client that holds the identity sends its keys,
\* which upstream imports if they match the public identity.
SecretsArrive ==
    /\ MachineFree
    /\ private = None /\ stored \in theirs
    /\ private' = stored
    /\ UNCHANGED <<stored, record, flags, process, account, minted, ghosts>>

-----------------------------------------------------------------------------
Next ==
    \/ BootstrapIdentity
    \/ CreateIdentity
    \/ RecordAndPublish
    \/ CreateRecovery
    \/ RecoverIdentity
    \/ CheckSelfFlow
    \/ RequestSelfFlow
    \/ \E a \in answers : Consume(a)
    \/ \E verdict \in judged : SetFlag(verdict)
    \/ \E id \in uploads : \/ ReportUpload(id)
                           \/ ServerAccepts(id)
                           \/ ServerRefuses(id)
    \/ Look
    \/ Restart
    \/ \E kind \in AnswerKinds : ServerAnswers(kind)
    \/ OthersPublish
    \/ Volunteer
    \/ SecretsArrive

Spec == Init /\ [][Next]_vars

\* What the documented remedy assumes: the product drains, sends and reports,
\* its user decides to finish signing up, the server accepts what it is sent
\* and does not answer for ever without saying what it holds.  The machine
\* lock is tokio's Mutex, which is fair, so a call that waits for it gets it:
\* strong fairness.
Fairness ==
    /\ SF_vars(CreateIdentity)
    /\ \A i \in 0 .. MaxIdentities :
          SF_vars(\E a \in answers : a.id = i /\ a.kind # "omitted" /\ Consume(a))
    /\ WF_vars(RecordAndPublish)
    /\ WF_vars("Settled" \in judged /\ SetFlag("Settled"))
    /\ SF_vars(\E kind \in {"full", "nokeys"} : ServerAnswers(kind))
    /\ WF_vars(\E id \in uploads : id # server /\ ServerAccepts(id))

FairSpec == Spec /\ Fairness

-----------------------------------------------------------------------------
(* Properties.                                                             *)

StoreOK ==
    /\ stored \in 0 .. minted
    /\ private \in {None, stored}
    /\ record \in 0 .. minted

ProcessOK ==
    /\ account_keys_answered \in BOOLEAN
    /\ account_keys_answer_unsettled \in BOOLEAN
    /\ asking \in BOOLEAN
    /\ uploads \subseteq 1 .. minted
    /\ minting \in {None, private}
    /\ judged \subseteq {"Settled", "Unsettled"}
    /\ checked \in BOOLEAN
    /\ PRIVATE_KEYS_HELD \in BOOLEAN

AccountOK ==
    /\ server \in 0 .. minted
    /\ published \subseteq 1 .. minted
    /\ shown \subseteq 1 .. minted
    /\ theirs \subseteq published
    /\ answers \subseteq [kind : AllAnswerKinds, id : 0 .. minted]
    /\ recovery \in 0 .. minted
    /\ minted \in 0 .. MaxIdentities
    /\ restarts \in 0 .. MaxRestarts

GhostsOK ==
    /\ sawNone \in BOOLEAN
    /\ confirmed \subseteq 0 .. minted
    /\ mintedHere \subseteq 1 .. minted
    /\ strayUses \subseteq 0 .. minted
    /\ lastLook \in {"absent", "present", "announced"}

\* The store, the process and the account hold what their fields may hold.
TypeOK == StoreOK /\ ProcessOK /\ AccountOK /\ GhostsOK

\* identity_publication_pending is "true from create_identity until a
\* homeserver's own answer carries that identity back, and it survives a
\* relaunch": an identity the store holds and no server ever accepted has its
\* record, whatever was reported, lost or answered in between.
UnacceptedIsPending ==
    MachineFree /\ stored # None /\ stored \notin published => Pending

\* No call treats an identity as the account's that no homeserver accepted:
\* no launch republishes it and no recovery restores it.
UsesAccepted == strayUses = {}

\* Minting is only ever reached in a process that was told by an answer
\* covering the account that it has no identity: no omission, no partial
\* identity and no answer of an earlier process authorises it.
MintsOnlyAfterNone == [][mintedHere' # mintedHere => sawNone]_vars

\* Finishing an interrupted sign-up publishes the same identity: one store
\* never mints a second one, however often create_identity is called and
\* whatever the answers in between were.
OneMint == Cardinality(mintedHere) <= 1

\* Once an answer has confirmed an identity to this store, no later call
\* queues its signing keys again, so nothing the product may call on every
\* launch can put an identity back over one that replaced it.
ConfirmedNeverRequeued ==
    [][\A id \in uploads' \ uploads : id \notin confirmed]_vars

\* A record is cleared only when the server holds or held the identity it
\* names: a report about an upload proves nothing.
NoFalseConfirmation ==
    [][record # None /\ record' = None => record \in published \/ stored' # stored]_vars

\* note_private_keys_held, "true exactly once per arrival": keys that were
\* there at the last look, or that the process opened its store with, are
\* not announced again.
AnnouncedOnlyOnArrival ==
    [][lastLook' = "announced" /\ lastLook # "absent" => UNCHANGED lastLook]_vars

\* An interrupted sign-up does not brick the account: with an honest server
\* and a user who decides to finish, the identity is published and confirmed
\* in the end, whatever restarts interrupted it.
InterruptedSignUpFinishes == Pending ~> ~Pending
=============================================================================
