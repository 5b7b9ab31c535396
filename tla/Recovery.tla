----------------------------- MODULE Recovery ------------------------------
(***************************************************************************)
(* Recovery of the account's private signing keys through its account      *)
(* data (recovery.rs): create_recovery and recover_identity, the product   *)
(* that reads the account data for them and writes the entries it is given *)
(* back one PUT at a time, and a homeserver that keeps what it is sent.    *)
(*                                                                         *)
(* An identity is a number, and the three private keys of one are held     *)
(* together.  A passphrase and the recovery key of the same setup are one  *)
(* secret.  The mint, the publication and the answers of SigningIdentity   *)
(* appear as what they leave behind for the gate here.                     *)
(***************************************************************************)
EXTENDS Bindings

CONSTANTS
    SECRETS,        \* the private keys, in the order of their entries
    Devices,        \* devices of the account that run this library
    KeyIds,         \* ids of the keys of this library's setups
    Theirs,         \* the key of another client's setup, without a passphrase block
    NoKey,          \* a pointer that was never written
    Cleared,        \* a pointer to which {} was written
    Routes,         \* how a product gets past RecoveryAlreadyExists
    MaxIdentities,  \* bound: identities this account has
    MaxRelaunches   \* bound: relaunches and reinstalls

Names == {SECRETS[i] : i \in DOMAIN SECRETS}

ASSUME RecoveryAssumption ==
    /\ SECRETS \in Seq(Names)
    /\ Theirs \notin KeyIds /\ NoKey # Cleared
    /\ {NoKey, Cleared} \cap (KeyIds \cup {Theirs}) = {}
    /\ Routes \subseteq {"as_read", "re-point", "clear", "revoke", "nothing"}
    /\ MaxIdentities \in Nat \ {0} /\ MaxRelaunches \in Nat

VARIABLES
    account,        \* the identity the homeserver holds, or 0
    accepted,       \* every identity it ever accepted
    minted,
    device,         \* what each store and process holds
    data,           \* the account data on the homeserver
    list,           \* the account data each product read last
    writing,        \* the entries it still has to PUT
    relaunches,
    \* Auxiliary.
    current,        \* devices whose list, or the setup made of it, nothing else was written past
    outdated        \* identities replaced before each process began

server == <<account, accepted, minted>>
ghosts == <<current, outdated>>
vars == <<server, device, data, list, writing, relaunches, ghosts>>

AllKeys == KeyIds \cup {Theirs}
Identities == 1 .. MaxIdentities

Blank == [fetched |-> FALSE, knows |-> 0, seeds |-> 0, pending |-> FALSE]
NoData == [pointer     |-> NoKey,
           description |-> [k \in AllKeys |-> "absent"],
           sealed      |-> [n \in Names |-> [k \in AllKeys |-> 0]]]
\* Another client's complete setup for identity 1.
TheirData == [pointer     |-> Theirs,
              description |-> [NoData.description EXCEPT ![Theirs] = "intact"],
              sealed      |-> [n \in Names |-> [k \in AllKeys |-> IF k = Theirs THEN 1 ELSE 0]]]
Idle == [entries |-> <<>>, route |-> "none", identity |-> 0]

Init ==
    /\ account \in {0, 1} /\ minted = account /\ accepted = {account} \ {0}
    /\ device = [d \in Devices |-> Blank]
    /\ data \in IF account = 0 THEN {NoData} ELSE {NoData, TheirData}
    /\ list = [d \in Devices |-> NoData]
    /\ writing = [d \in Devices |-> Idle]
    /\ relaunches = 0
    /\ current = {} /\ outdated = [d \in Devices |-> {}]

-----------------------------------------------------------------------------
(* What account data opens.                                                *)

\* The secret of key k opens these entries and brings back identity g, from the
\* format alone.
OpensWith(entries, k, g) ==
    /\ k \in AllKeys
    /\ entries.pointer = k
    /\ entries.description[k] = "intact"
    /\ \A n \in Names : entries.sealed[n][k] = g

Opens(entries, g) == \E k \in AllKeys : OpensWith(entries, k, g)

-----------------------------------------------------------------------------
(* The identity, as far as the gate goes.                                  *)

\* create_identity on a device that was told of no identity: one the homeserver has
\* yet to accept.
Mint(d) ==
    /\ minted < MaxIdentities
    /\ device[d].fetched /\ device[d].knows = 0
    /\ minted' = minted + 1
    /\ device' = [device EXCEPT ![d].knows = minted', ![d].seeds = minted', ![d].pending = TRUE]
    /\ UNCHANGED <<account, accepted, data, list, writing, relaunches, ghosts>>

\* The homeserver accepts an identity: the pending one of a device, or one with which
\* another client resets the account.
Accept(g) ==
    /\ account' = g
    /\ accepted' = accepted \cup {g}
    /\ UNCHANGED <<device, data, list, writing, relaunches, ghosts>>
Publish(d) ==
    /\ device[d].pending /\ account = 0
    /\ Accept(device[d].knows)
    /\ UNCHANGED minted
ResetElsewhere ==
    /\ account # 0 /\ minted < MaxIdentities
    /\ minted' = minted + 1
    /\ Accept(minted')

\* A key query about the account is answered: upstream stores the identity and drops
\* private keys of another one, and the record of a publication it confirms goes.
KeysAnswered(d) ==
    /\ device' = [device EXCEPT ![d] =
           IF account = 0 THEN [@ EXCEPT !.fetched = TRUE]
           ELSE [fetched |-> TRUE, knows |-> account, pending |-> FALSE,
                 seeds   |-> IF @.seeds = account THEN account ELSE 0]]
    /\ UNCHANGED <<server, data, list, writing, relaunches, ghosts>>

\* Self-verification brings the private keys from another device.
Join(d) ==
    /\ device[d].fetched /\ ~device[d].pending
    /\ device[d].knows = account /\ device[d].seeds = 0
    /\ device' = [device EXCEPT ![d].seeds = account]
    /\ UNCHANGED <<server, data, list, writing, relaunches, ghosts>>

\* The process dies with the product's loop, and the store with it or not.
Relaunch(d) ==
    /\ relaunches < MaxRelaunches
    /\ relaunches' = relaunches + 1
    /\ \/ device' = [device EXCEPT ![d].fetched = FALSE]
       \/ device' = [device EXCEPT ![d] = Blank]
    /\ list' = [list EXCEPT ![d] = NoData]
    /\ writing' = [writing EXCEPT ![d] = Idle]
    /\ current' = current \ {d}
    /\ outdated' = [outdated EXCEPT ![d] = accepted \ {account}]
    /\ UNCHANGED <<server, data>>

-----------------------------------------------------------------------------
(* Reading.                                                                *)

\* pointed_key_id: neither an absent pointer nor {} names a key.
PointedKey(entries) ==
    IF entries.pointer \in AllKeys THEN entries.pointer ELSE NoKey

\* The product reads the account data of this account.
ReadAccountData(d) ==
    /\ writing[d] = Idle
    /\ list' = [list EXCEPT ![d] = data]
    /\ current' = current \cup {d}
    /\ UNCHANGED <<server, device, data, writing, relaunches, outdated>>

\* Mutant of Refusal: the answered query is asked for only where no identity is
\* stored.
RefusalNested(d) ==
    IF device[d].fetched /\ device[d].pending THEN "IdentityNotKnown"
    ELSE IF ~device[d].fetched /\ device[d].knows = 0 THEN "AccountKeysNotFetched"
    ELSE "none"

\* The gate that create_recovery and recover_identity share.
Refusal(d) ==
    IF device[d].fetched /\ device[d].pending THEN "IdentityNotKnown"
    ELSE IF ~device[d].fetched THEN "AccountKeysNotFetched"
    ELSE "none"

-----------------------------------------------------------------------------
(* create_recovery.                                                        *)

\* What the product hands over of the list it read: all of it, all but the pointer,
\* or nothing.
Handed(d, route) ==
    CASE route \in {"as_read", "clear"} -> list[d]
      [] route \in {"re-point", "revoke"} -> [list[d] EXCEPT !.pointer = NoKey]
      [] route = "nothing" -> NoData

\* existing_ciphertexts: what the handed list holds of one secret.
ExistingCiphertexts(entries, n) == entries.sealed[n]

DescriptionEntry(k) == [type |-> "description", key |-> k]
PointerEntry(k) == [type |-> "default_key", key |-> k]
SecretEntry(n, ciphertexts) == [type |-> "secret", name |-> n, encrypted |-> ciphertexts]

\* The three secrets under key k, beside what was there.
Sealed(entries, k, g) ==
    [i \in DOMAIN SECRETS |->
        SecretEntry(SECRETS[i], [ExistingCiphertexts(entries, SECRETS[i]) EXCEPT ![k] = g])]

\* Mutant of Setup: the pointer goes first.
SetupPointerFirst(entries, k, g) ==
    <<PointerEntry(k), DescriptionEntry(k)>> \o Sealed(entries, k, g)

\* RecoverySetup::account_data: the description, the secrets, the pointer last.
Setup(entries, k, g) ==
    <<DescriptionEntry(k)>> \o Sealed(entries, k, g) \o <<PointerEntry(k)>>

\* What a product does to the entries before it writes them: to revoke the key it
\* replaces, it strips that key from the maps, and clears its description at the end.
ToWrite(d, route, entries) ==
    IF route # "revoke" THEN entries
    ELSE LET old == list[d].pointer IN
         [i \in DOMAIN entries |->
             IF entries[i].type = "secret" THEN [entries[i] EXCEPT !.encrypted[old] = 0]
             ELSE entries[i]]
         \o <<[type |-> "cleared_description", key |-> old]>>

Unused == {k \in KeyIds : /\ data.description[k] = "absent"
                          /\ \A d \in Devices : \A i \in DOMAIN writing[d].entries :
                                writing[d].entries[i].type = "description"
                                => writing[d].entries[i].key # k}

\* create_recovery, served: nothing is written before the product writes it.
CreateRecovery(d) ==
    /\ writing[d] = Idle
    /\ Refusal(d) = "none"
    /\ device[d].seeds # 0
    /\ \E route \in Routes, k \in Unused :
         /\ PointedKey(Handed(d, route)) = NoKey
         /\ route = "revoke" => PointedKey(list[d]) \in KeyIds
         /\ writing' = [writing EXCEPT ![d] =
                [route    |-> route,
                 identity |-> device[d].seeds,
                 entries  |-> ToWrite(d, route, Setup(Handed(d, route), k, device[d].seeds))]]
    /\ list' = [list EXCEPT ![d] = NoData]
    /\ UNCHANGED <<server, device, data, relaunches, ghosts>>

\* One account data event on the homeserver.
Put(entry) ==
    CASE entry.type = "description" -> [data EXCEPT !.description[entry.key] = "intact"]
      [] entry.type = "cleared_description" -> [data EXCEPT !.description[entry.key] = "cleared"]
      [] entry.type = "secret" -> [data EXCEPT !.sealed[entry.name] = entry.encrypted]
      [] entry.type = "default_key" -> [data EXCEPT !.pointer = entry.key]

\* The product writes the next entry.
PutNext(d) ==
    /\ writing[d].entries # <<>>
    /\ data' = Put(Head(writing[d].entries))
    /\ LET rest == Tail(writing[d].entries) IN
       writing' = [writing EXCEPT ![d] =
                      IF rest = <<>> THEN Idle ELSE [@ EXCEPT !.entries = rest]]
    /\ current' = IF writing'[d] = Idle THEN {} ELSE current \cap {d}
    /\ UNCHANGED <<server, device, list, relaunches, outdated>>

\* It is interrupted, and nothing of the setup is kept.
Interrupted(d) ==
    /\ writing[d] # Idle
    /\ writing' = [writing EXCEPT ![d] = Idle]
    /\ current' = current \ {d}
    /\ UNCHANGED <<server, device, data, list, relaunches, outdated>>

\* The other way past the refusal: {} over the pointer.
ClearPointer ==
    /\ "clear" \in Routes
    /\ data.pointer \in AllKeys
    /\ data' = [data EXCEPT !.pointer = Cleared]
    /\ current' = {}
    /\ UNCHANGED <<server, device, list, writing, relaunches, outdated>>

-----------------------------------------------------------------------------
(* recover_identity.                                                       *)

\* from_account_data: the check of a passphrase fails as a MAC; a description without
\* a passphrase block takes base58 only, whose own failures come before the MAC.
DecodeError(k, typed) ==
    IF k = Theirs /\ typed = "garbled" THEN "Base58" ELSE "Mac"

\* Mutant of Classify: the MAC and a wildcard.
ClassifyMacOnly(error) ==
    IF error = "Mac" THEN "RecoveryKeyIncorrect" ELSE "RecoveryDataMalformed"

\* classify_decode_error, of the errors a typed secret can cause.
Classify(error) ==
    IF error \in {"Mac", "Base58"} THEN "RecoveryKeyIncorrect" ELSE "RecoveryDataMalformed"

\* What of the list stops the secret typed, where the store knows g.
Obstacle(entries, typed, g) ==
    LET k == PointedKey(entries) IN
    CASE k = NoKey -> "RecoveryNotSetUp"
      [] k \in AllKeys ->
           CASE entries.description[k] = "absent" -> "RecoveryNotSetUp"
             [] entries.description[k] = "cleared" -> "RecoveryDataMalformed"
             [] entries.description[k] = "intact" ->
                  IF typed # k THEN Classify(DecodeError(k, typed))
                  ELSE IF \E n \in Names : entries.sealed[n][k] = 0 THEN "RecoveryNotSetUp"
                  ELSE IF \E n \in Names : entries.sealed[n][k] # g THEN "RecoveryDataMalformed"
                  ELSE "none"

\* What the product hears of each.
Heard == [error \in RecoveryErrors |-> Crossed(MachineFfiError, error)]

\* restore, from the list.
Restored(entries, typed, g) ==
    LET error == Obstacle(entries, typed, g) IN
    IF error = "none" THEN "ok" ELSE Heard[error]

Typed == AllKeys \cup {"garbled"}

\* recover_identity.
RecoverIdentity(d) ==
    /\ writing[d] = Idle
    /\ Refusal(d) = "none" /\ device[d].knows # 0
    /\ \E typed \in Typed : Restored(list[d], typed, device[d].knows) = "ok"
    /\ device' = [device EXCEPT ![d].seeds = device[d].knows]
    /\ UNCHANGED <<server, data, list, writing, relaunches, ghosts>>

-----------------------------------------------------------------------------
Next ==
    \/ ResetElsewhere \/ ClearPointer
    \/ \E d \in Devices :
         \/ Mint(d) \/ Publish(d) \/ KeysAnswered(d) \/ Join(d) \/ Relaunch(d)
         \/ ReadAccountData(d)
         \/ CreateRecovery(d) \/ PutNext(d) \/ Interrupted(d)
         \/ RecoverIdentity(d)

Spec == Init /\ [][Next]_vars

-----------------------------------------------------------------------------
(* Safety.                                                                 *)

TypeOK ==
    /\ account \in 0 .. MaxIdentities /\ minted \in 0 .. MaxIdentities
    /\ accepted \subseteq Identities
    /\ device \in [Devices -> [fetched : BOOLEAN, knows : 0 .. MaxIdentities,
                               seeds : 0 .. MaxIdentities, pending : BOOLEAN]]
    /\ data.pointer \in AllKeys \cup {NoKey, Cleared}
    /\ data.description \in [AllKeys -> {"absent", "intact", "cleared"}]
    /\ data.sealed \in [Names -> [AllKeys -> 0 .. MaxIdentities]]
    /\ DOMAIN writing = Devices /\ DOMAIN list = Devices
    /\ relaunches \in 0 .. MaxRelaunches
    /\ current \subseteq Devices
    /\ \A d \in Devices : Refusal(d) \in IdentityErrors \cup {"none"}

\* A write that may cost the account its recovery: one by a product that handed over
\* nothing or revokes a key, one whose list something was written past since, and one
\* by a device that has not seen its identity replaced.
Risky(d) ==
    \/ d \notin current
    \/ writing[d].route \in {"nothing", "revoke"}
    \/ writing[d].identity # account

\* The pointer is last and the ciphertexts are merged: while the account keeps its
\* identity, no PUT of a setup, and no interruption of one, takes away a recovery that
\* opens, unless the write is risky.
RecoveryKeepsOpening ==
    [][\/ ~Opens(data, account)
       \/ account' # account \/ data'.pointer = Cleared
       \/ Opens(data', account)
       \/ \E d \in Devices : writing'[d] # writing[d] /\ Risky(d)]_vars

\* What recover_identity answers to any secret, for the list a product holds: a secret
\* that opens it is served, damage is never reported of a list that some secret opens,
\* nor a wrong secret of the right one.  The remedy for the one destroys what the
\* other asks to retry.
AnswerMatchesDamage ==
    /\ TypeOK
    /\ \A d \in Devices : device[d].knows # 0 =>
          \A typed \in Typed :
              LET g == device[d].knows
                  answer == Restored(list[d], typed, g) IN
              /\ answer \in RecoveryErrors \cup {"ok"}
              /\ answer = "RecoveryDataMalformed" => ~Opens(list[d], g)
              /\ (answer = "ok") = OpensWith(list[d], typed, g)

\* No recovery is written for, and no private keys are imported for, an identity that
\* no homeserver accepted or that was replaced before this process began.
ActsForLiveIdentity ==
    [][\A d \in Devices :
         LET live == accepted \ outdated[d] IN
         /\ writing[d] = Idle /\ writing'[d] # Idle => writing'[d].identity \in live
         /\ minted' = minted /\ device'[d].seeds \notin {0, device[d].seeds} =>
              device'[d].seeds \in live]_vars
=============================================================================
