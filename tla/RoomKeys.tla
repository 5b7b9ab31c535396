------------------------------ MODULE RoomKeys ------------------------------
(***************************************************************************)
(* The keys of one scope beside their copies (KeyBackup): who this device  *)
(* shares them with, what it encrypts and opens (session.rs), and the      *)
(* history it hands over or takes in (history.rs).                         *)
(***************************************************************************)
EXTENDS KeyBackup, Bindings

CONSTANTS
    Users,          \* the other members, one device each
    SignedUsers,    \* those whose device is signed by its owner's identity
    SignedKeys,     \* keys that come from such a device
    Shareable,      \* keys made while the room's history was for newcomers too
    Bundles         \* history bundles: the sets of keys they carry

ASSUME BundleAssumption == Bundles \subseteq SUBSET Keys

VARIABLES
    members,        \* users the product has not removed
    sessions,       \* users this device has an Olm session with
    verified,       \* whether our own identity is verified
    session,        \* the outbound group session
    sharing,        \* share_scope_key under way: the users it names, or {}
    given,          \* user -> scope keys sent to its device
    leaving,        \* users removed before the last rotation
    barred,         \* those removed before the rotation the session was made after
    sent,           \* encrypted events: the key, and who was barred from it
    opened,         \* what decrypt_event opened last: the key and the requirement
    built,          \* Option of the bundle the product built last
    offer,          \* the announcement the last sync brought
    download,       \* what the product fetched for an announcement, or {}
    received        \* how the last receive_history_bundle ended

room == <<members, sessions, verified, session, sharing, given, leaving, barred, sent>>
history == <<built, offer, download, received>>
vars == <<backupVars, room, opened, history>>

NoSession == [key |-> {}, valid |-> FALSE]
NoOffer == [trust |-> "none"]
Altered == {"altered"}
Nothing == [answer |-> "none"]

Init ==
    /\ BackupInit
    /\ members = Users /\ sessions = {} /\ verified \in (IF "rooms" \in uses THEN BOOLEAN ELSE {FALSE})
    /\ session = NoSession /\ sharing = {} /\ given = [u \in Users |-> {}]
    /\ leaving = {} /\ barred = {} /\ sent = {} /\ opened = {}
    /\ built = {} /\ offer = NoOffer /\ download = {} /\ received = Nothing

-----------------------------------------------------------------------------
(* Sharing, rotating, encrypting.                                          *)

\* share_scope_key is called: its users are named before it gets the lock.
ShareScopeKey(users) ==
    /\ "rooms" \in uses /\ sharing = {} /\ users # {} /\ users \subseteq members
    /\ sharing' = users
    /\ UNCHANGED <<backupVars, members, sessions, verified, session, given, leaving, barred, sent,
                   opened, history>>

\* collect_strategy.
Strategy == IF verified THEN "IdentityBased" ELSE "AllDevices"
Recipients(users) ==
    IF Strategy = "IdentityBased" THEN users \cap SignedUsers ELSE users

\* share_room_key: the session is made where there is none to use, and its key
\* goes to those this device can encrypt to. The claim for the others is
\* queued. Every message is one the product will send.
ShareRoomKey(k) ==
    /\ sharing # {}
    /\ IF session.valid THEN {k} = session.key
       ELSE k \notin keys \cup UNION {given[u] : u \in Users} \cup session.key
                        \cup UNION {m.key : m \in sent}
    /\ session' = [key |-> {k}, valid |-> TRUE]
    /\ keys' = keys \cup {k}
    /\ given' = [u \in Users |-> IF u \in Recipients(sharing) \cap sessions
                                 THEN given[u] \cup {k} ELSE given[u]]
    /\ sharing' = {} /\ barred' = leaving
    /\ UNCHANGED <<uses, legacy, flag, process, network, vault, restarts, stray>>
    /\ UNCHANGED <<members, sessions, verified, leaving, sent, opened, history>>

\* The claim was answered: an Olm session exists.
ClaimAnswered(u) ==
    /\ "rooms" \in uses /\ u \notin sessions
    /\ sessions' = sessions \cup {u}
    /\ UNCHANGED <<backupVars, members, verified, session, sharing, given, leaving, barred,
                   sent, opened, history>>

\* The product removes a member.
RemoveMember(u) ==
    /\ "rooms" \in uses /\ u \in members
    /\ members' = members \ {u}
    /\ UNCHANGED <<backupVars, sessions, verified, session, sharing, given, leaving, barred, sent,
                   opened, history>>

\* Mutant of DiscardScopeKey: the answer without the rotation.
DiscardScopeKeyKept ==
    /\ "rooms" \in uses
    /\ leaving' = Users \ (members \cup sharing)
    /\ UNCHANGED <<backupVars, members, sessions, verified, session, sharing, given, barred,
                   sent, opened, history>>

\* discard_scope_key invalidates what there is; the next share_scope_key makes the
\* new session. A removed user leaves with it, unless a share under way names it.
DiscardScopeKey ==
    /\ "rooms" \in uses
    /\ session' = [session EXCEPT !.valid = FALSE]
    /\ leaving' = Users \ (members \cup sharing)
    /\ UNCHANGED <<backupVars, members, sessions, verified, sharing, given, barred, sent,
                   opened, history>>

\* encrypt_event asks for a session, not for a valid one: between a rotation and the
\* next share the key is still the old one.
EncryptEvent ==
    /\ session.key # {}
    /\ sent' = sent \cup {[key |-> session.key, barred |-> barred]}
    /\ UNCHANGED <<backupVars, members, sessions, verified, session, sharing, given, leaving,
                   barred, opened, history>>

-----------------------------------------------------------------------------
(* Opening what was received.                                              *)

\* Mutant of TrustRequirement: the tightened tiers are one.
TrustRequirementStrict(requirement) ==
    IF requirement = "Any" THEN "Untrusted" ELSE "CrossSigned"

\* decrypt_event: the caller's requirement, in upstream's words.
TrustRequirement(requirement) ==
    CASE requirement = "Any" -> "Untrusted"
      [] requirement = "IdentitySignedOrLegacy" -> "CrossSignedOrLegacy"
      [] requirement = "IdentitySigned" -> "CrossSigned"

\* A key that arrived is trusted as its sender's device is.
Trusted(k, trust) ==
    \/ trust = "Untrusted"
    \/ IF k \in legacy THEN trust = "CrossSignedOrLegacy" ELSE k \in SignedKeys

\* classify_megolm_error, as the product hears it.
Verdict(k, requirement) ==
    CASE k \notin keys -> Crossed(SessionFfiError, "MissingKey")
      [] k \in keys /\ ~Trusted(k, TrustRequirement(Crossed(SenderTrustRequirement, requirement))) ->
            Crossed(SessionFfiError, "SenderNotTrusted")
      [] OTHER -> "opened"

\* decrypt_event.
DecryptEvent(k, requirement) ==
    /\ "decrypt" \in uses
    /\ Verdict(k, requirement) = "opened"
    /\ opened' = {[key |-> k, requirement |-> requirement]}
    /\ UNCHANGED <<backupVars, room, history>>

-----------------------------------------------------------------------------
(* History.                                                                *)

\* build_history_bundle: what is held of the scope and may be handed on, under a
\* secret of its own. Nothing else changes; building again makes another bundle.
HistoryBundle == keys \cap Shareable
BuildHistoryBundle ==
    /\ "rooms" \in uses
    /\ built' = {HistoryBundle}
    /\ UNCHANGED <<backupVars, room, opened, offer, download, received>>

\* share_history_bundle, once the product has uploaded what it built: the
\* announcement goes to the devices a live key would go to, and who has it has the
\* keys. It may be made again, and every time it is a new message.
ShareHistoryBundle(u) ==
    /\ u \in members
    /\ \E bundle \in built :
          given' = IF u \in Recipients({u}) \cap sessions
                   THEN [given EXCEPT ![u] = @ \cup bundle] ELSE given
    /\ UNCHANGED <<backupVars, members, sessions, verified, session, sharing, leaving, barred,
                   sent, opened, history>>

\* A sync records somebody's announcement, over an earlier one.
Announce(trust, bundle) ==
    /\ "history" \in uses
    /\ offer' = [trust |-> trust, bundle |-> bundle]
    /\ UNCHANGED <<backupVars, room, opened, built, download, received>>

\* offered_history_bundle and the product's download, which may come altered.
Download(bytes) ==
    /\ offer # NoOffer /\ bytes \in {offer.bundle, Altered}
    /\ download' = bytes
    /\ UNCHANGED <<backupVars, room, opened, built, offer, received>>

Trusting == {"SenderUnverified", "SenderVerified"}
SenderData == Trusting \cup {"UnknownDevice", "DeviceInfo", "VerificationViolation"}

Imports(answer, new) ==
    /\ received' = [answer |-> answer, bundle |-> download]
    /\ keys' = keys \cup new
    /\ UNCHANGED <<uses, legacy, flag, process, network, vault, restarts, stray>>
    /\ UNCHANGED <<room, opened, built, offer, download>>

Refuses(error) == Imports(Crossed(HistoryFfiError, error), {})

\* Mutant of ReceiveHistoryBundle: the trust is left to upstream, which drops
\* the bundle and says Ok.
ReceiveHistoryBundleUnasked ==
    /\ "history" \in uses
    /\ \/ offer = NoOffer /\ Refuses("NoOffer")
       \/ offer # NoOffer /\ offer.bundle # download /\ Refuses("BundleUnreadable")
       \/ /\ offer # NoOffer /\ offer.bundle = download
          /\ Imports("ok", IF offer.trust \in Trusting THEN download ELSE {})

\* receive_history_bundle: the announcement in force is the one the bytes are
\* held against, whichever they were fetched for.
ReceiveHistoryBundle ==
    /\ "history" \in uses
    /\ \/ offer = NoOffer /\ Refuses("NoOffer")
       \/ /\ offer # NoOffer /\ offer.trust \notin Trusting
          /\ Refuses("SenderNotTrusted")
       \/ /\ offer # NoOffer /\ offer.trust \in Trusting /\ offer.bundle # download
          /\ Refuses("BundleUnreadable")
       \/ /\ offer # NoOffer /\ offer.trust \in Trusting /\ offer.bundle = download
          /\ Imports("ok", download)

-----------------------------------------------------------------------------
Backup(action) == action /\ UNCHANGED <<room, opened, history>>

\* Nothing of the store outlives it; the far sides keep what they were given.
StartOver ==
    /\ Reinstall
    /\ session' = NoSession /\ sessions' = {} /\ sharing' = {} /\ verified' = FALSE
    /\ built' = {} /\ offer' = NoOffer /\ download' = {} /\ received' = Nothing
    /\ UNCHANGED <<members, given, leaving, barred, sent, opened>>

BackupNext ==
    \/ \E k \in Keys : Backup(KeyArrives(k))
    \/ Backup(PublishVersion)
    \/ \E v \in 1 .. server : Backup(EnableBackup(v))
    \/ Backup(DisableBackup)
    \/ Backup(TakeBatch)
    \/ \E b \in taken : Backup(Upload(b)) \/ Backup(MarkSent(b)) \/ Backup(MarkFailed(b))
    \/ \E v \in Versions : \E read \in SUBSET holds[v] : Backup(RestoreBackup(v, read))
    \/ Backup(CreateKeyVault)
    \/ Backup(OpenKeyVault)
    \/ Backup(Relaunch)

RoomNext ==
    \/ \E users \in SUBSET Users : ShareScopeKey(users)
    \/ \E k \in Keys : ShareRoomKey(k)
    \/ \E u \in Users : ClaimAnswered(u) \/ RemoveMember(u)
    \/ DiscardScopeKey
    \/ EncryptEvent
    \/ \E k \in Keys, requirement \in Requirements : DecryptEvent(k, requirement)

HistoryNext ==
    \/ \E trust \in SenderData, bundle \in Bundles : Announce(trust, bundle)
    \/ \E bytes \in Bundles \cup {Altered} : Download(bytes)
    \/ ReceiveHistoryBundle
    \/ BuildHistoryBundle
    \/ \E u \in Users : ShareHistoryBundle(u)

Next == BackupNext \/ RoomNext \/ HistoryNext \/ StartOver

Spec == Init /\ [][Next]_vars

\* What backup.rs asks of the product: it drains, resolves what it took, and of
\* the sends it repeats one goes through in the end.
Fairness ==
    /\ WF_vars(Backup(TakeBatch))
    /\ SF_vars(\E b \in taken : b = pending_backup /\ b \notin accepted /\ Backup(Upload(b)))
    /\ WF_vars(\E b \in accepted : Backup(MarkSent(b)))
    /\ WF_vars(\E b \in taken \ {pending_backup} : Backup(MarkFailed(b)))

FairSpec == Spec /\ Fairness

-----------------------------------------------------------------------------
(* Properties.                                                             *)

\* Removing a member, rotating and sharing again is an eviction: no event encrypted
\* from that share on is readable with a key the member's device was ever given, live
\* or in a history bundle, however shares, claims, bundles and rotations interleave.
\* A share already under way that names the member makes the rotation void. What is
\* encrypted between the rotation and the share goes out under the session before it,
\* and bars only whom that one barred: less than discard_scope_key's "nothing
\* encrypted from here on can be read with the key already handed out".
EvictedReadNothing ==
    \A m \in sent : \A u \in m.barred : m.key \cap given[u] = {}

\* An import that is reported as one happened: the keys of the bundle that was
\* announced are held, where upstream alone would drop them and say Ok.
ReceivedIsHeld ==
    received.answer = "ok" => received.bundle \subseteq keys

\* What was readable and backed up is readable again: a full restore opens every
\* event whose key it brings back under the requirement this device opened it
\* under before, except the strictest, which is for products that import no history.
HistoryComesBack ==
    [][\A v \in Versions :
        RestoreBackup(v, holds[v]) =>
            \A o \in opened :
                o.key \in holds[v] \ keys /\ o.requirement # "IdentitySigned" =>
                    Verdict(o.key, o.requirement)' = "opened"]_vars
=============================================================================
