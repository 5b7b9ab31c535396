---------------------------- MODULE RoomKeysProofs ----------------------------
(***************************************************************************)
(* Proofs about KeyBackup and RoomKeys, for any keys, versions, batches,   *)
(* members, bundles and products.                                          *)
(***************************************************************************)
EXTENDS RoomKeys, FiniteSetTheorems, TLAPS

-----------------------------------------------------------------------------
(* The ids of batches.                                                     *)

\* A set of ids that is not empty has a least one.
LEMMA LeastId ==
    ASSUME NEW S, S \subseteq 1 .. MaxBatches, S # {}
    PROVE  \E i \in S : \A j \in S : i <= j
<1> DEFINE Ids == 1 .. MaxBatches
           UpTo(i) == {j \in S : j <= i}
           R == StrictSubsetOrdering(Ids)
<1>1. IsFiniteSet(Ids)
    BY BackupAssumption, FS_Interval
<1>2. IsWellFoundedOn(R, SUBSET Ids)
    BY <1>1, FS_StrictSubsetOrderingWellFounded, FS_FiniteSubsetsOfFinite
<1>3. PICK T \in {UpTo(i) : i \in S} : \A U \in {UpTo(i) : i \in S} : <<U, T>> \notin R
    <2>1. {UpTo(i) : i \in S} \subseteq SUBSET Ids /\ {UpTo(i) : i \in S} # {}
        OBVIOUS
    <2>2. QED
        BY <1>2, <2>1, WFMin
<1>4. PICK i \in S : T = UpTo(i)
    OBVIOUS
<1>5. ASSUME NEW j \in S, j < i
      PROVE  FALSE
    <2>1. S \subseteq Nat
        BY BackupAssumption
    <2>2. UpTo(j) \subseteq UpTo(i) /\ i \in UpTo(i) /\ i \notin UpTo(j)
        <3>1. \A n \in S : n <= j => n <= i
            BY <1>5, <2>1
        <3>2. i <= i /\ ~(i <= j)
            BY <1>5, <2>1
        <3>3. QED
            BY <3>1, <3>2
    <2>3. <<UpTo(j), UpTo(i)>> \in R
        BY <2>2 DEF StrictSubsetOrdering
    <2>4. QED
        BY <1>3, <1>4, <2>3
<1>6. S \subseteq Nat
    BY BackupAssumption
<1>7. QED
    BY <1>5, <1>6

\* A batch that is made has an id no batch in hand has, the version the backup
\* writes to, and keys of the store.
LEMMA NextBatchIsNew ==
    ASSUME BackupTypeOK, enabled # 0, FreeIds # {}, NEW b \in NextBatches
    PROVE  /\ b \in Batches /\ b.version = enabled
           /\ \A other \in taken \cup {pending_backup} : other.id # b.id
<1>1. FreeIds \subseteq 1 .. MaxBatches
    BY DEF FreeIds
<1>2. \E i \in FreeIds : \A j \in FreeIds : i <= j
    BY <1>1, LeastId
<1> DEFINE least == CHOOSE i \in FreeIds : \A j \in FreeIds : i <= j
<1>4. PICK some \in SUBSET keys : b = [id |-> least, version |-> enabled, keys |-> some]
    BY DEF NextBatches
<1>5. least \in FreeIds
    BY <1>2
<1> HIDE DEF least
<1>6. enabled \in Versions /\ some \in SUBSET Keys
    BY BackupAssumption DEF BackupTypeOK, Versions
<1>7. least \in 1 .. MaxBatches /\ least \notin {other.id : other \in taken \cup {pending_backup}}
    BY <1>5 DEF FreeIds
<1>8. QED
    BY <1>4, <1>6, <1>7 DEF Batches

-----------------------------------------------------------------------------
(* The backup.                                                             *)

\* The homeserver holds what it accepted, the batch upstream waits for is one for
\* the enabled version and the only one of its id, and with no version enabled
\* every flag is stray.
BackupInv ==
    /\ CountedIsHeld
    /\ \A b \in accepted : b.keys \subseteq holds[b.version]
    /\ pending_backup # NoBatch => enabled # 0 /\ pending_backup.version = enabled
    /\ \A b \in taken : b.id = pending_backup.id => b = pending_backup
    /\ enabled = 0 => Flagged \subseteq stray

\* The parts an action that changes keys and flags alone has to keep.
LEMMA FlagsKeep ==
    ASSUME BackupInv, BackupTypeOK', UNCHANGED <<process, taken, accepted, server, holds>>,
           \A k \in Flagged' : k \in holds[flag'[k]],
           \A k \in Flagged' : k \in stray' \/ (enabled # 0 /\ flag'[k] = enabled)
    PROVE  BackupInv'
BY DEF BackupInv, CountedIsHeld, process

LEMMA KeyArrivesKeeps ==
    ASSUME BackupInv, NEW k \in Keys, KeyArrives(k)
    PROVE  BackupInv'
<1>1. BackupTypeOK'
    BY DEF KeyArrives, BackupInv, CountedIsHeld, BackupTypeOK, Flagged, process, network
<1>2. QED
    BY <1>1, FlagsKeep DEF KeyArrives, BackupInv, CountedIsHeld, Flagged, network

LEMMA PublishVersionKeeps ==
    ASSUME BackupInv, PublishVersion
    PROVE  BackupInv'
<1>1. server + 1 \in 0 .. MaxVersion
    BY BackupAssumption DEF PublishVersion, BackupInv, CountedIsHeld, BackupTypeOK
<1>2. BackupTypeOK'
    BY <1>1 DEF PublishVersion, BackupInv, CountedIsHeld, BackupTypeOK, Flagged, process, store
<1>3. QED
    BY <1>2 DEF PublishVersion, BackupInv, CountedIsHeld, Flagged, process, store

LEMMA ForgetKeeps ==
    ASSUME BackupInv, Forget, UNCHANGED <<uses, keys, legacy, network, vault, restarts>>,
           enabled' \in 0 .. MaxVersion
    PROVE  BackupInv'
<1>1. Flagged' = {}
    BY DEF Forget, Flagged
<1>2. flag' \in [Keys -> 0 .. MaxVersion]
    BY BackupAssumption DEF Forget
<1>3. BackupTypeOK'
    BY <1>1, <1>2 DEF Forget, BackupInv, CountedIsHeld, BackupTypeOK, network
<1>4. \A b \in taken : b.id # 0
    BY BackupAssumption DEF BackupInv, CountedIsHeld, BackupTypeOK, Batches
<1>5. pending_backup' = NoBatch /\ pending_backup'.id = 0
    BY DEF Forget, NoBatch
<1>6. QED
    BY <1>1, <1>3, <1>4, <1>5 DEF BackupInv, CountedIsHeld, network

LEMMA EnableBackupKeeps ==
    ASSUME BackupInv, NEW v \in 1 .. server, EnableBackup(v)
    PROVE  BackupInv'
<1>1. v \in 1 .. MaxVersion
    BY BackupAssumption DEF BackupInv, CountedIsHeld, BackupTypeOK
<1>2. CASE enabled \notin {0, v}
    BY <1>1, <1>2, ForgetKeeps, BackupAssumption DEF EnableBackup
<1>3. CASE enabled \in {0, v}
    <2>1. UNCHANGED <<uses, keys, legacy, flag, stray, pending_backup, network, vault, restarts>>
        BY <1>3 DEF EnableBackup
    <2>2. enabled' = v /\ v # 0
        BY <1>1, BackupAssumption DEF EnableBackup
    <2>3. v \in 0 .. MaxVersion
        BY <1>1, BackupAssumption
    <2>4. BackupTypeOK'
        BY <2>1, <2>2, <2>3 DEF BackupInv, CountedIsHeld, BackupTypeOK, Flagged, network
    <2>5. pending_backup # NoBatch => pending_backup.version = v
        BY <1>3 DEF BackupInv
    <2>6. \A k \in Flagged \ stray : flag[k] = v
        BY <1>3, <2>2 DEF BackupInv, CountedIsHeld
    <2>7. QED
        BY <2>1, <2>2, <2>4, <2>5, <2>6 DEF BackupInv, CountedIsHeld, Flagged, network
<1>4. QED
    BY <1>2, <1>3

LEMMA DisableBackupKeeps ==
    ASSUME BackupInv, DisableBackup
    PROVE  BackupInv'
BY ForgetKeeps, BackupAssumption DEF DisableBackup

LEMMA TakeBatchKeeps ==
    ASSUME BackupInv, TakeBatch
    PROVE  BackupInv'
<1>1. BackupTypeOK /\ enabled # 0
    BY DEF BackupInv, CountedIsHeld, TakeBatch
<1>2. UNCHANGED <<uses, keys, legacy, flag, enabled, accepted, server, holds, vault,
                  restarts, stray>>
    BY DEF TakeBatch, store
<1>3. taken' = taken \cup {pending_backup'}
    BY DEF TakeBatch
<1>4. CASE pending_backup = NoBatch
    <2>1. FreeIds # {} /\ pending_backup' \in NextBatches
        BY <1>4 DEF TakeBatch
    <2>2. /\ pending_backup' \in Batches /\ pending_backup'.version = enabled
          /\ \A b \in taken : b.id # pending_backup'.id
        BY <1>1, <2>1, NextBatchIsNew
    <2>3. BackupTypeOK'
        BY <1>1, <1>2, <1>3, <2>2 DEF BackupTypeOK, Flagged
    <2>4. QED
        BY <1>1, <1>2, <1>3, <2>2, <2>3 DEF BackupInv, CountedIsHeld, Flagged
<1>5. CASE pending_backup # NoBatch
    <2>1. pending_backup' = pending_backup /\ pending_backup \in Batches
        BY <1>1, <1>5 DEF TakeBatch, BackupTypeOK
    <2>2. BackupTypeOK'
        BY <1>1, <1>2, <1>3, <2>1 DEF BackupTypeOK, Flagged
    <2>3. QED
        BY <1>2, <1>3, <2>1, <2>2 DEF BackupInv, CountedIsHeld, Flagged
<1>6. QED
    BY <1>4, <1>5

LEMMA UploadKeeps ==
    ASSUME BackupInv, NEW b \in taken, Upload(b)
    PROVE  BackupInv'
<1>1. b \in Batches /\ b.version \in Versions /\ b.keys \subseteq Keys /\ b.version = server
    BY DEF BackupInv, CountedIsHeld, BackupTypeOK, Batches, Upload
<1>2. /\ accepted' = accepted \cup {b}
      /\ UNCHANGED <<uses, keys, legacy, flag, enabled, pending_backup, taken, server, vault,
                     restarts, stray>>
    BY DEF Upload, store, process
<1>3. holds \in [Versions -> SUBSET Keys] /\ holds' = [holds EXCEPT ![server] = @ \cup b.keys]
    BY DEF BackupInv, CountedIsHeld, BackupTypeOK, Upload
<1>4. /\ holds' \in [Versions -> SUBSET Keys] /\ b.keys \subseteq holds'[b.version]
      /\ \A v \in Versions : holds[v] \subseteq holds'[v]
    BY <1>1, <1>3
<1>5. BackupTypeOK'
    BY <1>2, <1>4 DEF BackupInv, CountedIsHeld, BackupTypeOK, Flagged
<1>6. \A k \in Flagged : flag[k] \in Versions
    BY BackupAssumption
       DEF BackupInv, CountedIsHeld, BackupTypeOK, Flagged, Versions
<1>7. \A other \in accepted : other.version \in Versions
    BY DEF BackupInv, CountedIsHeld, BackupTypeOK, Batches
<1>8. QED
    BY <1>2, <1>4, <1>5, <1>6, <1>7 DEF BackupInv, CountedIsHeld, Flagged

LEMMA MarkSentKeeps ==
    ASSUME BackupInv, NEW b \in taken, MarkSent(b)
    PROVE  BackupInv'
<1>1. /\ b \in accepted /\ b \in Batches
      /\ taken' = taken \ {b} /\ accepted' = accepted \ {b}
      /\ UNCHANGED <<uses, keys, legacy, enabled, server, holds, vault, restarts, stray>>
    BY DEF MarkSent, BackupInv, CountedIsHeld, BackupTypeOK
<1>2. BackupTypeOK
    BY DEF BackupInv, CountedIsHeld
<1>3. CASE pending_backup.id # b.id
    <2>1. UNCHANGED <<flag, pending_backup>>
        BY <1>3 DEF MarkSent
    <2>2. BackupTypeOK'
        BY <1>1, <1>2, <2>1 DEF BackupTypeOK, Flagged
    <2>3. QED
        BY <1>1, <2>1, <2>2 DEF BackupInv, CountedIsHeld, Flagged
<1>4. CASE pending_backup.id = b.id
    <2>1. b = pending_backup
        BY <1>4 DEF BackupInv
    \* The batch that is marked is one for the enabled version.
    <2>2. enabled # 0 /\ b.version = enabled /\ b.keys \subseteq holds[enabled]
        <3>1. b # NoBatch
            BY <1>1, BackupAssumption DEF Batches, NoBatch
        <3>2. QED
            BY <1>1, <2>1, <3>1 DEF BackupInv
    <2>3. /\ flag' = [k \in Keys |-> IF k \in b.keys \cap keys THEN enabled ELSE flag[k]]
          /\ pending_backup' = NoBatch
        BY <1>4, <2>2 DEF MarkSent
    <2>4. flag' \in [Keys -> 0 .. MaxVersion]
        BY <1>2, <2>3 DEF BackupTypeOK
    <2>5. \A k \in Flagged' : \/ k \in b.keys \cap keys /\ flag'[k] = enabled
                              \/ k \in Flagged /\ flag'[k] = flag[k]
        BY <2>3 DEF Flagged
    <2>6. Flagged' \subseteq keys
        BY <1>2, <2>5 DEF BackupTypeOK
    <2>7. BackupTypeOK'
        BY <1>1, <1>2, <2>3, <2>4, <2>6 DEF BackupTypeOK
    <2>8. \A other \in taken : other.id # 0
        BY <1>2, BackupAssumption DEF BackupTypeOK, Batches
    <2>9. pending_backup'.id = 0
        BY <2>3 DEF NoBatch
    <2>10. QED
        BY <1>1, <2>2, <2>3, <2>5, <2>7, <2>8, <2>9 DEF BackupInv, CountedIsHeld
<1>5. QED
    BY <1>3, <1>4

LEMMA MarkFailedKeeps ==
    ASSUME BackupInv, NEW b \in taken, MarkFailed(b)
    PROVE  BackupInv'
<1>1. BackupTypeOK'
    BY DEF MarkFailed, BackupInv, CountedIsHeld, BackupTypeOK, Flagged, store, process
<1>2. QED
    BY <1>1 DEF MarkFailed, BackupInv, CountedIsHeld, Flagged, store, process

LEMMA RestoreBackupKeeps ==
    ASSUME BackupInv, NEW v \in Versions, NEW read \in SUBSET holds[v], RestoreBackup(v, read)
    PROVE  BackupInv'
<1> DEFINE new == read \ keys
<1>1. BackupTypeOK /\ new \subseteq Keys /\ v \in 0 .. MaxVersion /\ v # 0
    BY BackupAssumption DEF BackupInv, CountedIsHeld, BackupTypeOK, Versions
<1>2. /\ keys' = keys \cup new /\ legacy' = legacy \cup new
      /\ flag' = [k \in Keys |-> IF k \in new THEN v ELSE flag[k]]
      /\ stray' = IF v = enabled THEN stray ELSE stray \cup new
      /\ UNCHANGED <<uses, process, network, vault, restarts>>
    BY DEF RestoreBackup
<1>3. \A k \in Flagged' : \/ k \in new /\ flag'[k] = v
                          \/ k \in Flagged /\ flag'[k] = flag[k]
    BY <1>2 DEF Flagged
<1>4. flag' \in [Keys -> 0 .. MaxVersion]
    BY <1>1, <1>2 DEF BackupTypeOK
<1>5. Flagged' \subseteq keys'
    BY <1>1, <1>2, <1>3 DEF BackupTypeOK
<1>6. keys' \subseteq Keys /\ legacy' \subseteq keys' /\ stray' \subseteq keys'
    BY <1>1, <1>2 DEF BackupTypeOK
<1>7. BackupTypeOK'
    BY <1>1, <1>2, <1>4, <1>5, <1>6 DEF BackupTypeOK, process, network
<1>8. \A k \in Flagged' : k \in holds[flag'[k]]
    BY <1>3 DEF BackupInv, CountedIsHeld
<1>9. \A k \in Flagged' : k \in stray' \/ (enabled # 0 /\ flag'[k] = enabled)
    BY <1>1, <1>2, <1>3 DEF BackupInv, CountedIsHeld
<1>10. QED
    BY <1>2, <1>7, <1>8, <1>9, FlagsKeep DEF network

LEMMA CreateKeyVaultKeeps ==
    ASSUME BackupInv, CreateKeyVault
    PROVE  BackupInv'
<1>1. BackupTypeOK'
    BY DEF CreateKeyVault, BackupInv, CountedIsHeld, BackupTypeOK, Flagged, store, process, network
<1>2. QED
    BY <1>1, FlagsKeep DEF CreateKeyVault, BackupInv, CountedIsHeld, Flagged, store, network

\* Keys that come in without a flag.
LEMMA UnflaggedKeep ==
    ASSUME BackupInv, UNCHANGED <<uses, flag, process, network, vault, restarts, stray>>,
           NEW new \in SUBSET Keys, keys' = keys \cup new,
           legacy \subseteq legacy', legacy' \subseteq keys'
    PROVE  BackupInv'
<1>1. BackupTypeOK'
    BY DEF BackupInv, CountedIsHeld, BackupTypeOK, Flagged, process, network
<1>2. QED
    BY <1>1, FlagsKeep DEF BackupInv, CountedIsHeld, Flagged, network

LEMMA OpenKeyVaultKeeps ==
    ASSUME BackupInv, OpenKeyVault
    PROVE  BackupInv'
<1>1. vault \in SUBSET Keys /\ legacy \subseteq keys
    BY DEF BackupInv, CountedIsHeld, BackupTypeOK
<1>2. QED
    BY <1>1, UnflaggedKeep DEF OpenKeyVault

LEMMA RelaunchedKeeps ==
    ASSUME BackupInv, Relaunched, keys' \subseteq Keys, legacy' \subseteq keys',
           flag' \in [Keys -> 0 .. MaxVersion], stray' = Flagged', Flagged' \subseteq keys',
           \A k \in Flagged' : k \in Flagged /\ flag'[k] = flag[k]
    PROVE  BackupInv'
<1>1. /\ enabled' = 0 /\ pending_backup' = NoBatch /\ taken' = {} /\ accepted' = {}
      /\ UNCHANGED <<uses, server, holds, vault>>
    BY DEF Relaunched
<1>2. restarts' \in 0 .. MaxRestarts /\ 0 \in 0 .. MaxVersion
    BY BackupAssumption DEF Relaunched, BackupInv, CountedIsHeld, BackupTypeOK
<1>3. BackupTypeOK'
    BY <1>1, <1>2 DEF BackupInv, CountedIsHeld, BackupTypeOK
<1>4. QED
    BY <1>1, <1>3 DEF BackupInv, CountedIsHeld

LEMMA RelaunchKeeps ==
    ASSUME BackupInv, Relaunch
    PROVE  BackupInv'
<1>1. UNCHANGED <<keys, legacy, flag>> /\ stray' = Flagged /\ Relaunched
    BY DEF Relaunch, store
<1>2. Flagged' = Flagged
    BY <1>1 DEF Flagged
<1>3. QED
    BY <1>1, <1>2, RelaunchedKeeps DEF BackupInv, CountedIsHeld, BackupTypeOK

LEMMA ReinstallKeeps ==
    ASSUME BackupInv, Reinstall
    PROVE  BackupInv'
<1>1. keys' = {} /\ legacy' = {} /\ stray' = {} /\ Relaunched
    BY DEF Reinstall
<1>2. Flagged' = {} /\ flag' \in [Keys -> 0 .. MaxVersion]
    BY BackupAssumption DEF Reinstall, Flagged
<1>3. QED
    BY <1>1, <1>2, RelaunchedKeeps

\* A scope key that is made here, and what an import brings, come without a flag.
LEMMA ShareRoomKeyBackup ==
    ASSUME BackupInv, NEW k \in Keys, ShareRoomKey(k)
    PROVE  BackupInv'
<1>1. {k} \in SUBSET Keys /\ legacy \subseteq keys
    BY DEF BackupInv, CountedIsHeld, BackupTypeOK
<1>2. QED
    BY <1>1, UnflaggedKeep DEF ShareRoomKey

\* What an announcement names is a bundle.
OfferInv == offer # NoOffer => offer.bundle \in Bundles

LEMMA ReceiveBackup ==
    ASSUME BackupInv, OfferInv, ReceiveHistoryBundle
    PROVE  BackupInv'
<1>1. \E answer : \E new \in SUBSET Keys : Imports(answer, new)
    <2>1. \A error : Refuses(error) => \E answer : \E new \in SUBSET Keys : Imports(answer, new)
        BY DEF Refuses
    <2>2. CASE offer # NoOffer /\ offer.bundle = download /\ Imports("ok", download)
        BY <2>2, BundleAssumption DEF OfferInv
    <2>3. QED
        BY <2>1, <2>2 DEF ReceiveHistoryBundle
<1>2. /\ UNCHANGED <<uses, flag, process, network, vault, restarts, stray, legacy>>
      /\ \E new \in SUBSET Keys : keys' = keys \cup new
    BY <1>1 DEF Imports
<1>3. legacy \subseteq keys
    BY DEF BackupInv, CountedIsHeld, BackupTypeOK
<1>4. QED
    BY <1>2, <1>3, UnflaggedKeep

LEMMA OfferStep ==
    ASSUME OfferInv, [Next]_vars
    PROVE  OfferInv'
<1>1. ASSUME NEW trust \in SenderData, NEW bundle \in Bundles, Announce(trust, bundle)
      PROVE  OfferInv'
    BY <1>1 DEF Announce, OfferInv
<1>2. CASE StartOver
    BY <1>2 DEF StartOver, OfferInv
<1>3. CASE UNCHANGED offer
    BY <1>3 DEF OfferInv
<1>4. CASE BackupNext
    BY <1>3, <1>4 DEF BackupNext, Backup, history
<1>5. CASE RoomNext
    BY <1>3, <1>5
       DEF RoomNext, ShareScopeKey, ShareRoomKey, ClaimAnswered, RemoveMember,
           DiscardScopeKey, EncryptEvent, DecryptEvent, history
<1>6. CASE HistoryNext
    <2>1. ASSUME NEW bytes, Download(bytes)
          PROVE  UNCHANGED offer
        BY <2>1 DEF Download
    <2>2. CASE ReceiveHistoryBundle
        BY <1>3, <2>2 DEF ReceiveHistoryBundle, Refuses, Imports
    <2>3. CASE BuildHistoryBundle
        BY <1>3, <2>3 DEF BuildHistoryBundle
    <2>4. ASSUME NEW u \in Users, ShareHistoryBundle(u)
          PROVE  UNCHANGED offer
        BY <2>4 DEF ShareHistoryBundle, history
    <2>5. QED
        BY <1>1, <1>3, <1>6, <2>1, <2>2, <2>3, <2>4 DEF HistoryNext
<1>7. CASE UNCHANGED vars
    BY <1>3, <1>7 DEF vars, history
<1>8. QED
    BY <1>2, <1>4, <1>5, <1>6, <1>7 DEF Next

LEMMA BackupStep ==
    ASSUME BackupInv, OfferInv, [Next]_vars
    PROVE  BackupInv'
<1>1. CASE UNCHANGED backupVars
    BY <1>1
       DEF backupVars, store, process, network, BackupInv, CountedIsHeld, BackupTypeOK, Flagged
<1>2. CASE BackupNext
    BY <1>2, KeyArrivesKeeps, PublishVersionKeeps, EnableBackupKeeps, DisableBackupKeeps,
       TakeBatchKeeps, UploadKeeps, MarkSentKeeps, MarkFailedKeeps, RestoreBackupKeeps,
       CreateKeyVaultKeeps, OpenKeyVaultKeeps, RelaunchKeeps
       DEF BackupNext, Backup
<1>3. CASE RoomNext
    BY <1>1, <1>3, ShareRoomKeyBackup
       DEF RoomNext, ShareScopeKey, ClaimAnswered, RemoveMember, DiscardScopeKey,
           EncryptEvent, DecryptEvent
<1>4. CASE HistoryNext
    BY <1>1, <1>4, ReceiveBackup
       DEF HistoryNext, Announce, Download, BuildHistoryBundle, ShareHistoryBundle
<1>5. CASE StartOver
    BY <1>5, ReinstallKeeps DEF StartOver
<1>6. CASE UNCHANGED vars
    BY <1>1, <1>6 DEF vars
<1>7. QED
    BY <1>2, <1>3, <1>4, <1>5, <1>6 DEF Next

\* What the store counts as backed up is held by the homeserver, under the version
\* it was sent to, whatever batches were resent, replaced, lost or refused, and
\* after any restores, vaults and relaunches.
THEOREM CountedIsHeldHolds == Spec => []CountedIsHeld
<1>1. Init => BackupInv /\ OfferInv
    <2>1. SUFFICES ASSUME Init
                   PROVE  BackupInv /\ OfferInv
        OBVIOUS
    <2>2. Flagged = {} /\ flag \in [Keys -> 0 .. MaxVersion]
        BY <2>1, BackupAssumption DEF Init, BackupInit, Flagged
    <2>3. holds \in [Versions -> SUBSET Keys] /\ 0 \in 0 .. MaxVersion /\ 0 \in 0 .. MaxRestarts
        BY <2>1, BackupAssumption DEF Init, BackupInit
    <2>4. BackupTypeOK
        BY <2>1, <2>2, <2>3 DEF Init, BackupInit, BackupTypeOK
    <2>5. QED
        BY <2>1, <2>2, <2>4 DEF Init, BackupInit, BackupInv, CountedIsHeld, OfferInv
<1>2. BackupInv => CountedIsHeld
    BY DEF BackupInv
<1>3. QED
    BY <1>1, <1>2, OfferStep, BackupStep, PTL DEF Spec

-----------------------------------------------------------------------------
(* Evictions.                                                              *)

\* Who left, or is barred from a key or from what was encrypted, is no member and is
\* named by no share under way. Who is barred was given nothing of the key in use,
\* and while the session is valid everybody who left is barred.
EvictionInv ==
    /\ (leaving \cup barred) \cap (members \cup sharing) = {}
    /\ \A m \in sent : m.barred \cap (members \cup sharing) = {}
    /\ \A u \in barred : session.key \cap given[u] = {}
    /\ session.valid => leaving \subseteq barred
    /\ EvictedReadNothing
    /\ DOMAIN given = Users /\ members \subseteq Users
    /\ leaving \cup barred \subseteq Users /\ \A m \in sent : m.barred \subseteq Users

LEMMA EvictionStep ==
    ASSUME EvictionInv, [Next]_vars
    PROVE  EvictionInv'
<1>1. CASE UNCHANGED <<members, session, sharing, given, leaving, barred, sent>>
    BY <1>1 DEF EvictionInv, EvictedReadNothing
<1>2. ASSUME NEW users \in SUBSET Users, ShareScopeKey(users)
      PROVE  EvictionInv'
    <2>1. sharing' \subseteq members /\ UNCHANGED <<members, session, given, leaving, barred, sent>>
        BY <1>2 DEF ShareScopeKey
    <2>2. QED
        BY <2>1 DEF EvictionInv, EvictedReadNothing
<1>3. ASSUME NEW k \in Keys, ShareRoomKey(k)
      PROVE  EvictionInv'
    <2>1. /\ sharing' = {} /\ session'.key = {k} /\ barred' = leaving
          /\ UNCHANGED <<members, leaving, sent>>
          /\ session.valid => {k} = session.key
          /\ ~session.valid => \A u \in Users : k \notin given[u]
        BY <1>3 DEF ShareRoomKey
    <2>2. Recipients(sharing) \subseteq sharing
        BY DEF Recipients
    <2>3. \A u \in Users \ sharing : given'[u] = given[u]
        BY <1>3, <2>2 DEF ShareRoomKey
    <2>4. DOMAIN given' = Users
        BY <1>3 DEF ShareRoomKey, EvictionInv
    <2>5. \A u \in leaving : u \in Users \ sharing
        BY DEF EvictionInv
    <2>6. \A m \in sent : \A u \in m.barred : u \in Users \ sharing
        BY DEF EvictionInv
    <2>7. \A u \in leaving : session'.key \cap given'[u] = {}
        BY <2>1, <2>3, <2>5 DEF EvictionInv
    <2>8. EvictedReadNothing'
        BY <2>1, <2>3, <2>6 DEF EvictionInv, EvictedReadNothing
    <2>9. QED
        BY <2>1, <2>4, <2>7, <2>8 DEF EvictionInv
<1>4. ASSUME NEW u \in Users, RemoveMember(u)
      PROVE  EvictionInv'
    BY <1>4 DEF RemoveMember, EvictionInv, EvictedReadNothing
<1>5. CASE DiscardScopeKey
    <2>1. /\ session' = [session EXCEPT !.valid = FALSE]
          /\ leaving' = Users \ (members \cup sharing)
          /\ UNCHANGED <<members, sharing, given, barred, sent>>
        BY <1>5 DEF DiscardScopeKey
    <2>2. QED
        BY <2>1 DEF EvictionInv, EvictedReadNothing
<1>6. CASE EncryptEvent
    <2>1. /\ sent' = sent \cup {[key |-> session.key, barred |-> barred]}
          /\ UNCHANGED <<members, session, sharing, given, leaving, barred>>
        BY <1>6 DEF EncryptEvent
    <2>2. QED
        BY <2>1 DEF EvictionInv, EvictedReadNothing
<1>7. ASSUME NEW u \in Users, ShareHistoryBundle(u)
      PROVE  EvictionInv'
    \* It goes to a member, and nobody barred is one.
    <2>1. u \in members /\ UNCHANGED <<members, session, sharing, leaving, barred, sent>>
        BY <1>7 DEF ShareHistoryBundle
    <2>2. \A other \in Users \ {u} : given'[other] = given[other]
        BY <1>7 DEF ShareHistoryBundle, EvictionInv
    <2>3. DOMAIN given' = Users
        BY <1>7 DEF ShareHistoryBundle, EvictionInv
    <2>4. \A other \in barred : given'[other] = given[other]
        BY <2>1, <2>2 DEF EvictionInv
    <2>5. \A m \in sent : \A other \in m.barred : given'[other] = given[other]
        BY <2>1, <2>2 DEF EvictionInv
    <2>6. QED
        BY <2>1, <2>3, <2>4, <2>5 DEF EvictionInv, EvictedReadNothing
<1>8. CASE StartOver
    <2>1. /\ session'.key = {} /\ ~session'.valid /\ sharing' = {}
          /\ UNCHANGED <<members, given, leaving, barred, sent>>
        BY <1>8 DEF StartOver, NoSession
    <2>2. QED
        BY <2>1 DEF EvictionInv, EvictedReadNothing
<1>9. CASE BackupNext
    BY <1>1, <1>9 DEF BackupNext, Backup, room
<1>10. CASE RoomNext
    BY <1>1, <1>2, <1>3, <1>4, <1>5, <1>6, <1>10
       DEF RoomNext, ClaimAnswered, DecryptEvent, room
<1>11. CASE HistoryNext
    BY <1>1, <1>7, <1>11
       DEF HistoryNext, Announce, Download, ReceiveHistoryBundle, Refuses, Imports,
           BuildHistoryBundle, room
<1>12. CASE UNCHANGED vars
    BY <1>1, <1>12 DEF vars, room
<1>13. QED
    BY <1>8, <1>9, <1>10, <1>11, <1>12 DEF Next

\* A member who is removed before a rotation reads nothing encrypted from the next
\* share on, for any members, keys and shares, claims and bundles in between, and
\* whatever was encrypted between the two.
THEOREM EvictedReadNothingHolds == Spec => []EvictedReadNothing
<1>1. Init => EvictionInv
    BY DEF Init, EvictionInv, EvictedReadNothing, NoSession
<1>2. EvictionInv => EvictedReadNothing
    BY DEF EvictionInv
<1>3. QED
    BY <1>1, <1>2, EvictionStep, PTL DEF Spec

-----------------------------------------------------------------------------
(* Imports.                                                                *)

\* A word of an enum crosses as itself, and so never as another.
LEMMA WordCrosses ==
    ASSUME NEW enum, NEW w, NEW n \in DOMAIN enum, enum[n] = w
    PROVE  Crossed(enum, w) = w
BY DEF Crossed, LiftEnum, LowerEnum, Generated

\* A refusal of receive_history_bundle does not read as a success.
LEMMA RefusalIsNotOk ==
    ASSUME NEW error \in {"NoOffer", "SenderNotTrusted", "BundleUnreadable"}
    PROVE  Crossed(HistoryFfiError, error) # "ok"
<1>1. \E n \in DOMAIN HistoryFfiError : HistoryFfiError[n] = error
    BY DEF HistoryFfiError
<1>2. Crossed(HistoryFfiError, error) = error
    BY <1>1, WordCrosses
<1>3. QED
    BY <1>2

\* Only a new install forgets a key.
LEMMA KeysStay ==
    ASSUME [Next]_vars, ~StartOver
    PROVE  keys \subseteq keys'
<1>1. CASE UNCHANGED keys
    BY <1>1
<1>2. CASE BackupNext
    BY <1>2
       DEF BackupNext, Backup, KeyArrives, PublishVersion, EnableBackup, DisableBackup, TakeBatch,
           Upload, MarkSent, MarkFailed, RestoreBackup, CreateKeyVault, OpenKeyVault, Relaunch,
           store
<1>3. CASE RoomNext
    BY <1>3
       DEF RoomNext, ShareScopeKey, ShareRoomKey, ClaimAnswered, RemoveMember, DiscardScopeKey,
           EncryptEvent, DecryptEvent, backupVars, store
<1>4. CASE HistoryNext
    BY <1>4
       DEF HistoryNext, Announce, Download, ReceiveHistoryBundle, Refuses, Imports,
           BuildHistoryBundle, ShareHistoryBundle, backupVars, store
<1>5. CASE UNCHANGED vars
    BY <1>5 DEF vars, backupVars, store
<1>6. QED
    BY <1>2, <1>3, <1>4, <1>5 DEF Next

LEMMA ReceivedStep ==
    ASSUME ReceivedIsHeld, [Next]_vars
    PROVE  ReceivedIsHeld'
<1>1. CASE StartOver
    BY <1>1 DEF StartOver, Nothing, ReceivedIsHeld
<1>2. CASE ~StartOver /\ UNCHANGED received
    BY <1>2, KeysStay DEF ReceivedIsHeld
<1>3. CASE ReceiveHistoryBundle
    <2>1. ASSUME NEW error \in {"NoOffer", "SenderNotTrusted", "BundleUnreadable"}, Refuses(error)
          PROVE  ReceivedIsHeld'
        <3>1. received'.answer = Crossed(HistoryFfiError, error)
            BY <2>1 DEF Refuses, Imports
        <3>2. QED
            BY <3>1, RefusalIsNotOk DEF ReceivedIsHeld
    <2>2. CASE Imports("ok", download)
        BY <2>2 DEF Imports, ReceivedIsHeld
    <2>3. QED
        BY <1>3, <2>1, <2>2 DEF ReceiveHistoryBundle
<1>4. BackupNext \/ UNCHANGED vars => UNCHANGED received
    BY DEF BackupNext, Backup, vars, history
<1>5. RoomNext => UNCHANGED received
    BY DEF RoomNext, ShareScopeKey, ShareRoomKey, ClaimAnswered, RemoveMember, DiscardScopeKey,
           EncryptEvent, DecryptEvent, history
<1>6. HistoryNext => ReceiveHistoryBundle \/ UNCHANGED received
    BY DEF HistoryNext, Announce, Download, BuildHistoryBundle, ShareHistoryBundle, history
<1>7. QED
    BY <1>1, <1>2, <1>3, <1>4, <1>5, <1>6 DEF Next

\* An import reported as one is one, for any bundles and announcements, whichever
\* came last and whatever was downloaded for which.
THEOREM ReceivedIsHeldHolds == Spec => []ReceivedIsHeld
<1>1. Init => ReceivedIsHeld
    BY DEF Init, ReceivedIsHeld, Nothing
<1>2. QED
    BY <1>1, ReceivedStep, PTL DEF Spec

\* decrypt_event was asked for one of the three requirements.
OpenedInv == \A o \in opened : o.requirement \in Requirements

LEMMA OpenedStep ==
    ASSUME OpenedInv, [Next]_vars
    PROVE  OpenedInv'
<1>1. CASE UNCHANGED opened
    BY <1>1 DEF OpenedInv
<1>2. ASSUME NEW k \in Keys, NEW requirement \in Requirements, DecryptEvent(k, requirement)
      PROVE  OpenedInv'
    BY <1>2 DEF DecryptEvent, OpenedInv
<1>3. BackupNext \/ StartOver \/ UNCHANGED vars => UNCHANGED opened
    BY DEF BackupNext, Backup, StartOver, vars
<1>4. HistoryNext => UNCHANGED opened
    BY DEF HistoryNext, Announce, Download, ReceiveHistoryBundle, Refuses, Imports,
           BuildHistoryBundle, ShareHistoryBundle
<1>5. CASE RoomNext
    BY <1>1, <1>2, <1>5
       DEF RoomNext, ShareScopeKey, ShareRoomKey, ClaimAnswered, RemoveMember, DiscardScopeKey,
           EncryptEvent
<1>6. QED
    BY <1>1, <1>3, <1>4, <1>5 DEF Next

\* What a restore brings back opens again below the strictest requirement.
LEMMA RestoredOpens ==
    ASSUME NEW v \in Versions, RestoreBackup(v, holds[v]),
           NEW k \in holds[v] \ keys, NEW requirement \in Requirements \ {"IdentitySigned"}
    PROVE  Verdict(k, requirement)' = "opened"
<1>1. k \in keys' /\ k \in legacy'
    BY DEF RestoreBackup
<1>2. \E n \in DOMAIN SenderTrustRequirement : SenderTrustRequirement[n] = requirement
    BY DEF Requirements, SenderTrustRequirement
<1>3. Crossed(SenderTrustRequirement, requirement) = requirement
    BY <1>2, WordCrosses
<1>4. TrustRequirement(requirement) \in {"Untrusted", "CrossSignedOrLegacy"}
    BY DEF Requirements, TrustRequirement
<1>5. Trusted(k, TrustRequirement(requirement))'
    BY <1>1, <1>4 DEF Trusted
<1>6. QED
    BY <1>1, <1>3, <1>5 DEF Verdict

\* Every event this device opened and whose key a restore brings back opens again
\* under the requirement it was opened under, the strictest excepted.
THEOREM HistoryComesBackHolds == Spec => HistoryComesBack
<1>1. Init => OpenedInv
    BY DEF Init, OpenedInv
<1>2. ASSUME OpenedInv
      PROVE  \A v \in Versions :
                RestoreBackup(v, holds[v]) =>
                    \A o \in opened :
                        o.key \in holds[v] \ keys /\ o.requirement # "IdentitySigned" =>
                            Verdict(o.key, o.requirement)' = "opened"
    BY <1>2, RestoredOpens DEF OpenedInv
<1>3. QED
    BY <1>1, <1>2, OpenedStep, PTL DEF Spec, HistoryComesBack
=============================================================================
