----------------------------- MODULE KeyBackup -----------------------------
(***************************************************************************)
(* The copies of a device's scope keys: the backup on the homeserver       *)
(* (backup.rs and the batch take_outgoing_requests asks upstream for) and  *)
(* the vault (vault.rs).                                                   *)
(*                                                                         *)
(* The store remembers of each key that a copy went up, the process which  *)
(* version it writes to and the one batch in flight.  The homeserver holds *)
(* one current version and refuses a batch for another.  A scope key is    *)
(* held or not: a better copy of a held key is not told from it.           *)
(*                                                                         *)
(* Every call is one lock trip and one action here.  The registry of ids   *)
(* is RequestPump's: a batch is answerable while the product has it.       *)
(***************************************************************************)
EXTENDS Naturals, FiniteSets

CONSTANTS
    Keys,           \* scope keys that ever exist
    BatchSize,      \* how many of them one batch carries
    Features,       \* what the product uses: see uses
    MaxVersion,     \* bound: backup versions ever published
    MaxBatches,     \* bound: batches the product has at once
    MaxRestarts     \* bound: relaunches and reinstalls

ASSUME BackupAssumption ==
    /\ BatchSize \in Nat \ {0} /\ MaxBatches \in Nat \ {0}
    /\ MaxVersion \in Nat /\ MaxRestarts \in Nat

VARIABLES
    uses,           \* the features of this product
    \* The store.
    keys,
    legacy,         \* keys whose copy came out of a backup or a vault, which does
                    \* not say who sent it
    flag,           \* key -> the version it is flagged as backed up for, or 0;
                    \* the store keeps the flag only
    \* The process.
    enabled,        \* BackupState::version, or 0
    pending_backup, \* upstream's one batch
    \* The product and the homeserver.
    taken,          \* batches the product took and has not resolved
    accepted,       \* those the homeserver answered
    server,         \* its current version, or 0
    holds,          \* version -> the keys it holds copies of
    vault,          \* the keys in the file create_key_vault made
    restarts,
    stray           \* keys flagged for what was not the enabled version

store == <<keys, legacy, flag>>
process == <<enabled, pending_backup>>
network == <<taken, accepted, server, holds>>
backupVars == <<uses, store, process, network, vault, restarts, stray>>

NoBatch == [id |-> 0]
Versions == 1 .. MaxVersion
Flagged == {k \in Keys : flag[k] # 0}

BackupInit ==
    /\ uses \in Features
    /\ keys = {} /\ legacy = {} /\ flag = [k \in Keys |-> 0]
    /\ enabled = 0 /\ pending_backup = NoBatch
    /\ taken = {} /\ accepted = {} /\ server = 0 /\ holds = [v \in Versions |-> {}]
    /\ vault = {} /\ restarts = 0 /\ stray = {}

-----------------------------------------------------------------------------
(* What the device has to back up, and where to.                           *)

\* A sync brings a key to this device.
KeyArrives(k) ==
    /\ "backup" \in uses /\ k \notin keys
    /\ keys' = keys \cup {k}
    /\ UNCHANGED <<uses, legacy, flag, process, network, vault, restarts, stray>>

\* create_backup and the product's own request, or those of another device: the
\* homeserver gives out the next version.
PublishVersion ==
    /\ "backup" \in uses /\ server < MaxVersion
    /\ server' = server + 1
    /\ UNCHANGED <<uses, store, process, taken, accepted, holds, vault, restarts, stray>>

\* reset_backup_state, and the batch that goes with it.
Forget ==
    /\ flag' = [k \in Keys |-> 0] /\ stray' = {}
    /\ pending_backup' = NoBatch

\* Mutant of EnableBackup: the batch in flight stays.
EnableBackupOverBatch(v) ==
    /\ server # 0
    /\ enabled' = v
    /\ UNCHANGED <<uses, store, stray, pending_backup, network, vault, restarts>>

\* enable_backup, which moves to another version by disabling the one it is on.
EnableBackup(v) ==
    /\ server # 0
    /\ enabled' = v
    /\ IF enabled \notin {0, v} THEN Forget ELSE UNCHANGED <<flag, stray, pending_backup>>
    /\ UNCHANGED <<uses, keys, legacy, network, vault, restarts>>

\* disable_backup, which resets the flags whether or not a version is enabled.
DisableBackup ==
    /\ enabled' = 0
    /\ Forget
    /\ UNCHANGED <<uses, keys, legacy, network, vault, restarts>>

-----------------------------------------------------------------------------
(* The batch.                                                              *)

\* BackupMachine::backup: the pending batch, or one made of what is not flagged.
FreeIds == (1 .. MaxBatches) \ {b.id : b \in taken \cup {pending_backup}}
NextBatches ==
    LET owed == keys \ Flagged IN
    {[id |-> CHOOSE i \in FreeIds : \A j \in FreeIds : i <= j,
      version |-> enabled, keys |-> some] :
        some \in {s \in SUBSET owed : /\ s # {}
                                      /\ \/ Cardinality(s) = BatchSize
                                         \/ s = owed /\ Cardinality(s) < BatchSize}}

\* take_outgoing_requests, as far as the backup goes: asked only when enabled.
TakeBatch ==
    /\ enabled # 0
    /\ IF pending_backup = NoBatch
       THEN FreeIds # {} /\ pending_backup' \in NextBatches
       ELSE UNCHANGED pending_backup
    /\ taken' = taken \cup {pending_backup'}
    /\ UNCHANGED <<uses, store, enabled, accepted, server, holds, vault, restarts, stray>>

\* PUT room_keys/keys, for the current version only. The answer may get lost.
Upload(b) ==
    /\ b \in taken /\ b.version = server
    /\ holds' = [holds EXCEPT ![server] = @ \cup b.keys]
    /\ accepted' = accepted \cup {b}
    /\ UNCHANGED <<uses, store, process, taken, server, vault, restarts, stray>>

\* mark_request_sent: upstream flags the keys of the batch it waits for, and
\* only of that one.
MarkSent(b) ==
    /\ b \in accepted
    /\ taken' = taken \ {b} /\ accepted' = accepted \ {b}
    /\ IF pending_backup.id = b.id
       THEN /\ flag' = [k \in Keys |-> IF k \in b.keys \cap keys THEN b.version ELSE flag[k]]
            /\ pending_backup' = NoBatch
       ELSE UNCHANGED <<flag, pending_backup>>
    /\ UNCHANGED <<uses, keys, legacy, enabled, server, holds, vault, restarts, stray>>

\* mark_request_failed writes nothing; the product drops what the homeserver
\* refused or did not answer, and gets it back where it is still pending.
MarkFailed(b) ==
    /\ b \in taken \ accepted
    /\ taken' = taken \ {b}
    /\ UNCHANGED <<uses, store, process, accepted, server, holds, vault, restarts, stray>>

-----------------------------------------------------------------------------
(* Getting keys back, and the vault.                                       *)

\* restore_backup with the right key of what version v holds: an entry that
\* does not decrypt is skipped, and nothing at all is refused as WrongKey.
RestoreBackup(v, read) ==
    LET new == read \ keys IN
    /\ read \subseteq holds[v] /\ read # {}
    /\ keys' = keys \cup new /\ legacy' = legacy \cup new
    /\ flag' = [k \in Keys |-> IF k \in new THEN v ELSE flag[k]]
    /\ stray' = IF v = enabled THEN stray ELSE stray \cup new
    /\ UNCHANGED <<uses, process, network, vault, restarts>>

\* create_key_vault.
CreateKeyVault ==
    /\ "vault" \in uses
    /\ vault' = keys
    /\ UNCHANGED <<uses, store, process, network, restarts, stray>>

\* Mutant of OpenKeyVault: what it imports is taken for backed up, as
\* restore_backup's is.
OpenKeyVaultAsBackup ==
    /\ keys' = keys \cup vault /\ legacy' = legacy \cup (vault \ keys)
    /\ flag' = [k \in Keys |-> IF k \in vault \ keys THEN enabled ELSE flag[k]]
    /\ UNCHANGED <<uses, process, network, vault, restarts, stray>>

\* open_key_vault with the right passphrase: from no backup, so not flagged.
OpenKeyVault ==
    /\ keys' = keys \cup vault /\ legacy' = legacy \cup (vault \ keys)
    /\ UNCHANGED <<uses, flag, process, network, vault, restarts, stray>>

\* The process is gone, and with it which version was enabled; the flags are
\* not. What was on the wire stays unanswered.
Relaunched ==
    /\ restarts < MaxRestarts /\ restarts' = restarts + 1
    /\ enabled' = 0 /\ pending_backup' = NoBatch
    /\ taken' = {} /\ accepted' = {}
    /\ UNCHANGED <<uses, server, holds, vault>>

Relaunch ==
    /\ Relaunched
    /\ stray' = Flagged
    /\ UNCHANGED store

\* The store is gone too.
Reinstall ==
    /\ Relaunched
    /\ keys' = {} /\ legacy' = {} /\ flag' = [k \in Keys |-> 0] /\ stray' = {}

Batches == [id : 1 .. MaxBatches, version : Versions, keys : SUBSET Keys]

BackupTypeOK ==
    /\ uses \in Features
    /\ keys \subseteq Keys /\ legacy \subseteq keys
    /\ flag \in [Keys -> 0 .. MaxVersion] /\ Flagged \subseteq keys
    /\ enabled \in 0 .. MaxVersion /\ pending_backup \in Batches \cup {NoBatch}
    /\ taken \subseteq Batches /\ accepted \subseteq taken
    /\ server \in 0 .. MaxVersion /\ holds \in [Versions -> SUBSET Keys]
    /\ vault \subseteq Keys /\ restarts \in 0 .. MaxRestarts /\ stray \subseteq keys

\* BackupState::backed_up counts what is safe: a key flagged as backed up is held
\* by the homeserver, and by the enabled version unless a relaunch or a restore
\* from another version came in between. A copy that went up for a version that
\* was replaced, or came out of a file, is not counted.
CountedIsHeld ==
    /\ BackupTypeOK
    /\ \A k \in Flagged :
          /\ k \in holds[flag[k]]
          /\ enabled # 0 /\ k \notin stray => flag[k] = enabled

\* "Replacing a key that wedged the pump for ever would be a remedy worse than
\* the problem": a product that drains, sends and reports gets what it holds up to
\* the version it settled on, whatever batches, replacements and lost answers came
\* before. Not so the stray keys: a relaunch forgets which version the flags were
\* for, and a restore flags what it brings whichever version it was read from. They
\* count as backed up (BackupState::backed_up promises a count against the enabled
\* version) and no batch carries them (restore_backup promises "a redundant upload
\* and nothing worse") until a version is replaced or disabled.
BackupCatchesUp ==
    <>[](enabled # 0 /\ enabled = server)
        => <>[](enabled # 0 => \A k \in keys \ stray : k \in holds[enabled])
=============================================================================
