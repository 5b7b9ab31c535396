---------------------------- MODULE ProcessProofs ----------------------------
(***************************************************************************)
(* Proofs about the two statics of a process: HELD, the machine, for any   *)
(* callers, configurations, disks and number of processes, and             *)
(* CRYPTO_OBSERVER, the signal channel, for any listeners, invitations,    *)
(* number of hot reloads and native calls that throw.  Neither reads the   *)
(* other.                                                                  *)
(***************************************************************************)
EXTENDS MachineHolder, SignalChannel, TLAPS

-----------------------------------------------------------------------------
(* The crossing.                                                           *)

\* A word an enum declares is read back as what it was.
LEMMA DeclaredCrosses ==
    ASSUME NEW enum, NEW words, \A w \in words : \E n \in DOMAIN enum : enum[n] = w
    PROVE  \A w \in words : Crossed(enum, w) = w
BY DEF Crossed, LiftEnum, LowerEnum, Generated

\* So are the errors of the machine and of the session.
LEMMA ErrorsCross ==
    /\ \A w \in MachineErrors : Crossed(MachineFfiError, w) = w
    /\ \A w \in SessionErrors : Crossed(SessionFfiError, w) = w
<1>1. \A w \in MachineErrors : \E n \in DOMAIN MachineFfiError : MachineFfiError[n] = w
    BY DEF MachineErrors, StoreErrors, FlowErrors, IdentityErrors, RecoveryErrors,
           CodeErrors, MachineFfiError
<1>2. \A w \in SessionErrors : \E n \in DOMAIN SessionFfiError : SessionFfiError[n] = w
    BY DEF SessionErrors, PumpErrors, DecryptErrors, SessionFfiError
<1>3. QED
    BY <1>1, <1>2, DeclaredCrosses

\* Every error of create_machine, and the one every other call starts with,
\* reaches the product under its own name.
LEMMA MachineSaysIt ==
    \A error \in StoreErrors \cup {"NotInitialised"} : MachineSays(error) = error
BY ErrorsCross DEF MachineErrors, MachineSays

\* So does the missing machine on every surface.
LEMMA SurfacesSayIt ==
    ASSUME NEW surface \in Surfaces
    PROVE  Says(surface, "NotInitialised") = "NotInitialised"
<1>1. SessionSays("NotInitialised") = "NotInitialised"
    BY ErrorsCross DEF SessionSays, SessionErrors, PumpErrors
<1>2. \A enum \in {BackupFfiError, HistoryFfiError, VaultFfiError} :
         Crossed(enum, "NotInitialised") = "NotInitialised"
    <2>1. /\ \E n \in DOMAIN BackupFfiError : BackupFfiError[n] = "NotInitialised"
          /\ \E n \in DOMAIN HistoryFfiError : HistoryFfiError[n] = "NotInitialised"
          /\ \E n \in DOMAIN VaultFfiError : VaultFfiError[n] = "NotInitialised"
        BY DEF BackupFfiError, HistoryFfiError, VaultFfiError
    <2>2. QED
        BY <2>1 DEF Crossed, LiftEnum, LowerEnum, Generated
<1>3. QED
    BY <1>1, <1>2, MachineSaysIt
       DEF Surfaces, Says, BackupSays, HistorySays, VaultSays

-----------------------------------------------------------------------------
(* The holder.                                                             *)

\* How a call ends changes nothing but the call and the lock.
LEMMA EndsKeeps ==
    ASSUME HolderInv, NEW c \in Callers, NEW answer \in Endings,
           Ends(c, answer), INIT_LOCK \in {c, Nobody},
           UNCHANGED <<handle, lives>>, touched' \subseteq Callers,
           HELD' \in Configs \cup {NoMachine}, DiskInv',
           \/ HELD' = HELD
           \/ INIT_LOCK = c /\ HELD = NoMachine /\ HELD' # NoMachine
    PROVE  HolderInv'
BY HolderAssumption DEF HolderInv, TypeOK, Ends, Stages, Building

\* The invariant behind the promise: the calls that build, of which there is
\* at most one, hold INIT_LOCK and find no machine, and a store holds only what
\* calls that named its path put there.
LEMMA HolderStep ==
    ASSUME HolderInv, [Next]_vars
    PROVE  HolderInv'
<1> USE HolderAssumption
<1>d. disk' = disk => DiskInv'
    BY DEF HolderInv, DiskInv
<1>1. ASSUME NEW c \in Callers, NEW k \in Configs, CreateMachine(c, k)
      PROVE  HolderInv'
    BY <1>1, <1>d DEF HolderInv, TypeOK, CreateMachine, Stages, Endings, Building
<1>2. ASSUME NEW c \in Callers, LookAtHeld(c)
      PROVE  HolderInv'
    <2>1. CASE HELD = NoMachine
        BY <1>2, <2>1, <1>d DEF HolderInv, TypeOK, LookAtHeld, Stages, Building
    <2>2. CASE HELD # NoMachine
        BY <1>2, <2>2, <1>d, EndsKeeps, MachineSaysIt
           DEF HolderInv, TypeOK, LookAtHeld, Refuses, Endings, StoreErrors
    <2>3. QED
        BY <2>1, <2>2
<1>3. ASSUME NEW c \in Callers, RefuseIdentifier(c)
      PROVE  HolderInv'
    BY <1>3, <1>d, EndsKeeps, MachineSaysIt
       DEF HolderInv, TypeOK, RefuseIdentifier, Refuses, Endings, StoreErrors, Building
<1>4. ASSUME NEW c \in Callers, OpenStore(c)
      PROVE  HolderInv'
    <2>1. wants[c] \in Configs /\ wants[c].path \in Paths /\ INIT_LOCK = c
        BY <1>4 DEF HolderInv, TypeOK, OpenStore, Building, Paths
    <2>2. DiskInv'
        BY <1>4, <2>1 DEF HolderInv, DiskInv, OpenStore, Stores
    <2>3. CASE at'[c] = "loading"
        BY <1>4, <2>1, <2>2, <2>3 DEF HolderInv, TypeOK, OpenStore, Stages, Building, Ends, Refuses
    <2>4. CASE Refuses(c, "Store")
        BY <1>4, <2>1, <2>2, <2>4, EndsKeeps, MachineSaysIt
           DEF HolderInv, TypeOK, OpenStore, Refuses, Endings, StoreErrors
    <2>5. QED
        BY <1>4, <2>3, <2>4 DEF OpenStore, HolderInv, TypeOK
<1>5. ASSUME NEW c \in Callers, LoadAccount(c)
      PROVE  HolderInv'
    <2>1. wants[c] \in Configs /\ wants[c].path \in Paths /\ INIT_LOCK = c
        BY <1>5 DEF HolderInv, TypeOK, LoadAccount, Building, Paths
    <2>2. DiskInv'
        <3>1. PICK store \in disk[wants[c].path] :
                 \/ disk' = [disk EXCEPT ![wants[c].path] =
                               {[store EXCEPT !.account = wants[c].account]}]
                 \/ disk' = disk
            BY <1>5 DEF LoadAccount
        <3>2. CASE disk' = disk
            BY <3>2, <1>d
        <3>3. CASE disk' = [disk EXCEPT ![wants[c].path] =
                              {[store EXCEPT !.account = wants[c].account]}]
            BY <2>1, <3>1, <3>3 DEF HolderInv, DiskInv, Stores
        <3>4. QED
            BY <3>1, <3>2, <3>3
    <2>3. CASE at' = [at EXCEPT ![c] = "built"] /\ UNCHANGED <<INIT_LOCK, wants, said>>
        BY <1>5, <2>1, <2>2, <2>3 DEF HolderInv, TypeOK, LoadAccount, Stages, Building
    <2>4. CASE Refuses(c, "MismatchedAccount") \/ Refuses(c, "Store")
        BY <1>5, <2>1, <2>2, <2>4, EndsKeeps, MachineSaysIt
           DEF HolderInv, TypeOK, LoadAccount, Refuses, Endings, StoreErrors
    <2>5. QED
        BY <1>5, <2>3, <2>4 DEF LoadAccount
<1>6. ASSUME NEW c \in Callers, Hold(c)
      PROVE  HolderInv'
    BY <1>6, <1>d, EndsKeeps DEF HolderInv, TypeOK, Hold, Endings, Building
<1>7. ASSUME NEW c \in Callers, NEW surface \in Surfaces, ReadHeld(c, surface)
      PROVE  HolderInv'
    BY <1>7, <1>d, SurfacesSayIt DEF HolderInv, TypeOK, ReadHeld, Stages, Endings, Building
<1>8. ASSUME NEW c \in Callers, RunClosure(c)
      PROVE  HolderInv'
    BY <1>8, <1>d DEF HolderInv, TypeOK, RunClosure, Stages, Endings, Building
<1>9. CASE Restart
    BY <1>9, <1>d DEF HolderInv, TypeOK, Restart, Stages, Endings, Building
<1>10. CASE UNCHANGED vars
    BY <1>10, <1>d DEF HolderInv, TypeOK, vars, Building
<1>11. QED
    BY <1>1, <1>2, <1>3, <1>4, <1>5, <1>6, <1>7, <1>8, <1>9, <1>10 DEF Next, CallStep

\* HolderInv holds of every reachable state: there is never a machine while
\* another is being built, and no two are built at once.
THEOREM HolderInvariant == Spec => []HolderInv
<1>1. Init => HolderInv
    BY HolderAssumption
       DEF Init, HolderInv, TypeOK, DiskInv, Stages, Endings, Building, Stores
<1>2. QED
    BY <1>1, HolderStep, PTL DEF Spec

-----------------------------------------------------------------------------
(* Rejected calls.                                                         *)

\* A call in progress has answered nothing yet, and reaches the disk after
\* its identifiers parsed.
RejectedInv ==
    /\ \A c \in Callers :
        /\ at[c] \in {"calling", "opening"} => c \notin touched
        /\ at[c] \in {"calling", "opening", "loading", "built"} => said[c] = "none"
    /\ RejectedTouchesNothing

LEMMA RejectedStep ==
    ASSUME HolderInv, RejectedInv, [Next]_vars
    PROVE  RejectedInv'
<1> USE DEF RejectedInv, RejectedTouchesNothing
<1>1. ASSUME NEW c \in Callers, NEW k \in Configs, CreateMachine(c, k)
      PROVE  RejectedInv'
    BY <1>1 DEF HolderInv, TypeOK, CreateMachine
<1>2. ASSUME NEW c \in Callers, LookAtHeld(c)
      PROVE  RejectedInv'
    BY <1>2, MachineSaysIt DEF HolderInv, TypeOK, LookAtHeld, Ends, Refuses, StoreErrors
<1>3. ASSUME NEW c \in Callers, RefuseIdentifier(c)
      PROVE  RejectedInv'
    BY <1>3, MachineSaysIt DEF HolderInv, TypeOK, RefuseIdentifier, Ends, Refuses, StoreErrors
<1>4. ASSUME NEW c \in Callers, OpenStore(c)
      PROVE  RejectedInv'
    BY <1>4, MachineSaysIt DEF HolderInv, TypeOK, OpenStore, Ends, Refuses, StoreErrors
<1>5. ASSUME NEW c \in Callers, LoadAccount(c)
      PROVE  RejectedInv'
    BY <1>5, MachineSaysIt DEF HolderInv, TypeOK, LoadAccount, Ends, Refuses, StoreErrors
<1>6. ASSUME NEW c \in Callers, Hold(c)
      PROVE  RejectedInv'
    BY <1>6 DEF HolderInv, TypeOK, Hold, Ends
<1>7. ASSUME NEW c \in Callers, NEW surface \in Surfaces, ReadHeld(c, surface)
      PROVE  RejectedInv'
    BY <1>7, SurfacesSayIt DEF HolderInv, TypeOK, ReadHeld
<1>8. ASSUME NEW c \in Callers, RunClosure(c)
      PROVE  RejectedInv'
    BY <1>8 DEF HolderInv, TypeOK, RunClosure
<1>9. CASE Restart
    BY <1>9 DEF Restart
<1>10. CASE UNCHANGED vars
    BY <1>10 DEF vars
<1>11. QED
    BY <1>1, <1>2, <1>3, <1>4, <1>5, <1>6, <1>7, <1>8, <1>9, <1>10 DEF Next, CallStep

\* A call refused for what it asks never reached the disk.
THEOREM RejectedCallsTouchNothing == Spec => []RejectedTouchesNothing
<1>1. Init => RejectedInv
    BY DEF Init, RejectedInv, RejectedTouchesNothing
<1>2. RejectedInv => RejectedTouchesNothing
    BY DEF RejectedInv
<1>3. QED
    BY <1>1, <1>2, RejectedStep, HolderInvariant, PTL DEF Spec

-----------------------------------------------------------------------------
(* The promise.                                                            *)

\* A sound configuration finds no store of anybody else at its path.
LEMMA SoundPathIsOwn ==
    ASSUME HolderInv, NEW k \in Sound, NEW store \in disk[k.path]
    PROVE  store.passphrase = k.passphrase /\ store.account \in {Nobody, k.account}
BY DEF HolderInv, DiskInv, Sound, Paths

\* What a call is told when it ends is what the promise calls it.
LEMMA ToldWhenSaid ==
    ASSUME TypeOK, NEW c \in Callers, NEW answer, said' = [said EXCEPT ![c] = answer]
    PROVE  [d \in Callers |-> ToldOf(said'[d])]
             = [[d \in Callers |-> ToldOf(said[d])] EXCEPT ![c] = ToldOf(answer)]
BY DEF TypeOK

\* A call that ends refused while it builds was not sound.
LEMMA RefusalIsChoice ==
    ASSUME HolderInv, NEW c \in Callers, Building(c), wants[c] \notin Sound,
           NEW error \in {"MalformedIdentifier", "Store", "MismatchedAccount"},
           Refuses(c, error), UNCHANGED HELD
    PROVE  Promise!Choose(c)
<1>1. wants[c] # NoMachine /\ HELD = NoMachine /\ TypeOK
    BY DEF HolderInv
<1>2. ToldOf(MachineSays(error)) = "refused"
    BY MachineSaysIt DEF ToldOf, StoreErrors
<1>3. QED
    BY <1>1, <1>2, ToldWhenSaid DEF Ends, Refuses, Promise!Choose, Promise!Tell

\* Every step of the holder is a step of the promise, or none.
LEMMA PromiseStep ==
    ASSUME HolderInv, [Next]_vars
    PROVE  [Promise!Next]_(Promise!vars)
<1>t. TypeOK
    BY DEF HolderInv
<1>1. ASSUME NEW c \in Callers, NEW k \in Configs, CreateMachine(c, k)
      PROVE  Promise!Ask(c, k)
    <2>1. wants[c] = NoMachine
        BY <1>1 DEF HolderInv, CreateMachine, Building
    <2>2. ToldOf("none") = "none"
        BY DEF ToldOf
    <2>3. QED
        BY <1>1, <1>t, <2>1, <2>2, ToldWhenSaid DEF CreateMachine, Promise!Ask, Promise!Tell
<1>2. ASSUME NEW c \in Callers, LookAtHeld(c)
      PROVE  Promise!Compare(c) \/ UNCHANGED Promise!vars
    <2>1. CASE HELD = NoMachine
        BY <1>2, <2>1 DEF LookAtHeld, Promise!vars
    <2>2. CASE HELD # NoMachine
        <3>1. wants[c] # NoMachine
            BY <1>2 DEF HolderInv, LookAtHeld
        <3>2. /\ ToldOf("ok") = "ok"
              /\ ToldOf(MachineSays("AlreadyInitialised")) = "already_initialised"
            BY MachineSaysIt DEF ToldOf, StoreErrors
        <3>3. CASE HELD = wants[c]
            BY <1>2, <1>t, <2>2, <3>1, <3>2, <3>3, ToldWhenSaid
               DEF LookAtHeld, Ends, Refuses, Promise!Compare, Promise!Tell
        <3>4. CASE HELD # wants[c]
            BY <1>2, <1>t, <2>2, <3>1, <3>2, <3>4, ToldWhenSaid
               DEF LookAtHeld, Ends, Refuses, Promise!Compare, Promise!Tell
        <3>5. QED
            BY <3>3, <3>4
    <2>3. QED
        BY <2>1, <2>2
<1>3. ASSUME NEW c \in Callers, RefuseIdentifier(c)
      PROVE  Promise!Choose(c)
    BY <1>3, RefusalIsChoice DEF RefuseIdentifier, Sound, Building
<1>4. ASSUME NEW c \in Callers, OpenStore(c)
      PROVE  Promise!Choose(c) \/ UNCHANGED Promise!vars
    <2>1. CASE UNCHANGED <<INIT_LOCK, wants, said>>
        BY <1>4, <2>1 DEF OpenStore, Promise!vars
    <2>2. CASE /\ Collides(c) \/ wants[c].path \in Unreliable
                 \/ \E store \in disk[wants[c].path] : ~OpensWith(store, wants[c])
               /\ Refuses(c, "Store")
        <3>1. ~Collides(c)
            BY <1>4 DEF Collides, OpenStore, HolderInv, Building
        <3>2. wants[c] \notin Sound
            BY <2>2, <3>1, SoundPathIsOwn DEF Sound, OpensWith
        <3>3. QED
            BY <1>4, <2>2, <3>2, RefusalIsChoice DEF OpenStore, Building
    <2>3. QED
        BY <1>4, <2>1, <2>2 DEF OpenStore
<1>5. ASSUME NEW c \in Callers, LoadAccount(c)
      PROVE  Promise!Choose(c) \/ UNCHANGED Promise!vars
    <2>1. CASE UNCHANGED <<INIT_LOCK, wants, said>>
        BY <1>5, <2>1 DEF LoadAccount, Promise!vars
    <2>2. ASSUME NEW store \in disk[wants[c].path],
                 store.account \notin {Nobody, wants[c].account},
                 Refuses(c, "MismatchedAccount")
          PROVE  Promise!Choose(c)
        <3>1. wants[c] \notin Sound
            BY <2>2, SoundPathIsOwn
        <3>2. QED
            BY <1>5, <2>2, <3>1, RefusalIsChoice DEF LoadAccount, Building
    <2>3. CASE wants[c].path \in Unreliable /\ Refuses(c, "Store")
        BY <1>5, <2>3, RefusalIsChoice DEF LoadAccount, Building, Sound
    <2>4. QED
        BY <1>5, <2>1, <2>2, <2>3 DEF LoadAccount
<1>6. ASSUME NEW c \in Callers, Hold(c)
      PROVE  Promise!Choose(c)
    <2>1. wants[c] # NoMachine /\ HELD = NoMachine
        BY <1>6 DEF HolderInv, Hold, Building
    <2>2. ToldOf("ok") = "ok"
        BY DEF ToldOf
    <2>3. QED
        BY <1>6, <1>t, <2>1, <2>2, ToldWhenSaid DEF Hold, Ends, Promise!Choose, Promise!Tell
<1>7. ASSUME NEW c \in Callers, NEW surface \in Surfaces, ReadHeld(c, surface)
      PROVE  Promise!Refuse(c) \/ UNCHANGED Promise!vars
    <2>1. CASE HELD = NoMachine
        <3>1. wants[c] = NoMachine
            BY <1>7 DEF HolderInv, ReadHeld, Building
        <3>2. ToldOf(Says(surface, "NotInitialised")) = "not_initialised"
            BY SurfacesSayIt DEF ToldOf
        <3>3. QED
            BY <1>7, <1>t, <2>1, <3>1, <3>2, ToldWhenSaid
               DEF ReadHeld, Promise!Refuse, Promise!Tell
    <2>2. CASE HELD # NoMachine
        BY <1>7, <2>2 DEF ReadHeld, Promise!vars
    <2>3. QED
        BY <2>1, <2>2
<1>8. ASSUME NEW c \in Callers, RunClosure(c)
      PROVE  Promise!Serve(c)
    <2>1. wants[c] = NoMachine /\ HELD # NoMachine
        BY <1>8 DEF HolderInv, RunClosure, Building
    <2>2. ToldOf("served") = "served"
        BY DEF ToldOf
    <2>3. QED
        BY <1>8, <1>t, <2>1, <2>2, ToldWhenSaid DEF RunClosure, Promise!Serve, Promise!Tell
<1>9. CASE Restart
    <2>1. [c \in Callers |-> ToldOf(said'[c])] = [c \in Callers |-> "none"]
        <3>1. \A c \in Callers : said'[c] = "none"
            BY <1>9 DEF Restart
        <3>2. ToldOf("none") = "none"
            BY DEF ToldOf
        <3>3. QED
            BY <3>1, <3>2
    <2>2. Promise!ProcessEnds
        BY <1>9, <2>1 DEF Restart, Promise!ProcessEnds
    <2>3. QED
        BY <2>2 DEF Promise!Next
<1>10. CASE UNCHANGED vars
    BY <1>10 DEF vars, Promise!vars
<1>11. QED
    BY <1>1, <1>2, <1>3, <1>4, <1>5, <1>6, <1>7, <1>8, <1>9, <1>10
       DEF Next, CallStep, Promise!Next

\* The holder implements OneMachine: whatever runs at once and wherever a
\* process ends, a process has one machine, chosen by the first call whose
\* store opens, and every call is told what is true of it.
THEOREM HolderKeepsPromise == Spec => KeepsPromise
<1>1. Init => Promise!Init
    BY DEF Init, Promise!Init, ToldOf
<1>2. QED
    BY <1>1, PromiseStep, HolderInvariant, PTL DEF Spec, KeepsPromise, Promise!Spec


-----------------------------------------------------------------------------
(* The signal channel: types.                                              *)

LEMMA InstallTypes ==
    ASSUME ChannelTypeOK, NEW throws \in BOOLEAN, InstallNativeObserver(throws)
    PROVE  /\ nativeInstalled' \in [Copies -> BOOLEAN] /\ CRYPTO_OBSERVER' \in 0 .. copy
           /\ nativeInstalled'[copy] = (nativeInstalled[copy] \/ ~throws)
           /\ \A c \in Copies \ {copy} : nativeInstalled'[c] = nativeInstalled[c]
<1>1. copy \in Copies /\ copy \in 0 .. copy /\ CRYPTO_OBSERVER \in 0 .. copy
    BY ChannelAssumption DEF ChannelTypeOK, Copies
<1>2. nativeInstalled \in [Copies -> BOOLEAN]
    BY DEF ChannelTypeOK
<1>3. nativeInstalled' = [nativeInstalled EXCEPT ![copy] = nativeInstalled[copy] \/ ~throws]
    BY DEF InstallNativeObserver
<1>4. (nativeInstalled[copy] \/ ~throws) \in BOOLEAN
    OBVIOUS
<1>5. QED
    BY <1>1, <1>2, <1>3, <1>4 DEF InstallNativeObserver

\* What an unsubscribe does to the flag, the registry and the notes.
LEMMA UninstallTypes ==
    ASSUME ChannelTypeOK, NEW l \in Listeners, NEW throws \in BOOLEAN, NEW c \in Copies,
           Unsubscribe(c, l, throws)
    PROVE  /\ nativeInstalled' \in [Copies -> BOOLEAN] /\ CRYPTO_OBSERVER' \in 0 .. copy
           /\ listeners' \in [Copies -> SUBSET Listeners] /\ listeners'[c] = listeners[c] \ {l}
           /\ \A other \in Copies \ {c} :
                 /\ nativeInstalled'[other] = nativeInstalled[other]
                 /\ listeners'[other] = listeners[other]
           /\ listeners'[c] # {} => /\ ~throws /\ CRYPTO_OBSERVER' = CRYPTO_OBSERVER
                                    /\ nativeInstalled'[c] = nativeInstalled[c]
           /\ listeners'[c] = {} /\ ~throws =>
                 /\ ~nativeInstalled'[c]
                 /\ CRYPTO_OBSERVER' = IF nativeInstalled[c] THEN NoObserver
                                       ELSE CRYPTO_OBSERVER
           /\ listeners'[c] = {} /\ throws =>
                 /\ nativeInstalled[c] /\ nativeInstalled'[c]
                 /\ CRYPTO_OBSERVER' = CRYPTO_OBSERVER
<1>1. /\ copy \in Copies /\ CRYPTO_OBSERVER \in 0 .. copy /\ 0 \in 0 .. copy
      /\ nativeInstalled \in [Copies -> BOOLEAN] /\ listeners \in [Copies -> SUBSET Listeners]
    BY ChannelAssumption DEF ChannelTypeOK, Copies
<1>2. listeners' = [listeners EXCEPT ![c] = listeners[c] \ {l}]
    BY DEF Unsubscribe
<1>3. /\ listeners' \in [Copies -> SUBSET Listeners] /\ listeners'[c] = listeners[c] \ {l}
      /\ \A other \in Copies \ {c} : listeners'[other] = listeners[other]
    BY <1>1, <1>2
<1>4. CASE listeners'[c] # {}
    <2>1. ~throws /\ nativeInstalled' = nativeInstalled /\ CRYPTO_OBSERVER' = CRYPTO_OBSERVER
        BY <1>4 DEF Unsubscribe
    <2>2. QED
        BY <1>1, <1>3, <1>4, <2>1
<1>5. CASE listeners'[c] = {}
    <2>1. UninstallNativeObserver(c, throws)
        BY <1>5 DEF Unsubscribe
    <2>2. /\ throws => nativeInstalled[c]
          /\ nativeInstalled' = [nativeInstalled EXCEPT ![c] = nativeInstalled[c] /\ throws]
          /\ CRYPTO_OBSERVER' =
                IF nativeInstalled[c] /\ ~throws THEN NoObserver ELSE CRYPTO_OBSERVER
        BY <2>1 DEF UninstallNativeObserver
    <2>3. (nativeInstalled[c] /\ throws) \in BOOLEAN
        OBVIOUS
    <2>4. /\ nativeInstalled' \in [Copies -> BOOLEAN]
          /\ nativeInstalled'[c] = (nativeInstalled[c] /\ throws)
          /\ \A other \in Copies \ {c} : nativeInstalled'[other] = nativeInstalled[other]
        BY <1>1, <2>2, <2>3
    <2>5. CRYPTO_OBSERVER' \in 0 .. copy
        BY <1>1, <2>2 DEF NoObserver
    <2>6. QED
        BY <1>3, <1>5, <2>2, <2>4, <2>5
<1>6. QED
    BY <1>4, <1>5

\* Every copy but the one that is new keeps what it had.
LEMMA ChannelTypeStep ==
    ASSUME ChannelTypeOK, [ChannelNext]_channelVars
    PROVE  ChannelTypeOK'
<1>a. USE ChannelAssumption DEF ChannelTypeOK
<1>1. ASSUME NEW l \in Listeners, NEW throws \in BOOLEAN, Subscribe(l, throws)
      PROVE  ChannelTypeOK'
    <2>1. /\ nativeInstalled' \in [Copies -> BOOLEAN] /\ CRYPTO_OBSERVER' \in 0 .. copy
        BY <1>1, InstallTypes DEF Subscribe
    <2>2. listeners' \in [Copies -> SUBSET Listeners]
        BY <1>1 DEF Subscribe
    <2>3. (clearThrew /\ throws) \in BOOLEAN
        OBVIOUS
    <2>4. QED
        BY <1>1, <2>1, <2>2, <2>3 DEF Subscribe
<1>2. ASSUME NEW l \in Listeners, NEW throws \in BOOLEAN, NEW c \in Copies,
             Unsubscribe(c, l, throws)
      PROVE  ChannelTypeOK'
    <2>1. loyal' \in [Invitations -> SUBSET Listeners]
        BY <1>2 DEF Unsubscribe
    <2>2. clearThrew' \in BOOLEAN /\ silenced' \in BOOLEAN
        BY <1>2 DEF Unsubscribe, Noted
    <2>3. QED
        BY <1>2, <2>1, <2>2, UninstallTypes DEF Unsubscribe
<1>3. CASE HotReload
    <2>1. copy' \in Copies /\ 0 .. copy \subseteq 0 .. copy' /\ 1 .. copy \subseteq 1 .. copy'
        BY <1>3 DEF HotReload, Copies
    <2>2. loyal' \in [Invitations -> SUBSET Listeners]
        BY <1>3 DEF HotReload
    <2>3. QED
        BY <1>3, <2>1, <2>2 DEF HotReload
<1>4. ASSUME NEW i \in Invitations, Arrives(i)
      PROVE  ChannelTypeOK'
    BY <1>4 DEF Arrives, Steps, js, aux
<1>5. CASE BeginPass
    <2>1. \A i \in Invitations : board'[i] \in Steps /\ loyal'[i] \in SUBSET Listeners
        BY <1>5 DEF BeginPass, Steps, Unheard, Subscribed
    <2>2. loyal' \in [Invitations -> SUBSET Listeners] /\ board' \in [Invitations -> Steps]
        BY <1>5, <2>1 DEF BeginPass
    <2>3. QED
        BY <1>5, <2>2 DEF BeginPass, js
<1>6. ASSUME NEW i \in Invitations, Emit(i)
      PROVE  ChannelTypeOK'
    <2>1. board' \in [Invitations -> Steps]
        BY <1>6 DEF Emit, Steps, Unheard
    <2>2. CRYPTO_OBSERVER # NoObserver => CRYPTO_OBSERVER \in 1 .. copy
        BY DEF NoObserver, Copies
    <2>3. QED
        BY <1>6, <2>1, <2>2 DEF Emit, js, aux
<1>7. CASE EndPass
    BY <1>7 DEF EndPass, js, aux
<1>8. ASSUME NEW d \in deliveries, Deliver(d)
      PROVE  ChannelTypeOK'
    <2>1. PICK reached \in (IF d.to = copy THEN Reached ELSE {{}}) :
             heard' = [heard EXCEPT ![d.signal] = @ \cup reached]
        BY <1>8 DEF Deliver
    <2>2. reached \subseteq Listeners /\ d.signal \in Invitations
        BY <2>1 DEF Reached, Subscribed
    <2>3. heard' \in [Invitations -> SUBSET Listeners]
        BY <2>1, <2>2
    <2>4. board' \in [Invitations -> Steps]
        BY <1>8, <2>2 DEF Deliver, Steps
    <2>5. QED
        BY <1>8, <2>3, <2>4 DEF Deliver, js
<1>9. CASE UNCHANGED channelVars
    BY <1>9 DEF channelVars, js, aux
<1>10. QED
    BY <1>1, <1>2, <1>3, <1>4, <1>5, <1>6, <1>7, <1>8, <1>9 DEF ChannelNext, DeliverNext

LEMMA ChannelTypeInit ==
    ChannelInit => ChannelTypeOK
<1>1. SUFFICES ASSUME ChannelInit
               PROVE  ChannelTypeOK
    OBVIOUS
<1>2. /\ board \in [Invitations -> Steps]
      /\ heard \in [Invitations -> SUBSET Listeners]
      /\ loyal \in [Invitations -> SUBSET Listeners]
    BY <1>1 DEF ChannelInit, Steps
<1>3. copy \in Copies /\ CRYPTO_OBSERVER \in 0 .. copy
    BY <1>1, ChannelAssumption DEF ChannelInit, NoObserver, Copies
<1>4. /\ nativeInstalled \in [Copies -> BOOLEAN] /\ listeners \in [Copies -> SUBSET Listeners]
      /\ deliveries = {} /\ ~pass /\ ~clearThrew /\ ~silenced
    BY <1>1 DEF ChannelInit
<1>5. pass \in BOOLEAN /\ clearThrew \in BOOLEAN /\ silenced \in BOOLEAN
    BY <1>1 DEF ChannelInit
<1>6. QED
    BY <1>2, <1>3, <1>4, <1>5 DEF ChannelTypeOK

\* Every value of signals.ts, of the registry and of the announcing pass has its
\* type: an observer is one an evaluation of signals.ts built.
THEOREM ChannelTypeCorrect ==
    ChannelSpec => []ChannelTypeOK
<1>1. ChannelInit => ChannelTypeOK
    BY ChannelTypeInit
<1>2. QED
    BY <1>1, ChannelTypeStep, PTL DEF ChannelSpec

-----------------------------------------------------------------------------
(* The flag.                                                               *)

\* A copy that is not evaluated yet has nobody in its set and its flag down.
FlagInv ==
    /\ FlagTellsTruth
    /\ \A c \in Copies : c > copy => listeners[c] = {} /\ ~nativeInstalled[c]

LEMMA FlagStep ==
    ASSUME FlagInv, [ChannelNext]_channelVars
    PROVE  FlagInv'
<1>a. ChannelTypeOK /\ ChannelTypeOK'
    BY ChannelTypeStep DEF FlagInv, FlagTellsTruth
<1>b. /\ copy \in Copies /\ copy \in Nat \ {0} /\ CRYPTO_OBSERVER \in Nat
      /\ CRYPTO_OBSERVER <= copy
      /\ \A c \in Copies : c \in Nat /\ nativeInstalled[c] \in BOOLEAN
    BY <1>a, ChannelAssumption DEF ChannelTypeOK, Copies
<1>1. ASSUME NEW l \in Listeners, NEW throws \in BOOLEAN, Subscribe(l, throws)
      PROVE  FlagInv'
    <2>1. /\ nativeInstalled'[copy] = (nativeInstalled[copy] \/ ~throws)
          /\ \A c \in Copies \ {copy} : nativeInstalled'[c] = nativeInstalled[c]
        BY <1>1, <1>a, InstallTypes DEF Subscribe
    <2>2. /\ \A c \in Copies \ {copy} : listeners'[c] = listeners[c]
          /\ throws => listeners' = listeners
          /\ ~throws => listeners'[copy] # {}
        BY <1>1, <1>a DEF Subscribe, ChannelTypeOK
    <2>3. /\ copy' = copy /\ silenced' = silenced /\ clearThrew' = (clearThrew /\ throws)
          /\ CRYPTO_OBSERVER' =
                IF nativeInstalled[copy] \/ throws THEN CRYPTO_OBSERVER ELSE copy
        BY <1>1 DEF Subscribe, InstallNativeObserver
    <2>4. \A c \in Copies : c > copy' => listeners'[c] = {} /\ ~nativeInstalled'[c]
        BY <1>b, <2>1, <2>2, <2>3 DEF FlagInv
    <2>5. /\ CRYPTO_OBSERVER' = copy' => nativeInstalled'[copy']
          /\ nativeInstalled'[copy'] => CRYPTO_OBSERVER' = copy' \/ silenced'
          /\ listeners'[copy'] # {} => nativeInstalled'[copy']
        <3>1. CASE throws
            BY <1>b, <2>1, <2>2, <2>3, <3>1 DEF FlagInv, FlagTellsTruth, Subscribed
        <3>2. CASE ~throws
            BY <1>b, <2>1, <2>2, <2>3, <3>2 DEF FlagInv, FlagTellsTruth, Subscribed
        <3>3. QED
            BY <3>1, <3>2
    <2>6. silenced' => copy' > 1 /\ nativeInstalled'[copy'] /\ CRYPTO_OBSERVER' = NoObserver
        \* Where it is silenced the flag is up, and the install is not tried.
        <3>1. silenced => nativeInstalled[copy]
            BY DEF FlagInv, FlagTellsTruth
        <3>2. QED
            BY <2>1, <2>3, <3>1 DEF FlagInv, FlagTellsTruth
    <2>7. CRYPTO_OBSERVER' = copy' => listeners'[copy'] # {} \/ clearThrew'
        <3>1. CASE throws
            BY <2>2, <2>3, <3>1 DEF FlagInv, FlagTellsTruth, Subscribed
        <3>2. CASE ~throws
            BY <2>2, <2>3, <3>2
        <3>3. QED
            BY <3>1, <3>2
    <2>8. QED
        BY <1>a, <2>4, <2>5, <2>6, <2>7 DEF FlagInv, FlagTellsTruth, Subscribed
<1>2. ASSUME NEW l \in Listeners, NEW throws \in BOOLEAN, NEW c \in Copies,
             Unsubscribe(c, l, throws)
      PROVE  FlagInv'
    <2>1. /\ \A other \in Copies \ {c} : /\ nativeInstalled'[other] = nativeInstalled[other]
                                         /\ listeners'[other] = listeners[other]
          /\ listeners'[c] # {} => /\ ~throws /\ CRYPTO_OBSERVER' = CRYPTO_OBSERVER
                                   /\ nativeInstalled'[c] = nativeInstalled[c]
          /\ listeners'[c] = {} /\ ~throws =>
                /\ ~nativeInstalled'[c]
                /\ CRYPTO_OBSERVER' = IF nativeInstalled[c] THEN NoObserver ELSE CRYPTO_OBSERVER
          /\ listeners'[c] = {} /\ throws => /\ nativeInstalled'[c] /\ nativeInstalled[c]
                                             /\ CRYPTO_OBSERVER' = CRYPTO_OBSERVER
          /\ listeners'[c] \subseteq listeners[c]
        BY <1>2, <1>a, UninstallTypes
    <2>2. copy' = copy /\ c <= copy /\ Noted(c, throws) /\ NoObserver # copy
        BY <1>2, <1>b DEF Unsubscribe, NoObserver
    <2>3. \A other \in Copies : other > copy' => listeners'[other] = {} /\ ~nativeInstalled'[other]
        <3>1. \A other \in Copies : other > copy => other # c
            BY <1>b, <2>2
        <3>2. QED
            BY <2>1, <2>2, <3>1 DEF FlagInv
    <2>4. CASE c = copy
        <3>1. /\ clearThrew' = (throws \/ (clearThrew /\ listeners'[copy] # {}))
              /\ silenced' = (silenced /\ nativeInstalled'[copy])
            BY <2>2, <2>4 DEF Noted
        <3>2. CASE listeners'[copy] # {}
            BY <1>a, <2>1, <2>2, <2>3, <2>4, <3>1, <3>2 DEF FlagInv, FlagTellsTruth, Subscribed
        <3>3. CASE listeners'[copy] = {} /\ ~throws
            BY <1>a, <2>1, <2>2, <2>3, <2>4, <3>1, <3>3 DEF FlagInv, FlagTellsTruth, Subscribed
        <3>4. CASE listeners'[copy] = {} /\ throws
            BY <1>a, <2>1, <2>2, <2>3, <2>4, <3>1, <3>4 DEF FlagInv, FlagTellsTruth, Subscribed
        <3>5. QED
            BY <3>2, <3>3, <3>4
    <2>5. CASE c # copy
        \* An earlier copy: this one's set and flag are as they were.
        <3>1. /\ clearThrew' = clearThrew
              /\ silenced' = (silenced \/ (CRYPTO_OBSERVER = copy /\ CRYPTO_OBSERVER' # copy))
            BY <2>2, <2>5 DEF Noted
        <3>2. /\ nativeInstalled'[copy] = nativeInstalled[copy]
              /\ listeners'[copy] = listeners[copy] /\ copy > 1
            BY <1>b, <2>1, <2>2, <2>5 DEF Copies
        <3>3. CRYPTO_OBSERVER' \in {NoObserver, CRYPTO_OBSERVER}
            BY <2>1
        <3>4. \/ CRYPTO_OBSERVER' = CRYPTO_OBSERVER /\ (silenced' <=> silenced)
              \/ CRYPTO_OBSERVER' = NoObserver /\ (silenced' <=> silenced \/ CRYPTO_OBSERVER = copy)
            BY <2>2, <3>1, <3>3
        <3>5. /\ nativeInstalled'[copy] <=> nativeInstalled[copy]
              /\ clearThrew' <=> clearThrew
            BY <3>1, <3>2
        <3>6. /\ CRYPTO_OBSERVER' = copy => nativeInstalled'[copy]
              /\ nativeInstalled'[copy] => CRYPTO_OBSERVER' = copy \/ silenced'
              /\ silenced' => copy > 1 /\ nativeInstalled'[copy] /\ CRYPTO_OBSERVER' = NoObserver
              /\ CRYPTO_OBSERVER' = copy => listeners[copy] # {} \/ clearThrew'
            BY <2>2, <3>2, <3>4, <3>5 DEF FlagInv, FlagTellsTruth, Subscribed
        <3>7. listeners[copy] # {} => nativeInstalled'[copy]
            BY <3>5 DEF FlagInv, FlagTellsTruth, Subscribed
        <3>8. QED
            BY <1>a, <2>2, <2>3, <3>2, <3>6, <3>7 DEF FlagInv, FlagTellsTruth, Subscribed
    <2>6. QED
        BY <2>4, <2>5
<1>3. CASE HotReload
    <2>1. /\ copy' = copy + 1 /\ copy' \in Copies /\ copy' > copy /\ ~silenced'
          /\ UNCHANGED <<CRYPTO_OBSERVER, nativeInstalled, listeners>>
        BY <1>3, <1>a, <1>b DEF HotReload, ChannelTypeOK
    <2>2. CRYPTO_OBSERVER' # copy' /\ \A c \in Copies : c > copy' => c > copy
        BY <1>b, <2>1
    <2>3. /\ listeners'[copy'] = {} /\ ~nativeInstalled'[copy']
          /\ \A c \in Copies : c > copy' => listeners'[c] = {} /\ ~nativeInstalled'[c]
        BY <2>1, <2>2 DEF FlagInv
    <2>4. QED
        BY <1>a, <2>1, <2>2, <2>3 DEF FlagInv, FlagTellsTruth, Subscribed
<1>4. CASE UNCHANGED <<CRYPTO_OBSERVER, js, clearThrew, silenced>>
    BY <1>4, <1>a DEF js, FlagInv, FlagTellsTruth, Subscribed
<1>5. QED
    BY <1>1, <1>2, <1>3, <1>4
       DEF ChannelNext, DeliverNext, Arrives, BeginPass, Emit, EndPass, Deliver, channelVars, aux

\* The flag is in lockstep with the native side for any number of reloads and
\* whichever calls throw, and nobody is in a set nothing is installed for.
THEOREM FlagTellsTruthHolds ==
    ChannelSpec => []FlagTellsTruth
<1>1. ASSUME ChannelInit
      PROVE  FlagInv
    <2>1. ChannelTypeOK
        BY <1>1, ChannelTypeInit
    <2>2. 1 \in Copies
        BY ChannelAssumption DEF Copies
    <2>3. QED
        BY <1>1, <2>1, <2>2
           DEF ChannelInit, FlagInv, FlagTellsTruth, NoObserver, Subscribed
<1>2. FlagInv => FlagTellsTruth
    BY DEF FlagInv
<1>3. QED
    BY <1>1, <1>2, FlagStep, PTL DEF ChannelSpec

-----------------------------------------------------------------------------
(* The listeners that stay.                                                *)

\* A delivery belongs to an invitation a pass sent; the loyal listeners of an
\* invitation between the pass that took it and its delivery are subscribed, and the
\* observer of an earlier copy has none of them to tell. What waits, or is lost before
\* any reload, has none.
LoyalInv ==
    /\ \A d \in deliveries : board[d.signal] \in {"sent", "over"}
    /\ \A i \in Invitations : board[i] \in {"taken", "sent"} => loyal[i] \subseteq Subscribed
    /\ \A d \in deliveries : d.to # copy => loyal[d.signal] = {}
    /\ \A i \in Invitations : board[i] \in {"absent", "waiting"} /\ copy = 1 => loyal[i] = {}
    /\ LoyalListenersHear

LEMMA LoyalStep ==
    ASSUME FlagTellsTruth, LoyalInv, [ChannelNext]_channelVars
    PROVE  LoyalInv'
<1>a. ChannelTypeOK
    BY DEF FlagTellsTruth
<1>b. /\ copy \in Nat \ {0} /\ copy \in Copies
      /\ \A d \in deliveries : d.signal \in Invitations /\ d.to \in 1 .. copy
    BY <1>a, ChannelAssumption DEF ChannelTypeOK, Copies
<1>c. /\ \A i \in Invitations : loyal[i] \subseteq Listeners /\ heard[i] \subseteq Listeners
      /\ DOMAIN board = Invitations /\ DOMAIN loyal = Invitations /\ DOMAIN heard = Invitations
    BY <1>a DEF ChannelTypeOK
<1>1. ASSUME NEW l \in Listeners, NEW throws \in BOOLEAN, Subscribe(l, throws)
      PROVE  LoyalInv'
    <2>1. Subscribed \subseteq Subscribed'
        <3>1. copy' = copy /\ (listeners' = listeners
                               \/ listeners' = [listeners EXCEPT ![copy] = @ \cup {l}])
            BY <1>1 DEF Subscribe
        <3>2. QED
            BY <1>a, <1>b, <3>1 DEF ChannelTypeOK, Subscribed
    <2>2. UNCHANGED <<copy, board, deliveries, heard, loyal>>
        BY <1>1 DEF Subscribe
    <2>3. QED
        BY <2>1, <2>2 DEF LoyalInv, LoyalListenersHear
<1>2. ASSUME NEW l \in Listeners, NEW throws \in BOOLEAN, NEW c \in Copies,
             Unsubscribe(c, l, throws)
      PROVE  LoyalInv'
    <2>1. UNCHANGED <<copy, board, deliveries, heard>>
        BY <1>2 DEF Unsubscribe
    <2>2. CASE c = copy
        <3>1. Subscribed' = Subscribed \ {l}
            BY <1>2, <1>a, <2>1, <2>2, UninstallTypes DEF Subscribed
        <3>2. \A i \in Invitations : loyal'[i] = loyal[i] \ {l}
            BY <1>2, <2>2 DEF Unsubscribe
        <3>3. QED
            BY <1>b, <2>1, <3>1, <3>2 DEF LoyalInv, LoyalListenersHear
    <2>3. CASE c # copy
        <3>1. Subscribed' = Subscribed
            BY <1>2, <1>a, <1>b, <2>1, <2>3, UninstallTypes DEF Subscribed
        <3>2. loyal' = loyal
            BY <1>2, <2>3 DEF Unsubscribe
        <3>3. QED
            BY <2>1, <3>1, <3>2 DEF LoyalInv, LoyalListenersHear
    <2>4. QED
        BY <2>2, <2>3
<1>3. CASE HotReload
    <2>1. UNCHANGED <<board, deliveries, heard>> /\ \A i \in Invitations : loyal'[i] = {}
        BY <1>3 DEF HotReload
    <2>2. QED
        BY <1>b, <2>1 DEF LoyalInv, LoyalListenersHear
<1>4. ASSUME NEW i \in Invitations, Arrives(i)
      PROVE  LoyalInv'
    <2>1. UNCHANGED <<copy, listeners, deliveries, heard, loyal>>
        BY <1>4 DEF Arrives, js, aux
    <2>2. /\ board[i] = "absent" /\ board'[i] = "waiting"
          /\ \A other \in Invitations \ {i} : board'[other] = board[other]
        BY <1>4, <1>c DEF Arrives
    <2>3. QED
        BY <1>b, <2>1, <2>2 DEF LoyalInv, LoyalListenersHear, Subscribed
<1>5. CASE BeginPass
    <2>1. UNCHANGED <<copy, listeners, deliveries, heard>>
        BY <1>5 DEF BeginPass, js
    <2>2. /\ \A i \in Invitations : board[i] = "waiting" =>
                 \/ board'[i] = "taken" /\ loyal'[i] = Subscribed
                 \/ board'[i] \in {"waiting", "lost"} /\ loyal'[i] = loyal[i]
          /\ \A i \in Invitations : board[i] \notin {"waiting", "taken"} =>
                 board'[i] = board[i] /\ loyal'[i] = loyal[i]
          /\ \A i \in Invitations : board[i] = "taken" =>
                 board'[i] = board[i] /\ loyal'[i] = Subscribed
        BY <1>5 DEF BeginPass, Unheard
    <2>3. Subscribed' = Subscribed
        BY <2>1 DEF Subscribed
    <2>4. \A d \in deliveries : loyal'[d.signal] = loyal[d.signal]
                                /\ board'[d.signal] = board[d.signal]
        BY <1>b, <2>2 DEF LoyalInv
    <2>5. \A i \in Invitations : board'[i] \in {"taken", "sent"} => loyal'[i] \subseteq Subscribed
        BY <2>2 DEF LoyalInv
    <2>6. \A i \in Invitations :
             /\ board'[i] \in {"absent", "waiting", "lost"} /\ copy = 1 => loyal'[i] = {}
             /\ board'[i] = "over" => loyal'[i] \subseteq heard[i]
        BY <2>2 DEF LoyalInv, LoyalListenersHear
    <2>7. QED
        BY <2>1, <2>3, <2>4, <2>5, <2>6 DEF LoyalInv, LoyalListenersHear
<1>6. ASSUME NEW i \in Invitations, Emit(i)
      PROVE  LoyalInv'
    <2>1. /\ UNCHANGED <<copy, listeners, heard, loyal>>
          /\ board[i] = "taken" /\ board'[i] \in {"waiting", "lost", "sent"}
          /\ \A other \in Invitations \ {i} : board'[other] = board[other]
        BY <1>6, <1>c DEF Emit, Unheard, js, aux
    <2>2. \/ UNCHANGED deliveries /\ CRYPTO_OBSERVER = NoObserver
          \/ /\ board'[i] = "sent"
             /\ deliveries' = deliveries \cup {[signal |-> i, to |-> CRYPTO_OBSERVER]}
        BY <1>6, <1>c DEF Emit
    \* What it puts back or loses before any reload has nobody loyal to it: the flag
    \* is down, and the set empty.
    <2>3. CRYPTO_OBSERVER = NoObserver /\ copy = 1 => loyal[i] = {}
        <3>1. NoObserver # copy
            BY <1>b DEF NoObserver
        <3>2. CRYPTO_OBSERVER = NoObserver /\ copy = 1 => Subscribed = {}
            BY <3>1 DEF FlagTellsTruth
        <3>3. QED
            BY <2>1, <3>2 DEF LoyalInv
    \* What it sends to an observer of an earlier copy has none either.
    <2>4. CRYPTO_OBSERVER \notin {NoObserver, copy} => loyal[i] = {}
        BY <2>1 DEF FlagTellsTruth, LoyalInv
    <2>5. CRYPTO_OBSERVER = NoObserver \/ board'[i] = "sent"
        BY <2>2
    <2>6. /\ \A d \in deliveries : board'[d.signal] \in {"sent", "over"}
          /\ \A j \in Invitations : board'[j] \in {"taken", "sent"} => loyal'[j] \subseteq Subscribed'
        BY <1>b, <2>1 DEF LoyalInv, Subscribed
    <2>7. \A j \in Invitations :
             /\ board'[j] \in {"absent", "waiting", "lost"} /\ copy' = 1 => loyal'[j] = {}
             /\ board'[j] = "over" => loyal'[j] \subseteq heard'[j]
        BY <2>1, <2>3, <2>5 DEF LoyalInv, LoyalListenersHear
    <2>8. \A d \in deliveries' : /\ board'[d.signal] \in {"sent", "over"}
                                 /\ d.to # copy' => loyal'[d.signal] = {}
        <3>1. CASE UNCHANGED deliveries
            BY <2>1, <2>6, <3>1 DEF LoyalInv
        <3>2. CASE /\ board'[i] = "sent" /\ CRYPTO_OBSERVER # NoObserver
                   /\ deliveries' = deliveries \cup {[signal |-> i, to |-> CRYPTO_OBSERVER]}
            BY <2>1, <2>4, <2>6, <3>2 DEF LoyalInv
        <3>3. QED
            BY <1>6, <2>2, <3>1, <3>2 DEF Emit
    <2>9. QED
        BY <2>6, <2>7, <2>8 DEF LoyalInv, LoyalListenersHear
<1>7. CASE EndPass
    BY <1>7 DEF EndPass, js, aux, LoyalInv, LoyalListenersHear, Subscribed
<1>8. ASSUME NEW d \in deliveries, Deliver(d)
      PROVE  LoyalInv'
    <2>1. /\ UNCHANGED <<copy, listeners, loyal>> /\ deliveries' \subseteq deliveries
          /\ board'[d.signal] = "over"
          /\ \A i \in Invitations \ {d.signal} :
                board'[i] = board[i] /\ heard'[i] = heard[i]
        BY <1>8, <1>b, <1>c DEF Deliver, js
    <2>2. heard[d.signal] \cup (IF d.to = copy THEN Subscribed ELSE {}) = heard'[d.signal]
        BY <1>8, <1>b, <1>c DEF Deliver, Reached
    <2>3. loyal[d.signal] \subseteq heard'[d.signal]
        BY <1>b, <2>2 DEF LoyalInv, LoyalListenersHear
    <2>4. QED
        BY <1>b, <2>1, <2>3 DEF LoyalInv, LoyalListenersHear, Subscribed
<1>9. CASE UNCHANGED channelVars
    BY <1>9 DEF channelVars, js, aux, LoyalInv, LoyalListenersHear, Subscribed
<1>10. QED
    BY <1>1, <1>2, <1>3, <1>4, <1>5, <1>6, <1>7, <1>8, <1>9 DEF ChannelNext, DeliverNext

\* Whoever is subscribed from the pass that takes an invitation until it is over has
\* been called with it, whichever listeners throw, come, go or are reloaded, and before
\* any reload a bare start is lost on nobody who was there.
THEOREM LoyalListenersHearHolds ==
    ChannelSpec => []LoyalListenersHear
<1>1. ChannelInit => LoyalInv
    BY DEF ChannelInit, LoyalInv, LoyalListenersHear
<1>2. LoyalInv => LoyalListenersHear
    BY DEF LoyalInv
<1>3. QED
    BY <1>1, <1>2, LoyalStep, FlagTellsTruthHolds, PTL DEF ChannelSpec
=============================================================================
