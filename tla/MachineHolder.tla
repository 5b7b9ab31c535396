---------------------------- MODULE MachineHolder ----------------------------
(***************************************************************************)
(* The one machine of a process: HELD and INIT_LOCK of machine.rs, the     *)
(* calls that create it (create_machine and open_store, which are one      *)
(* operation) and the calls that need it (with_machine), with the names    *)
(* their errors have when they reach the product.                          *)
(*                                                                         *)
(* INIT_LOCK is held from before the first look at HELD until HELD is      *)
(* written, over every await in between.  The store on disk outlives the   *)
(* process: it remembers the passphrase it was created with and, once an   *)
(* account was saved in it, whose it is.                                   *)
(***************************************************************************)
EXTENDS Bindings, FiniteSets

CONSTANTS
    Callers,        \* concurrent calls
    Configs,        \* [account, path, passphrase]: what they may ask for
    Malformed,      \* accounts whose user or device id does not parse
    Unreliable,     \* paths where a store operation may fail by itself
    NoMachine,      \* the None of HELD
    Nobody,         \* INIT_LOCK is free; a store nobody's account is in
    MaxLives        \* bound: processes that run one after the other

Paths == {k.path : k \in Configs}

\* The enums a with_machine call of the crate answers in.
Surfaces == {"MachineError", "SessionError", "BackupError", "HistoryError",
             "VaultError"}

ASSUME HolderAssumption ==
    /\ MaxLives \in Nat
    /\ NoMachine \notin Configs
    /\ Nobody \notin Callers

VARIABLES
    HELD,           \* the configuration of the machine held, or NoMachine
    INIT_LOCK,      \* the call that holds it, or Nobody
    at,             \* caller -> where its call is
    wants,          \* caller -> the configuration it asks for, or NoMachine
    handle,         \* caller -> the machine with_machine cloned out
    said,           \* caller -> how its last call ended
    touched,        \* calls in progress or just ended that reached the disk
    disk,           \* path -> the store there, if any
    lives           \* processes so far

vars == <<HELD, INIT_LOCK, at, wants, handle, said, touched, disk, lives>>

Init ==
    /\ HELD = NoMachine
    /\ INIT_LOCK = Nobody
    /\ at = [c \in Callers |-> "idle"]
    /\ wants = [c \in Callers |-> NoMachine]
    /\ handle = [c \in Callers |-> NoMachine]
    /\ said = [c \in Callers |-> "none"]
    /\ touched = {}
    /\ disk = [p \in Paths |-> {}]
    /\ lives = 1

-----------------------------------------------------------------------------
(* Errors on their way to the product.                                     *)

\* A kind this enum has too is carried across by name, and the others become
\* Failed.
SessionSays(error) ==
    Crossed(SessionFfiError,
            IF error \in SessionErrors THEN error ELSE "Failed")

\* The other three conversions name one kind, whatever the error was.
BackupSays(error) == Crossed(BackupFfiError, "NotInitialised")
HistorySays(error) == Crossed(HistoryFfiError, "NotInitialised")
VaultSays(error) == Crossed(VaultFfiError, "NotInitialised")

MachineSays(error) == Crossed(MachineFfiError, error)

Says(surface, error) ==
    CASE surface = "SessionError" -> SessionSays(error)
      [] surface = "BackupError"  -> BackupSays(error)
      [] surface = "HistoryError" -> HistorySays(error)
      [] surface = "VaultError"   -> VaultSays(error)
      [] OTHER -> MachineSays(error)

-----------------------------------------------------------------------------
(* init.                                                                   *)

CreateMachine(c, k) ==
    /\ at[c] = "idle"
    /\ at' = [at EXCEPT ![c] = "calling"]
    /\ wants' = [wants EXCEPT ![c] = k]
    /\ said' = [said EXCEPT ![c] = "none"]
    /\ touched' = touched \ {c}
    /\ UNCHANGED <<HELD, INIT_LOCK, handle, disk, lives>>

\* The call returns and gives INIT_LOCK back.
Ends(c, answer) ==
    /\ at' = [at EXCEPT ![c] = "idle"]
    /\ wants' = [wants EXCEPT ![c] = NoMachine]
    /\ said' = [said EXCEPT ![c] = answer]
    /\ INIT_LOCK' = Nobody

Refuses(c, error) == Ends(c, MachineSays(error))

\* Mutant of LookAtHeld: the lock is not taken.
LookAtHeldUnlocked(c) ==
    /\ at[c] = "calling"
    /\ IF HELD = NoMachine
       THEN /\ at' = [at EXCEPT ![c] = "opening"]
            /\ UNCHANGED <<INIT_LOCK, wants, said>>
       ELSE IF HELD = wants[c] THEN Ends(c, "ok") ELSE Refuses(c, "AlreadyInitialised")
    /\ UNCHANGED <<HELD, handle, touched, disk, lives>>

\* INIT_LOCK is taken and HELD read. A call that finds a machine ends here.
LookAtHeld(c) ==
    /\ at[c] = "calling" /\ INIT_LOCK = Nobody
    /\ IF HELD = NoMachine
       THEN /\ INIT_LOCK' = c
            /\ at' = [at EXCEPT ![c] = "opening"]
            /\ UNCHANGED <<wants, said>>
       ELSE IF HELD = wants[c] THEN Ends(c, "ok") ELSE Refuses(c, "AlreadyInitialised")
    /\ UNCHANGED <<HELD, handle, touched, disk, lives>>

\* Mutant of RefuseIdentifier: the store is opened before the ids are parsed.
RefuseIdentifierLate(c) ==
    /\ at[c] = "opening" /\ wants[c].account \in Malformed
    /\ Refuses(c, "MalformedIdentifier")
    /\ touched' = touched \cup {c}
    /\ UNCHANGED <<HELD, handle, disk, lives>>

\* build, up to the store: an identifier that does not parse ends the call
\* before the disk is reached.
RefuseIdentifier(c) ==
    /\ at[c] = "opening" /\ wants[c].account \in Malformed
    /\ Refuses(c, "MalformedIdentifier")
    /\ UNCHANGED <<HELD, handle, touched, disk, lives>>

\* Two opens of one fresh path collide on sqlite's migration lock.
Collides(c) ==
    \E d \in Callers \ {c} : at[d] = "loading" /\ wants[d].path = wants[c].path

OpensWith(store, k) == store.passphrase = k.passphrase

\* SqliteCryptoStore::open: creates the store, or opens the one there.
OpenStore(c) ==
    LET k == wants[c] IN
    /\ at[c] = "opening" /\ k.account \notin Malformed
    /\ touched' = touched \cup {c}
    /\ \/ /\ ~Collides(c) /\ \A store \in disk[k.path] : OpensWith(store, k)
          /\ disk' = IF disk[k.path] = {}
                     THEN [disk EXCEPT ![k.path] =
                             {[account |-> Nobody, passphrase |-> k.passphrase]}]
                     ELSE disk
          /\ at' = [at EXCEPT ![c] = "loading"]
          /\ UNCHANGED <<INIT_LOCK, wants, said>>
       \/ /\ \/ Collides(c) \/ k.path \in Unreliable
             \/ \E store \in disk[k.path] : ~OpensWith(store, k)
          /\ Refuses(c, "Store")
          /\ UNCHANGED disk
    /\ UNCHANGED <<HELD, handle, lives>>

\* OlmMachine::with_store: the account found there, or a new one.
LoadAccount(c) ==
    LET k == wants[c] IN
    /\ at[c] = "loading"
    /\ \E store \in disk[k.path] :
        \/ /\ store.account \in {Nobody, k.account}
           /\ disk' = [disk EXCEPT ![k.path] = {[store EXCEPT !.account = k.account]}]
           /\ at' = [at EXCEPT ![c] = "built"]
           /\ UNCHANGED <<INIT_LOCK, wants, said>>
        \/ /\ store.account \notin {Nobody, k.account}
           /\ Refuses(c, "MismatchedAccount")
           /\ UNCHANGED disk
        \/ /\ k.path \in Unreliable
           /\ Refuses(c, "Store")
           /\ UNCHANGED disk
    /\ UNCHANGED <<HELD, handle, touched, lives>>

\* The end of init. That it never overwrites a machine, which the code asserts,
\* is part of the promise below.
Hold(c) ==
    /\ at[c] = "built"
    /\ HELD' = wants[c]
    /\ Ends(c, "ok")
    /\ UNCHANGED <<handle, touched, disk, lives>>

-----------------------------------------------------------------------------
(* with_machine.                                                           *)

\* held(): a call made while the store is being opened is refused like one
\* made before.
ReadHeld(c, surface) ==
    /\ at[c] = "idle"
    /\ IF HELD = NoMachine
       THEN /\ said' = [said EXCEPT ![c] = Says(surface, "NotInitialised")]
            /\ UNCHANGED <<at, handle>>
       ELSE /\ handle' = [handle EXCEPT ![c] = HELD]
            /\ at' = [at EXCEPT ![c] = "inside"]
            /\ UNCHANGED said
    /\ touched' = touched \ {c}
    /\ UNCHANGED <<HELD, INIT_LOCK, wants, disk, lives>>

\* The closure, under the lock of the machine that was cloned out.
RunClosure(c) ==
    /\ at[c] = "inside"
    /\ at' = [at EXCEPT ![c] = "idle"]
    /\ handle' = [handle EXCEPT ![c] = NoMachine]
    /\ said' = [said EXCEPT ![c] = "served"]
    /\ UNCHANGED <<HELD, INIT_LOCK, wants, touched, disk, lives>>

\* The process ends, anywhere, and another one starts on the same disk.
Restart ==
    /\ lives < MaxLives
    /\ lives' = lives + 1
    /\ HELD' = NoMachine
    /\ INIT_LOCK' = Nobody
    /\ at' = [c \in Callers |-> "idle"]
    /\ wants' = [c \in Callers |-> NoMachine]
    /\ handle' = [c \in Callers |-> NoMachine]
    /\ said' = [c \in Callers |-> "none"]
    /\ touched' = {}
    /\ UNCHANGED disk

CallStep ==
    \E c \in Callers :
        \/ \E k \in Configs : CreateMachine(c, k)
        \/ LookAtHeld(c) \/ RefuseIdentifier(c)
        \/ OpenStore(c) \/ LoadAccount(c) \/ Hold(c)
        \/ \E surface \in Surfaces : ReadHeld(c, surface)
        \/ RunClosure(c)

Next == CallStep \/ Restart

Spec == Init /\ [][Next]_vars

-----------------------------------------------------------------------------
(* Properties.                                                             *)

Stages == {"idle", "calling", "opening", "loading", "built", "inside"}
Endings == {"none", "ok", "served", "NotInitialised", "Failed"} \cup StoreErrors

\* Every variable has its type.
TypeOK ==
    /\ HELD \in Configs \cup {NoMachine}
    /\ INIT_LOCK \in Callers \cup {Nobody}
    /\ at \in [Callers -> Stages]
    /\ wants \in [Callers -> Configs \cup {NoMachine}]
    /\ handle \in [Callers -> Configs \cup {NoMachine}]
    /\ said \in [Callers -> Endings]
    /\ touched \subseteq Callers
    /\ lives \in Nat

\* A call that builds holds the lock, and there is no machine yet; a call
\* inside with_machine holds the machine there is.
Building(c) == at[c] \in {"opening", "loading", "built"}

\* What is in a store came from calls that named its path.
Stores == [account : {k.account : k \in Configs} \cup {Nobody},
           passphrase : {k.passphrase : k \in Configs}]

DiskInv ==
    /\ disk \in [Paths -> SUBSET Stores]
    /\ \A p \in Paths : \A store \in disk[p] :
        /\ \E k \in Configs : k.path = p /\ k.passphrase = store.passphrase
        /\ store.account # Nobody =>
              \E k \in Configs : k.path = p /\ k.account = store.account

HolderInv ==
    /\ TypeOK /\ DiskInv
    /\ \A c \in Callers :
        /\ Building(c) => INIT_LOCK = c /\ HELD = NoMachine
        /\ wants[c] # NoMachine <=> Building(c) \/ at[c] = "calling"
        /\ at[c] = "inside" => handle[c] = HELD /\ HELD # NoMachine

\* "No store on a rejected config": a call turned away because the process
\* holds another machine, or because its identifier does not parse, never
\* reached the disk, whatever ran beside it.
RejectedTouchesNothing ==
    \A c \in Callers :
        said[c] \in {"AlreadyInitialised", "MalformedIdentifier"} => c \notin touched

\* What is promised of the holder as a whole.
Sound == {k \in Configs : /\ k.account \notin Malformed /\ k.path \notin Unreliable
                          /\ \A other \in Configs : other.path = k.path => other = k}

ToldOf(answer) ==
    CASE answer = "AlreadyInitialised" -> "already_initialised"
      [] answer = "NotInitialised" -> "not_initialised"
      [] answer \in {"MalformedIdentifier", "Store", "MismatchedAccount"} -> "refused"
      [] OTHER -> answer

Promise == INSTANCE OneMachine
    WITH machine <- HELD, asked <- wants,
         told <- [c \in Callers |-> ToldOf(said[c])]

\* machine.rs keeps that promise: one machine for each process, chosen once by
\* the first configuration whose store opens; equal calls succeed, also at
\* the same time, other configurations are turned away, and every error
\* reaches the product under the name that is true of it.
KeepsPromise == Promise!Spec
=============================================================================
