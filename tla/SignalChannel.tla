---------------------------- MODULE SignalChannel ----------------------------
(***************************************************************************)
(* The crypto signal channel from end to end: the observer registry of     *)
(* observer.rs, the announcing pass of a sync that consumes an invitation  *)
(* in order to announce it, the delivery on a detached thread, and the     *)
(* listener set of signals.ts with its nativeInstalled flag.               *)
(*                                                                         *)
(* The JavaScript thread runs one function at a time, so subscribing,      *)
(* unsubscribing and a dispatch are one step each; a sync and the          *)
(* deliveries run on other threads between them.  A call into the native   *)
(* module may throw, and then has done nothing.  A hot reload evaluates    *)
(* signals.ts again and leaves the native side as it is: nothing reaches   *)
(* the earlier copy but the observer it built and the functions its        *)
(* onCryptoSignal returned, which keep its set and its flag.               *)
(*                                                                         *)
(* FlowRegistry models what a pass reads and marks.  Here an invitation is *)
(* waiting, taken by a pass, on its way, over, or lost.                    *)
(***************************************************************************)
EXTENDS Naturals, FiniteSets

CONSTANTS
    Listeners,      \* callbacks, each subscribed by one component
    Throwing,       \* listeners that throw when they are called
    Invitations,
    Bare,           \* those whose only witness is the sync that carried them
    MaxCopies,      \* bound: evaluations of signals.ts
    Faults          \* native calls that may throw: "install", "clear"

ASSUME ChannelAssumption ==
    /\ Throwing \subseteq Listeners /\ Bare \subseteq Invitations
    /\ MaxCopies \in Nat \ {0}
    /\ Faults \subseteq {"install", "clear"}

VARIABLES
    CRYPTO_OBSERVER,    \* the copy of signals.ts that built the observer, or 0
    copy,               \* the copy that is reachable now
    nativeInstalled,    \* copy -> its flag
    listeners,          \* copy -> its set
    pass,               \* is a sync in its announcing pass?
    board,              \* invitation -> how far it got
    deliveries,         \* closures on the blocking pool
    \* Auxiliary.
    heard,              \* invitation -> listeners it was dispatched to
    loyal,              \* invitation -> listeners there ever since it was taken
    clearThrew,         \* the last clear of this copy threw
    silenced            \* an earlier copy cleared the observer of this one

js == <<copy, nativeInstalled, listeners>>
aux == <<heard, loyal, clearThrew, silenced>>
channelVars == <<CRYPTO_OBSERVER, js, pass, board, deliveries, aux>>

NoObserver == 0
Steps == {"absent", "waiting", "taken", "sent", "over", "lost"}
Copies == 1 .. MaxCopies
Subscribed == listeners[copy]

ChannelInit ==
    /\ CRYPTO_OBSERVER = NoObserver
    /\ copy = 1
    /\ nativeInstalled = [c \in Copies |-> FALSE] /\ listeners = [c \in Copies |-> {}]
    /\ pass = FALSE
    /\ board = [i \in Invitations |-> "absent"]
    /\ deliveries = {}
    /\ heard = [i \in Invitations |-> {}]
    /\ loyal = [i \in Invitations |-> {}]
    /\ clearThrew = FALSE /\ silenced = FALSE

-----------------------------------------------------------------------------
(* signals.ts.                                                             *)

\* Mutant of InstallNativeObserver: the flag is written before the call.
InstallNativeObserverFlagFirst(throws) ==
    /\ throws => ~nativeInstalled[copy] /\ "install" \in Faults
    /\ nativeInstalled' = [nativeInstalled EXCEPT ![copy] = TRUE]
    /\ CRYPTO_OBSERVER' = IF nativeInstalled[copy] \/ throws THEN CRYPTO_OBSERVER ELSE copy

\* installNativeObserver: the flag is written after the call it describes.
InstallNativeObserver(throws) ==
    /\ throws => ~nativeInstalled[copy] /\ "install" \in Faults
    /\ nativeInstalled' = [nativeInstalled EXCEPT ![copy] = @ \/ ~throws]
    /\ CRYPTO_OBSERVER' = IF nativeInstalled[copy] \/ throws THEN CRYPTO_OBSERVER ELSE copy

\* onCryptoSignal: install first, then register.
Subscribe(l, throws) ==
    /\ l \notin Subscribed
    /\ InstallNativeObserver(throws)
    /\ listeners' = IF throws THEN listeners ELSE [listeners EXCEPT ![copy] = @ \cup {l}]
    /\ clearThrew' = (clearThrew /\ throws)
    /\ UNCHANGED <<copy, pass, board, deliveries, heard, loyal, silenced>>

\* Mutant of UninstallNativeObserver: the observer stays.
UninstallNativeObserverNever(c, throws) ==
    /\ ~throws
    /\ UNCHANGED <<nativeInstalled, CRYPTO_OBSERVER>>

\* uninstallNativeObserver, with the same ordering rule. What it clears is the
\* registry, whichever copy built the observer in it.
UninstallNativeObserver(c, throws) ==
    /\ throws => nativeInstalled[c] /\ "clear" \in Faults
    /\ nativeInstalled' = [nativeInstalled EXCEPT ![c] = @ /\ throws]
    /\ CRYPTO_OBSERVER' =
          IF nativeInstalled[c] /\ ~throws THEN NoObserver ELSE CRYPTO_OBSERVER

\* What becomes of the two notes when copy c may have cleared the registry.
Noted(c, throws) ==
    IF c = copy
    THEN /\ clearThrew' = (throws \/ (clearThrew /\ listeners'[copy] # {}))
         /\ silenced' = (silenced /\ nativeInstalled'[copy])
    ELSE /\ UNCHANGED clearThrew
         /\ silenced' = (silenced \/ (CRYPTO_OBSERVER = copy /\ CRYPTO_OBSERVER' # copy))

\* The function the onCryptoSignal of copy c returned, called for the first time
\* or again: the last one out of its set uninstalls.
Unsubscribe(c, l, throws) ==
    /\ c <= copy
    /\ listeners' = [listeners EXCEPT ![c] = @ \ {l}]
    /\ IF listeners'[c] = {}
       THEN UninstallNativeObserver(c, throws)
       ELSE ~throws /\ UNCHANGED <<nativeInstalled, CRYPTO_OBSERVER>>
    /\ Noted(c, throws)
    /\ loyal' = IF c = copy THEN [i \in Invitations |-> loyal[i] \ {l}] ELSE loyal
    /\ UNCHANGED <<copy, pass, board, deliveries, heard>>

\* A hot reload: a new copy with an empty set and its flag down.
HotReload ==
    /\ copy < MaxCopies
    /\ copy' = copy + 1
    /\ loyal' = [i \in Invitations |-> {}]
    /\ clearThrew' = FALSE /\ silenced' = FALSE
    /\ UNCHANGED <<CRYPTO_OBSERVER, nativeInstalled, listeners, pass, board, deliveries, heard>>

-----------------------------------------------------------------------------
(* The native side.                                                        *)

Arrives(i) ==
    /\ board[i] = "absent"
    /\ board' = [board EXCEPT ![i] = "waiting"]
    /\ UNCHANGED <<CRYPTO_OBSERVER, js, pass, deliveries, aux>>

\* announce_state_changes of the sync: with nobody registered it returns at once,
\* and what only that sync could show it is lost. Otherwise it takes what waits.
Unheard(i) == IF i \in Bare THEN "lost" ELSE "waiting"
BeginPass ==
    /\ ~pass
    /\ LET next == IF CRYPTO_OBSERVER = NoObserver THEN [i \in Invitations |-> Unheard(i)]
                   ELSE [i \in Invitations |-> "taken"] IN
       board' = [i \in Invitations |-> IF board[i] = "waiting" THEN next[i] ELSE board[i]]
    /\ pass' = \E i \in Invitations : board'[i] = "taken"
    /\ loyal' = [i \in Invitations |-> IF board'[i] = "taken" THEN Subscribed ELSE loyal[i]]
    /\ UNCHANGED <<CRYPTO_OBSERVER, js, deliveries, heard, clearThrew, silenced>>

\* emit_crypto from announce: the registry is read again, the closure handed to
\* the pool, and what reaches nobody is put back. The next pass reads a request
\* again, and has nothing to read a bare start from.
Emit(i) ==
    /\ pass /\ board[i] = "taken"
    /\ IF CRYPTO_OBSERVER = NoObserver
       THEN board' = [board EXCEPT ![i] = Unheard(i)] /\ UNCHANGED deliveries
       ELSE /\ board' = [board EXCEPT ![i] = "sent"]
            /\ deliveries' = deliveries \cup {[signal |-> i, to |-> CRYPTO_OBSERVER]}
    /\ UNCHANGED <<CRYPTO_OBSERVER, js, pass, aux>>

EndPass ==
    /\ pass /\ \A i \in Invitations : board[i] # "taken"
    /\ pass' = FALSE
    /\ UNCHANGED <<CRYPTO_OBSERVER, js, board, deliveries, aux>>

\* Mutant of Reached: a listener that throws ends the loop.
ReachedUntilThrow ==
    IF Subscribed \cap Throwing = {} THEN {Subscribed}
    ELSE {{l} : l \in Subscribed \cap Throwing}

\* emitCryptoSignal: every listener of the snapshot is called, whatever the
\* ones before it did.
Reached == {Subscribed}

\* on_signal on a thread of the pool. The observer of an earlier copy calls into
\* the set of that copy: what it tells is not heard in this one.
Deliver(d) ==
    /\ \E reached \in (IF d.to = copy THEN Reached ELSE {{}}) :
          heard' = [heard EXCEPT ![d.signal] = @ \cup reached]
    /\ deliveries' = deliveries \ {d}
    /\ board' = [board EXCEPT ![d.signal] = "over"]
    /\ UNCHANGED <<CRYPTO_OBSERVER, js, pass, loyal, clearThrew, silenced>>

DeliverNext == \E d \in deliveries : Deliver(d)

ChannelNext ==
    \/ \E l \in Listeners, throws \in BOOLEAN :
          Subscribe(l, throws) \/ \E c \in Copies : Unsubscribe(c, l, throws)
    \/ HotReload
    \/ \E i \in Invitations : Arrives(i) \/ Emit(i)
    \/ BeginPass \/ EndPass
    \/ DeliverNext

ChannelSpec == ChannelInit /\ [][ChannelNext]_channelVars

\* The product goes on syncing and the pool runs what it was handed. Nobody
\* has to subscribe, and nothing has to stop throwing.
Fairness ==
    /\ WF_channelVars(BeginPass) /\ WF_channelVars(EndPass)
    /\ \A i \in Invitations : WF_channelVars(Emit(i))
    /\ WF_channelVars(DeliverNext)

FairChannelSpec == ChannelSpec /\ Fairness

-----------------------------------------------------------------------------
(* Properties.                                                             *)

ChannelTypeOK ==
    /\ copy \in Copies /\ CRYPTO_OBSERVER \in 0 .. copy
    /\ nativeInstalled \in [Copies -> BOOLEAN] /\ listeners \in [Copies -> SUBSET Listeners]
    /\ clearThrew \in BOOLEAN /\ silenced \in BOOLEAN /\ pass \in BOOLEAN
    /\ board \in [Invitations -> Steps]
    /\ deliveries \subseteq [signal : Invitations, to : 1 .. copy]
    /\ heard \in [Invitations -> SUBSET Listeners]
    /\ loyal \in [Invitations -> SUBSET Listeners]

\* The flag "kept in lockstep": whatever threw, an observer of this copy is never
\* installed with the flag down, a listener is never in a set whose flag is down, and
\* an observer is installed behind an empty set only after a clear that threw or a
\* reload, which is when an invitation can be consumed with nobody listening. The flag
\* is up with no observer in one case: a function that an earlier copy returned was
\* called after the reload and cleared what this copy installed. Then the channel is
\* silent until this copy's last listener leaves, and signals.ts names no such window.
FlagTellsTruth ==
    /\ ChannelTypeOK
    /\ CRYPTO_OBSERVER = copy => nativeInstalled[copy]
    /\ nativeInstalled[copy] => CRYPTO_OBSERVER = copy \/ silenced
    /\ silenced => copy > 1 /\ nativeInstalled[copy] /\ CRYPTO_OBSERVER = NoObserver
    /\ Subscribed # {} => nativeInstalled[copy]
    /\ CRYPTO_OBSERVER = copy => Subscribed # {} \/ clearThrew

\* Who is subscribed from the moment a pass takes an invitation until it is over has
\* been called with it: no interleaving of the other listeners' coming and going, of
\* reloads, or of listeners that throw, costs it that. A bare start is lost when
\* nobody is there, and before any reload only then.
LoyalListenersHear ==
    \A i \in Invitations :
        /\ board[i] = "over" => loyal[i] \subseteq heard[i]
        /\ board[i] = "lost" /\ copy = 1 => loyal[i] = {}

\* Returning from onCryptoSignal means the channel is there: whoever subscribes and
\* stays hears every invitation that is still to be announced, whatever threw before,
\* whoever else comes and goes, and after a reload. A bare start that reached nobody
\* is not to be announced any more, and a copy that is silenced is told nothing.
StayerHears ==
    \A i \in Invitations, l \in Listeners :
        [](board[i] \in {"waiting", "taken"} /\ [](l \in Subscribed /\ ~silenced)
             => <>(l \in heard[i]))
=============================================================================
