---------------------------- MODULE FlowRegistry ----------------------------
(***************************************************************************)
(* The registry of verification flows of verification.rs (FLOWS), the      *)
(* syncs that find flows finished or newly arrived, the calls that sweep   *)
(* it, and the observer the news of all that is for.                       *)
(*                                                                         *)
(* The registry has a lock of its own. A sync advances flows under the     *)
(* machine lock, releases it, and only then takes the registry lock to     *)
(* collect what finished; any call that registers a flow sweeps finished   *)
(* ones in between. Two exemptions of the sweep and two marks per record   *)
(* are all that keep the two from losing or repeating a completion.        *)
(*                                                                         *)
(* A flow here is one with another user. Its stages are the ones the       *)
(* registry tells apart: "open" stands for ready, started, keys exchanged  *)
(* and code scanned.                                                       *)
(***************************************************************************)
EXTENDS Bindings, FiniteSets

CONSTANTS
    Flows,          \* flow identifiers
    Syncs,          \* concurrent calls of receive_sync_changes
    Callers,        \* concurrent product calls that register a flow
    MaxWired        \* bound: the flows a call names by an identifier read off the sync

\* No sync and no flow.
Free == "free"

ASSUME FlowAssumption ==
    /\ Free \notin Flows \cup Syncs
    /\ MaxWired \in Nat

VARIABLES
    began,          \* flow -> how it began: "no", "here", "there" or "bare"
    stage,          \* flow -> upstream's stage of its comparison, code or request
    over,           \* flows whose request upstream has finished or cancelled
    codes,          \* flows that became a scanned code
    halfway,        \* the flow whose far side's done has reached its request only, or Free
    registered,     \* the keys of FLOWS
    announced,      \* records with completion_announced
    queried,        \* records with key_query_queued
    torn,           \* flows whose record a sweep took while they were halfway
    observer,       \* CRYPTO_OBSERVER: is one registered?
    machine,        \* the sync that holds the machine lock, or Free
    sync,           \* sync -> where it is and what it carries
    call,           \* caller -> the flow it is about to register, or Free
    given,          \* flows whose identifier this library gave the product
    wired,          \* flows a call named before that
    invited,        \* flow -> invitations delivered, at most 2 counted
    told,           \* flow -> completions delivered, at most 2 counted
    asked,          \* flow -> key queries queued, at most 2 counted
    attended        \* finished flows an observer has been there for since

upstream == <<began, stage, over, codes, halfway>>
registry == <<registered, announced, queried, torn>>
news == <<given, wired, invited, told, asked, attended>>
vars == <<upstream, registry, observer, machine, sync, call, news>>

Stages == {"absent", "requested", "open", "confirmed", "done", "cancelled"}
Resting == [at |-> "idle", starts |-> {}, owed |-> {}, signals |-> {}]
Signal == [kind : Signals, flow : Flows]

Finished(f) == stage[f] \in {"done", "cancelled"}
Live(f) == stage[f] \in {"requested", "open", "confirmed"}
Running == {s \in Syncs : sync[s].at # "idle"}
More(n) == IF n < 2 THEN n + 1 ELSE n

Init ==
    /\ began = [f \in Flows |-> "no"]
    /\ stage = [f \in Flows |-> "absent"]
    /\ over = {} /\ codes = {} /\ halfway = Free
    /\ registered = {} /\ announced = {} /\ queried = {} /\ torn = {}
    /\ observer \in BOOLEAN
    /\ machine = Free
    /\ sync = [s \in Syncs |-> Resting]
    /\ call = [c \in Callers |-> Free]
    /\ given = {} /\ wired = {} /\ attended = {}
    /\ invited = [f \in Flows |-> 0]
    /\ told = [f \in Flows |-> 0]
    /\ asked = [f \in Flows |-> 0]

-----------------------------------------------------------------------------
(* The registry's own operations.                                          *)

(* Mutants of release_finished: an exemption dropped, the second question   *)
(* not asked.                                                              *)
KeptUnannounced(f) ==
    (~Finished(f) /\ f \notin over) \/ (stage[f] = "done" /\ f \notin announced /\ observer)
KeptUnqueried(f) ==
    (~Finished(f) /\ f \notin over) \/ (stage[f] = "done" /\ f \notin queried)
KeptByStage(f) ==
    ~Finished(f) \/ (stage[f] = "done" /\ ((f \notin announced /\ observer) \/ f \notin queried))

\* release_finished: the records a sweep leaves.
Kept(f) ==
    \/ ~Finished(f) /\ f \notin over
    \/ /\ stage[f] = "done"
       /\ (f \notin announced /\ observer) \/ f \notin queried

Swept == {f \in registered : Kept(f)}

\* register: sweep, then insert whatever is not there yet.
Insert(added) ==
    /\ registered' = Swept \cup added
    /\ announced' = announced \cap Swept
    /\ queried' = queried \cap Swept
    /\ torn' = torn \cup ((registered \cap {halfway}) \ Swept)

\* forget_flow: undo an insertion nobody was told of.
Forget(f) ==
    /\ registered' = registered \ {f}
    /\ announced' = announced \ {f}
    /\ queried' = queried \ {f}
    /\ UNCHANGED torn

-----------------------------------------------------------------------------
(* Product calls.                                                          *)

\* request_flow's trip to the machine: upstream makes the request.
RequestFlow(c, f) ==
    /\ call[c] = Free /\ machine = Free /\ began[f] = "no"
    /\ began' = [began EXCEPT ![f] = "here"]
    /\ stage' = [stage EXCEPT ![f] = "requested"]
    /\ call' = [call EXCEPT ![c] = f]
    /\ UNCHANGED <<over, codes, halfway, registry, observer, machine, sync, news>>

\* A call names a flow, by an identifier it was given or one it read itself.
Name(f) ==
    /\ \/ f \in given
       \/ began[f] \in {"there", "bare"} /\ Cardinality(wired \cup {f}) <= MaxWired
    /\ wired' = IF f \in given THEN wired ELSE wired \cup {f}
    /\ UNCHANGED <<given, invited, told, asked>>

\* handles, for an identifier the registry does not hold: the flow is looked
\* up upstream and adopted if it is not over.
Adopt(c, f) ==
    /\ Name(f)
    /\ call[c] = Free /\ f \notin registered
    /\ Live(f) /\ f \notin over
    /\ call' = [call EXCEPT ![c] = f]
    /\ UNCHANGED <<upstream, registry, observer, machine, sync, attended>>

\* register, at the end of either.
Register(c) ==
    /\ call[c] # Free
    /\ Insert({call[c]})
    /\ given' = IF began[call[c]] = "here" THEN given \cup {call[c]} ELSE given
    /\ call' = [call EXCEPT ![c] = Free]
    /\ UNCHANGED <<upstream, observer, machine, sync, wired, invited, told, asked,
                   attended>>

\* accept_flow on an invitation.
AcceptFlow(f) ==
    /\ Name(f) /\ f \in registered
    /\ stage[f] = "requested" /\ began[f] = "there"
    /\ stage' = [stage EXCEPT ![f] = "open"]
    /\ UNCHANGED <<began, over, codes, halfway, registry, observer, machine, sync, call,
                   attended>>

\* A flow is done, and an observer is or is not there to be told.
Attend(f) == attended' = IF observer THEN attended \cup {f} ELSE attended

\* confirm_flow of a comparison, in a trip to the machine. One that came from
\* a request waits for the far side's done; one that began bare is done with
\* this call if the far side has confirmed already, and else when it does.
ConfirmFlow(f) ==
    /\ Name(f) /\ f \in registered
    /\ machine = Free /\ stage[f] = "open"
    /\ \/ stage' = [stage EXCEPT ![f] = "confirmed"] /\ UNCHANGED attended
       \/ began[f] = "bare" /\ stage' = [stage EXCEPT ![f] = "done"] /\ Attend(f)
    /\ UNCHANGED <<began, over, codes, halfway, registry, observer, machine, sync, call>>

\* confirm_scan of a code shown, submit_scanned_code of one read.
ConfirmScan(f) ==
    /\ Name(f) /\ f \in registered
    /\ stage[f] = "open" /\ began[f] # "bare"
    /\ stage' = [stage EXCEPT ![f] = "confirmed"]
    /\ codes' = codes \cup {f}
    /\ UNCHANGED <<began, over, halfway, registry, observer, machine, sync, call, attended>>

\* cancel_flow.
CancelFlow(f) ==
    /\ Name(f) /\ f \in registered /\ Live(f)
    /\ stage' = [stage EXCEPT ![f] = "cancelled"]
    /\ over' = over \cup {f}
    /\ UNCHANGED <<began, codes, halfway, registry, observer, machine, sync, call, attended>>

\* set_crypto_observer and clear_crypto_observer.
Subscribe ==
    /\ ~observer /\ observer' = TRUE
    /\ UNCHANGED <<upstream, registry, machine, sync, call, news>>

Unsubscribe ==
    /\ observer /\ observer' = FALSE
    /\ attended' = {}
    /\ UNCHANGED <<upstream, registry, machine, sync, call, given, wired, invited,
                   told, asked>>

-----------------------------------------------------------------------------
(* A sync, under the machine lock: what its events do to the flows.        *)

Begin(s) ==
    /\ sync[s].at = "idle" /\ machine = Free
    /\ machine' = s
    /\ sync' = [sync EXCEPT ![s].at = "receiving"]
    /\ UNCHANGED <<upstream, registry, observer, call, news>>

\* An invitation, or a comparison begun without one.
Arrives(s, f, how) ==
    /\ machine = s /\ halfway = Free /\ began[f] = "no"
    /\ began' = [began EXCEPT ![f] = how]
    /\ stage' = [stage EXCEPT ![f] = IF how = "bare" THEN "open" ELSE "requested"]
    /\ sync' = IF how = "bare" THEN [sync EXCEPT ![s].starts = @ \cup {f}] ELSE sync
    /\ UNCHANGED <<over, codes, halfway, registry, observer, machine, call, news>>

\* The far side accepts what this side requested. request_flow queues the
\* request after it has registered the flow.
Accepted(s, f) ==
    /\ machine = s /\ halfway = Free
    /\ began[f] = "here" /\ stage[f] = "requested" /\ f \in given
    /\ stage' = [stage EXCEPT ![f] = "open"]
    /\ UNCHANGED <<began, over, codes, halfway, registry, observer, machine, sync, call,
                   news>>

\* The far side's done reaches the request first, which it finishes whatever
\* the handle the flow became is at.
DoneOverRequest(s, f) ==
    /\ machine = s /\ halfway = Free
    /\ began[f] \in {"here", "there"} /\ f \notin over
    /\ stage[f] \in {"open", "confirmed"}
    /\ over' = over \cup {f} /\ halfway' = f
    /\ UNCHANGED <<began, stage, codes, registry, observer, machine, sync, call, news>>

\* Then it reaches the comparison or the code, which it finishes only if this
\* side has confirmed. A bare comparison has no request, and is finished by
\* the far side's confirmation.
DoneOverHandle(s, f) ==
    /\ machine = s
    /\ \/ halfway = f
       \/ halfway = Free /\ began[f] = "bare" /\ stage[f] = "confirmed"
    /\ halfway' = Free
    /\ IF stage[f] = "confirmed"
       THEN stage' = [stage EXCEPT ![f] = "done"] /\ Attend(f)
       ELSE UNCHANGED <<stage, attended>>
    /\ UNCHANGED <<began, over, codes, registry, observer, machine, sync, call,
                   given, wired, invited, told, asked>>

\* A cancellation by the far side, or a timeout.
Cancelled(s, f) ==
    /\ machine = s /\ halfway = Free
    /\ Live(f) /\ f \notin over
    /\ began[f] = "here" => f \in given
    /\ stage' = [stage EXCEPT ![f] = "cancelled"]
    /\ over' = over \cup {f}
    /\ UNCHANGED <<began, codes, halfway, registry, observer, machine, sync, call, news>>

\* A done is applied to the end before the lock goes.
Release(s) ==
    /\ machine = s /\ halfway = Free
    /\ machine' = Free
    /\ sync' = [sync EXCEPT ![s].at = "received"]
    /\ UNCHANGED <<upstream, registry, observer, call, news>>

-----------------------------------------------------------------------------
(* The same sync, after it released the machine lock.                      *)

DoneRecords == {f \in registered : stage[f] = "done"}

\* peers_owed_a_key_query.
CollectOwed(s) ==
    LET owed == (DoneRecords \ queried) \cap codes
    IN  /\ sync[s].at = "received"
        /\ queried' = queried \cup DoneRecords
        /\ sync' = [sync EXCEPT ![s].owed = owed,
                                ![s].at = IF owed = {} THEN "asked" ELSE "owing"]
        /\ UNCHANGED <<upstream, registered, announced, torn, observer, machine, call, news>>

\* The trip to the machine of queue_peer_key_queries.
QueueQueries(s) ==
    /\ sync[s].at = "owing" /\ machine = Free
    /\ asked' = [f \in Flows |-> IF f \in sync[s].owed THEN More(asked[f]) ELSE asked[f]]
    /\ sync' = [sync EXCEPT ![s].owed = {}, ![s].at = "asked"]
    /\ UNCHANGED <<upstream, registry, observer, machine, call, given, wired,
                   invited, told, attended>>

\* The signals of a pass. A comparison that completed moved a device; what a
\* scan moved is told by no device, and its flow is named instead.
Completion(f) ==
    [kind |-> IF f \in codes THEN "VerificationCompleted" ELSE "TrustChanged", flow |-> f]
Invitation(f) == [kind |-> "VerificationRequested", flow |-> f]

\* announce_state_changes: nobody listens.
NobodyListens(s) ==
    /\ sync[s].at = "asked" /\ ~observer
    /\ sync' = [sync EXCEPT ![s] = Resting]
    /\ UNCHANGED <<upstream, registry, observer, machine, call, news>>

(* Mutant: the records are not marked by the walk that collects them.       *)
TakeCompletionsUnmarked(s) ==
    /\ sync[s].at = "asked" /\ observer
    /\ sync' = [sync EXCEPT ![s].signals = {Completion(f) : f \in DoneRecords \ announced},
                            ![s].at = "taken"]
    /\ UNCHANGED <<upstream, registry, observer, machine, call, news>>

\* take_pending_completions, once somebody is found to listen.
TakeCompletions(s) ==
    LET completions == {Completion(f) : f \in DoneRecords \ announced}
    IN  /\ sync[s].at = "asked" /\ observer
        /\ announced' = announced \cup DoneRecords
        /\ sync' = [sync EXCEPT ![s].signals = completions, ![s].at = "taken"]
        /\ UNCHANGED <<upstream, registered, queried, torn, observer, machine, call, news>>

\* The flows the pass finds to announce: every invitation upstream lists, and
\* the comparisons this sync's own events began.
Invitations(s) ==
    {f \in Flows : \/ began[f] = "there" /\ stage[f] = "requested"
                   \/ f \in sync[s].starts /\ Live(f)}

(* Mutant: registered whether or not the registry holds it, and announced.  *)
CollectInvitationsAnew(s) ==
    LET found == Invitations(s)
    IN  /\ sync[s].at = "taken" /\ machine = Free
        /\ IF found = {} THEN UNCHANGED registry ELSE Insert(found)
        /\ sync' = [sync EXCEPT ![s].signals =
                        @ \cup {Invitation(f) : f \in found},
                    ![s].starts = {}, ![s].at = "announcing"]
        /\ UNCHANGED <<upstream, observer, machine, call, news>>

\* The trip to the machine of announce_state_changes: an invitation is
\* registered if the registry does not hold it, and only then announced.
CollectInvitations(s) ==
    LET found == Invitations(s)
        fresh == found \ Swept
    IN  /\ sync[s].at = "taken" /\ machine = Free
        /\ IF found = {} THEN UNCHANGED registry ELSE Insert(fresh)
        /\ sync' = [sync EXCEPT ![s].signals =
                        @ \cup {Invitation(f) : f \in fresh},
                    ![s].starts = {}, ![s].at = "announcing"]
        /\ UNCHANGED <<upstream, observer, machine, call, news>>

\* announce, one signal: delivered, or put back if it is an invitation.
Deliver(f, kind) ==
    /\ UNCHANGED registry
    /\ IF Crossed(CryptoSignal, kind) = "VerificationRequested"
       THEN /\ invited' = [invited EXCEPT ![f] = More(@)]
            /\ given' = given \cup {f}
            /\ UNCHANGED told
       ELSE /\ told' = [told EXCEPT ![f] = More(@)]
            /\ UNCHANGED <<invited, given>>

(* Mutant: an undelivered invitation stays registered.                      *)
PutBackNothing(f, kind) == UNCHANGED <<registry, given, invited, told>>

PutBack(f, kind) ==
    /\ IF kind = "VerificationRequested" THEN Forget(f) ELSE UNCHANGED registry
    /\ UNCHANGED <<given, invited, told>>

Announce(s) ==
    /\ sync[s].at = "announcing"
    /\ \E signal \in sync[s].signals :
        /\ IF observer THEN Deliver(signal.flow, signal.kind)
                       ELSE PutBack(signal.flow, signal.kind)
        /\ sync' = [sync EXCEPT ![s].signals = @ \ {signal}]
    /\ UNCHANGED <<upstream, observer, machine, call, wired, asked, attended>>

Return(s) ==
    /\ sync[s].at = "announcing" /\ sync[s].signals = {}
    /\ sync' = [sync EXCEPT ![s] = Resting]
    /\ UNCHANGED <<upstream, registry, observer, machine, call, news>>

Next ==
    \/ Subscribe \/ Unsubscribe
    \/ \E c \in Callers :
        \/ Register(c)
        \/ \E f \in Flows : RequestFlow(c, f) \/ Adopt(c, f)
    \/ \E f \in Flows :
        AcceptFlow(f) \/ ConfirmFlow(f) \/ ConfirmScan(f) \/ CancelFlow(f)
    \/ \E s \in Syncs :
        \/ Begin(s) \/ Release(s)
        \/ \E f \in Flows :
            \/ \E how \in {"there", "bare"} : Arrives(s, f, how)
            \/ Accepted(s, f) \/ Cancelled(s, f)
            \/ DoneOverRequest(s, f) \/ DoneOverHandle(s, f)
        \/ CollectOwed(s) \/ QueueQueries(s)
        \/ NobodyListens(s) \/ TakeCompletions(s) \/ CollectInvitations(s)
        \/ Announce(s) \/ Return(s)

Spec == Init /\ [][Next]_vars

-----------------------------------------------------------------------------
(* Properties.                                                             *)

\* Every variable has its type, and the marks are of records that exist.
TypeOK ==
    /\ began \in [Flows -> {"no", "here", "there", "bare"}]
    /\ stage \in [Flows -> Stages]
    /\ over \subseteq Flows /\ codes \subseteq Flows
    /\ registered \subseteq Flows
    /\ announced \subseteq registered /\ queried \subseteq registered
    /\ halfway \in Flows \cup {Free} /\ torn \subseteq Flows
    /\ observer \in BOOLEAN
    /\ machine \in Syncs \cup {Free}
    /\ sync \in [Syncs -> [at : {"idle", "receiving", "received", "owing", "asked",
                                 "taken", "announcing"},
                           starts : SUBSET Flows, owed : SUBSET Flows,
                           signals : SUBSET Signal]]
    /\ call \in [Callers -> Flows \cup {Free}]
    /\ given \subseteq Flows /\ wired \subseteq Flows /\ attended \subseteq Flows
    /\ invited \in [Flows -> 0..2] /\ told \in [Flows -> 0..2]
    /\ asked \in [Flows -> 0..2]

InFlight(signal) == \E s \in Syncs : signal \in sync[s].signals

\* The flows no call named before this library gave out the identifier. The
\* properties below are about these; what a call that reads identifiers off
\* the sync can do to its own flow is described in the README.
Ordinary == Flows \ wired

\* The query a completed scan owes is never lost: until it is queued, a sync
\* carries it or an unmarked record does. release_finished races the syncs
\* for exactly this record (its second exemption). The one way to lose it is
\* named: a sweep between the two moves of the very done that completes the
\* flow, when its request is over and its code is not done yet (torn).
OwedQueryKept ==
    /\ TypeOK
    /\ \A f \in (Ordinary \cap codes) \ torn : stage[f] = "done" =>
          \/ asked[f] = 1
          \/ \E s \in Syncs : f \in sync[s].owed
          \/ f \in registered \ queried

\* A flow that finished while somebody listened, and listens still, is told
\* of: until then a pass carries it or an unmarked record does (the first
\* exemption of release_finished, against take_pending_completions). It may
\* finish in a sync or in confirm_flow; the sweep halfway through a done is
\* the one exception here too.
CompletionKept ==
    \A f \in (Ordinary \cap attended) \ torn :
        told[f] = 1 \/ InFlight(Completion(f)) \/ f \in registered \ announced

\* A registered invitation the product has not been given, and has not taken
\* up by itself, is on its way to it: announce puts back what it could not
\* deliver, or register_if_absent would never let it be announced again.
InvitationKept ==
    \A f \in Ordinary \cap registered :
        began[f] = "there" /\ stage[f] = "requested" =>
            f \in given \/ InFlight(Invitation(f))

\* Overlapping syncs and sweeps never make the library say a thing twice:
\* one invitation, one completion and one key query for each flow.
NothingTwice ==
    \A f \in Ordinary : invited[f] < 2 /\ told[f] < 2 /\ asked[f] < 2

\* A flow this library gave out and that is not over stays in the registry:
\* neither a sweep nor forget_flow takes it from the product.
GivenStaysRegistered ==
    \A f \in Ordinary \cap given : Live(f) /\ f \notin over => f \in registered

\* Eviction keeps up: a registration made while no sync runs leaves no flow
\* that is over, except completions the next sync will announce and bare
\* comparisons confirm_flow finished since the last walk of the registry.
EvictionKeepsUp ==
    [][Running = {} /\ registered' # registered =>
        \A f \in Ordinary \cap registered \cap registered' :
            (Finished(f) \/ f \in over) =>
                /\ stage[f] = "done"
                /\ \/ f \notin announced /\ observer
                   \/ f \notin queried /\ began[f] = "bare"]_vars
=============================================================================
