------------------------- MODULE FlowRegistryProofs -------------------------
(***************************************************************************)
(* Proofs about FlowRegistry, for any flows, syncs and callers.            *)
(***************************************************************************)
EXTENDS FlowRegistry, TLAPS

-----------------------------------------------------------------------------
(* Types.                                                                  *)

Steps == {"idle", "receiving", "received", "owing", "asked", "taken", "announcing"}
Syncing == [at : Steps, starts : SUBSET Flows, owed : SUBSET Flows,
            signals : SUBSET Signal]

\* What a signal is told as is what it is.
LEMMA SignalsCross == \A kind \in Signals : Crossed(CryptoSignal, kind) = kind
<1>1. \A kind \in Signals : \E n \in DOMAIN CryptoSignal : CryptoSignal[n] = kind
    BY DEF Signals, CryptoSignal
<1>2. QED
    BY <1>1 DEF Crossed, LiftEnum, LowerEnum, Generated

\* A signal made of a flow is one.
LEMMA SignalTypes ==
    ASSUME NEW f \in Flows
    PROVE  Completion(f) \in Signal /\ Invitation(f) \in Signal
BY DEF Completion, Invitation, Signal, Signals

\* A sync that moves on and carries other flows or signals.
LEMMA SyncTypes ==
    ASSUME TypeOK, NEW s \in Syncs, NEW at \in Steps, NEW starts \in SUBSET Flows,
           NEW owed \in SUBSET Flows, NEW signals \in SUBSET Signal
    PROVE  /\ [sync EXCEPT ![s].owed = owed, ![s].at = at] \in [Syncs -> Syncing]
           /\ [sync EXCEPT ![s].signals = signals, ![s].at = at] \in [Syncs -> Syncing]
           /\ [sync EXCEPT ![s].signals = signals, ![s].starts = starts, ![s].at = at]
                 \in [Syncs -> Syncing]
<1>1. sync \in [Syncs -> Syncing]
    BY DEF TypeOK, Syncing, Steps
<1>2. /\ [[sync[s] EXCEPT !.owed = owed] EXCEPT !.at = at] \in Syncing
      /\ [[sync[s] EXCEPT !.signals = signals] EXCEPT !.at = at] \in Syncing
      /\ [[[sync[s] EXCEPT !.signals = signals] EXCEPT !.starts = starts]
            EXCEPT !.at = at] \in Syncing
    BY <1>1 DEF Syncing
<1>3. QED
    BY <1>1, <1>2

\* The calls that change flows or the registry.
LEMMA CallTypes ==
    ASSUME TypeOK,
           \/ Subscribe \/ Unsubscribe
           \/ \E c \in Callers :
                \/ Register(c)
                \/ \E f \in Flows : RequestFlow(c, f) \/ Adopt(c, f)
           \/ \E f \in Flows : AcceptFlow(f) \/ ConfirmFlow(f) \/ ConfirmScan(f) \/ CancelFlow(f)
    PROVE  TypeOK'
<1> USE FlowAssumption DEF TypeOK, upstream, registry, news
<1>1. CASE Subscribe \/ Unsubscribe
    BY <1>1 DEF Subscribe, Unsubscribe
<1>2. ASSUME NEW c \in Callers, Register(c)
      PROVE  TypeOK'
    BY <1>2 DEF Register, Insert, Swept
<1>3. ASSUME NEW c \in Callers, NEW f \in Flows, RequestFlow(c, f) \/ Adopt(c, f)
      PROVE  TypeOK'
    <2>1. CASE RequestFlow(c, f)
        BY <2>1 DEF RequestFlow, Stages
    <2>2. CASE Adopt(c, f)
        BY <2>2 DEF Adopt, Name
    <2>3. QED
        BY <1>3, <2>1, <2>2
<1>4. ASSUME NEW f \in Flows, AcceptFlow(f) \/ ConfirmFlow(f) \/ ConfirmScan(f) \/ CancelFlow(f)
      PROVE  TypeOK'
    <2>1. CASE AcceptFlow(f) \/ CancelFlow(f)
        BY <2>1 DEF AcceptFlow, CancelFlow, Name, Stages
    <2>2. CASE ConfirmFlow(f)
        BY <2>2 DEF ConfirmFlow, Attend, Name, Stages
    <2>3. CASE ConfirmScan(f)
        BY <2>3 DEF ConfirmScan, Name, Stages
    <2>4. QED
        BY <1>4, <2>1, <2>2, <2>3
<1>5. QED
    BY <1>1, <1>2, <1>3, <1>4

\* What a sync does while it holds the machine.
LEMMA EventTypes ==
    ASSUME TypeOK, NEW s \in Syncs,
           \/ Begin(s) \/ Release(s)
           \/ \E f \in Flows :
                \/ \E how \in {"there", "bare"} : Arrives(s, f, how)
                \/ Accepted(s, f) \/ Cancelled(s, f)
                \/ DoneOverRequest(s, f) \/ DoneOverHandle(s, f)
    PROVE  TypeOK'
<1> USE FlowAssumption DEF TypeOK, upstream, registry, news
<1>1. CASE Begin(s) \/ Release(s)
    <2>1. \A at \in Steps : [sync EXCEPT ![s].at = at] \in [Syncs -> Syncing]
        BY DEF Syncing, Steps
    <2>2. sync' \in [Syncs -> Syncing] /\ machine' \in Syncs \cup {Free}
        BY <1>1, <2>1 DEF Begin, Release, Steps
    <2>3. UNCHANGED <<upstream, registry, observer, call, news>>
        BY <1>1 DEF Begin, Release
    <2>4. QED
        BY <2>2, <2>3 DEF Syncing, Steps
<1>2. ASSUME NEW f \in Flows, NEW how \in {"there", "bare"}, Arrives(s, f, how)
      PROVE  TypeOK'
    BY <1>2 DEF Arrives, Stages
<1>3. ASSUME NEW f \in Flows,
             \/ Accepted(s, f) \/ Cancelled(s, f)
             \/ DoneOverRequest(s, f) \/ DoneOverHandle(s, f)
      PROVE  TypeOK'
    <2>1. CASE Accepted(s, f)
        BY <2>1 DEF Accepted, Stages
    <2>2. CASE Cancelled(s, f)
        BY <2>2 DEF Cancelled, Stages
    <2>3. CASE DoneOverRequest(s, f)
        BY <2>3 DEF DoneOverRequest
    <2>4. CASE DoneOverHandle(s, f)
        BY <2>4 DEF DoneOverHandle, Attend, Stages
    <2>5. QED
        BY <1>3, <2>1, <2>2, <2>3, <2>4
<1>4. QED
    BY <1>1, <1>2, <1>3

\* What it does after it released it.
LEMMA PassTypes ==
    ASSUME TypeOK, NEW s \in Syncs,
           \/ CollectOwed(s) \/ QueueQueries(s)
           \/ NobodyListens(s) \/ TakeCompletions(s) \/ CollectInvitations(s)
           \/ Announce(s) \/ Return(s)
    PROVE  TypeOK'
<1> USE FlowAssumption DEF TypeOK, upstream, registry, news, Syncing, Steps
<1>1. CASE CollectOwed(s)
    <2> DEFINE owed == (DoneRecords \ queried) \cap codes
               at   == IF owed = {} THEN "asked" ELSE "owing"
    <2>1. owed \in SUBSET Flows /\ at \in Steps
        OBVIOUS
    <2>2. sync' = [sync EXCEPT ![s].owed = owed, ![s].at = at]
        BY <1>1 DEF CollectOwed
    <2> HIDE DEF owed, at, TypeOK, Syncing, Steps
    <2>3. sync' \in [Syncs -> Syncing]
        BY <2>1, <2>2, SyncTypes
    <2>4. queried' \subseteq registered
        BY <1>1 DEF CollectOwed, DoneRecords, TypeOK
    <2>5. QED
        BY <1>1, <2>3, <2>4 DEF CollectOwed, TypeOK, Syncing, Steps
<1>2. CASE QueueQueries(s)
    <2>1. \A f \in Flows : More(asked[f]) \in 0..2
        BY DEF More
    <2>2. asked' \in [Flows -> 0..2]
        BY <1>2, <2>1 DEF QueueQueries
    <2>3. sync' \in [Syncs -> Syncing]
        BY <1>2, SyncTypes DEF QueueQueries
    <2>4. QED
        BY <1>2, <2>2, <2>3 DEF QueueQueries
<1>3. CASE NobodyListens(s) \/ Return(s)
    <2>1. sync' \in [Syncs -> Syncing]
        BY <1>3 DEF NobodyListens, Return, Resting
    <2>2. UNCHANGED <<upstream, registry, observer, machine, call, news>>
        BY <1>3 DEF NobodyListens, Return
    <2>3. QED
        BY <2>1, <2>2
<1>4. CASE TakeCompletions(s)
    <2> DEFINE taken == {Completion(f) : f \in DoneRecords \ announced}
    <2>1. taken \in SUBSET Signal
        BY SignalTypes DEF DoneRecords
    <2>5. sync' = [sync EXCEPT ![s].signals = taken, ![s].at = "taken"]
        BY <1>4 DEF TakeCompletions
    <2> HIDE DEF taken
    <2>2. sync' \in [Syncs -> Syncing]
        BY <2>1, <2>5, SyncTypes
    <2>3. announced' \subseteq registered
        BY <1>4 DEF TakeCompletions, DoneRecords
    <2>4. QED
        BY <1>4, <2>2, <2>3 DEF TakeCompletions
<1>5. CASE CollectInvitations(s)
    <2>1. {Invitation(f) : f \in Invitations(s) \ Swept} \subseteq Signal
        BY SignalTypes DEF Invitations
    <2> DEFINE added == {Invitation(f) : f \in Invitations(s) \ Swept}
    <2>2. sync[s].signals \cup added \in SUBSET Signal
        BY <2>1
    <2> HIDE DEF added
    <2>5. sync' \in [Syncs -> Syncing]
        BY <1>5, <2>2, SyncTypes DEF CollectInvitations, added
    <2>3. /\ registered' \subseteq Flows
          /\ announced' \subseteq registered' /\ queried' \subseteq registered'
          /\ torn' \subseteq Flows
        BY <1>5 DEF CollectInvitations, Invitations, Insert, Swept
    <2>6. UNCHANGED <<upstream, observer, machine, call, news>>
        BY <1>5 DEF CollectInvitations
    <2>4. QED
        BY <2>5, <2>3, <2>6
<1>6. CASE Announce(s)
    <2>1. PICK signal \in sync[s].signals :
              /\ IF observer THEN Deliver(signal.flow, signal.kind)
                             ELSE PutBack(signal.flow, signal.kind)
              /\ sync' = [sync EXCEPT ![s].signals = @ \ {signal}]
        BY <1>6 DEF Announce
    <2>2. signal.flow \in Flows
        BY DEF Signal
    <2>3. \A n \in 0..2 : More(n) \in 0..2
        BY DEF More
    <2>4. /\ registered' \subseteq Flows
          /\ announced' \subseteq registered' /\ queried' \subseteq registered'
          /\ given' \subseteq Flows /\ torn' \subseteq Flows
        BY <2>1, <2>2 DEF Deliver, PutBack, Forget
    <2>5. told' \in [Flows -> 0..2] /\ invited' \in [Flows -> 0..2]
        BY <2>1, <2>2, <2>3 DEF Deliver, PutBack
    <2>6. sync' \in [Syncs -> Syncing]
        BY <2>1
    <2>7. QED
        BY <1>6, <2>4, <2>5, <2>6 DEF Announce
<1>7. QED
    BY <1>1, <1>2, <1>3, <1>4, <1>5, <1>6

\* Every variable keeps its type, and the marks are of records that exist.
THEOREM TypeCorrect == Spec => []TypeOK
<1>1. Init => TypeOK
    BY DEF Init, TypeOK, Resting, Stages
<1>2. TypeOK /\ [Next]_vars => TypeOK'
    <2> SUFFICES ASSUME TypeOK, [Next]_vars
                 PROVE  TypeOK'
        OBVIOUS
    <2>1. CASE Next
        BY <2>1, CallTypes, EventTypes, PassTypes DEF Next
    <2>2. CASE UNCHANGED vars
        BY <2>2 DEF TypeOK, vars, upstream, registry, news
    <2>3. QED
        BY <2>1, <2>2
<1>3. QED
    BY <1>1, <1>2, PTL DEF Spec

-----------------------------------------------------------------------------
(* The inductive invariant. Its parts are about one flow, and hold for     *)
(* every flow unless they say Ordinary.                                    *)

\* The machine lock is held by the sync that receives.
LockHeld == \A s \in Syncs : machine = s <=> sync[s].at = "receiving"

\* A sync carries signals and owed queries only where it uses them.
Carried ==
    \A s \in Syncs :
        /\ sync[s].signals # {} => sync[s].at \in {"taken", "announcing"}
        /\ sync[s].owed # {} => sync[s].at = "owing"

\* What is known of a flow that has not begun, and of how one began.
Beginnings ==
    \A f \in Flows :
        /\ began[f] = "no" <=> stage[f] = "absent"
        /\ began[f] = "no" => f \notin given \cup registered
        /\ f \in over => stage[f] \notin {"absent", "requested"}
        /\ began[f] = "bare" /\ Live(f) => f \notin over
        /\ \A c \in Callers : call[c] = f => began[f] # "no"
        /\ \A s \in Syncs :
              /\ f \in sync[s].starts => began[f] = "bare"
              /\ Invitation(f) \in sync[s].signals => began[f] \in {"there", "bare"}

\* An invitation under way is of a flow the product does not have, and the
\* only one: only then may forget_flow undo what it was registered by.
OneInvitation ==
    \A f \in Flows : \A s \in Syncs : Invitation(f) \in sync[s].signals =>
        /\ f \notin given
        /\ Live(f) /\ f \notin over => f \in registered
        /\ \A t \in Syncs : Invitation(f) \in sync[t].signals => t = s

\* A flow the product was given stays registered while it is not over.
GivenStays == \A f \in given : Live(f) /\ f \notin over => f \in registered

InvitedOnce ==
    \A f \in Flows : invited[f] < 2 /\ (f \notin given => invited[f] = 0)

\* The only registration under way of an ordinary flow is that of a request
\* of ours, by the one caller that made it.
Calling ==
    \A f \in Ordinary : \A c \in Callers : call[c] = f =>
        /\ began[f] = "here" /\ f \notin given
        /\ \A b \in Callers : call[b] = f => b = c

\* Nobody here takes an ordinary flow further before it was given out.
Untaken ==
    \A f \in Ordinary \ given :
        /\ stage[f] \notin {"confirmed", "done"}
        /\ began[f] = "here" => stage[f] = "requested"

\* Only flows that are done are marked, told of or asked about, and what is
\* told of one does not change any more.
Marks == \A f \in announced \cup queried : stage[f] = "done"

Tidings ==
    /\ \A s \in Syncs : \A signal \in sync[s].signals :
          signal.kind # "VerificationRequested" =>
              stage[signal.flow] = "done" /\ signal = Completion(signal.flow)
    /\ \A f \in Flows : told[f] > 0 \/ asked[f] > 0 => stage[f] = "done"
    /\ \A f \in Flows : \A s \in Syncs : f \in sync[s].owed => stage[f] = "done"

\* An unmarked record, a signal under way and a signal told exclude each
\* other, and so do an unmarked record, a query owed and a query asked.
OneCompletion ==
    \A f \in Ordinary :
        /\ told[f] < 2
        /\ f \in registered \ announced => told[f] = 0 /\ ~InFlight(Completion(f))
        /\ \A s \in Syncs : Completion(f) \in sync[s].signals =>
              /\ told[f] = 0
              /\ \A t \in Syncs : Completion(f) \in sync[t].signals => t = s

OneQuery ==
    \A f \in Ordinary :
        /\ asked[f] < 2
        /\ f \in registered \ queried =>
              asked[f] = 0 /\ \A s \in Syncs : f \notin sync[s].owed
        /\ \A s \in Syncs : f \in sync[s].owed =>
              /\ asked[f] = 0
              /\ \A t \in Syncs : f \in sync[t].owed => t = s

\* Where a step leaves one sync; the others stay where they are.
Moved(s, at, starts, owed, signals) ==
    /\ sync'[s].at = at /\ sync'[s].starts = starts
    /\ sync'[s].owed = owed /\ sync'[s].signals = signals
    /\ \A t \in Syncs \ {s} : sync'[t] = sync[t]

Owed == (DoneRecords \ queried) \cap codes
Taken == {Completion(f) : f \in DoneRecords \ announced}
Fresh(s) == Invitations(s) \ Swept
Called(s) == {Invitation(f) : f \in Fresh(s)}

\* Where each step of a sync leaves it.
LEMMA SyncMoves ==
    ASSUME TypeOK, NEW s \in Syncs
    PROVE  /\ Begin(s) => Moved(s, "receiving", sync[s].starts, sync[s].owed,
                                sync[s].signals)
           /\ \A f \in Flows, how \in {"there", "bare"} : Arrives(s, f, how) =>
                 Moved(s, sync[s].at, IF how = "bare" THEN sync[s].starts \cup {f}
                                      ELSE sync[s].starts,
                       sync[s].owed, sync[s].signals)
           /\ Release(s) => Moved(s, "received", sync[s].starts, sync[s].owed,
                                  sync[s].signals)
           /\ CollectOwed(s) => Moved(s, IF Owed = {} THEN "asked" ELSE "owing",
                                      sync[s].starts, Owed, sync[s].signals)
           /\ QueueQueries(s) => Moved(s, "asked", sync[s].starts, {}, sync[s].signals)
           /\ NobodyListens(s) \/ Return(s) => Moved(s, "idle", {}, {}, {})
           /\ TakeCompletions(s) => Moved(s, "taken", sync[s].starts, sync[s].owed, Taken)
           /\ CollectInvitations(s) => Moved(s, "announcing", {}, sync[s].owed,
                                             sync[s].signals \cup Called(s))
           /\ Announce(s) => \E signal \in sync[s].signals :
                 Moved(s, sync[s].at, sync[s].starts, sync[s].owed,
                       sync[s].signals \ {signal})
<1>1. sync \in [Syncs -> Syncing]
    BY DEF TypeOK, Syncing, Steps
<1> USE <1>1 DEF Moved, Syncing
<1>2. Begin(s) => Moved(s, "receiving", sync[s].starts, sync[s].owed, sync[s].signals)
    BY DEF Begin
<1>3. ASSUME NEW f \in Flows, NEW how \in {"there", "bare"}, Arrives(s, f, how)
      PROVE  Moved(s, sync[s].at, IF how = "bare" THEN sync[s].starts \cup {f}
                                  ELSE sync[s].starts, sync[s].owed, sync[s].signals)
    BY <1>3 DEF Arrives
<1>4. Release(s) => Moved(s, "received", sync[s].starts, sync[s].owed, sync[s].signals)
    BY DEF Release
<1>5. ASSUME CollectOwed(s)
      PROVE  Moved(s, IF Owed = {} THEN "asked" ELSE "owing", sync[s].starts, Owed,
                   sync[s].signals)
    <2>1. sync' = [sync EXCEPT ![s].owed = Owed,
                               ![s].at = IF Owed = {} THEN "asked" ELSE "owing"]
        BY <1>5 DEF CollectOwed, Owed
    <2>2. QED
        BY <2>1
<1>6. QueueQueries(s) => Moved(s, "asked", sync[s].starts, {}, sync[s].signals)
    BY DEF QueueQueries
<1>7. NobodyListens(s) \/ Return(s) => Moved(s, "idle", {}, {}, {})
    BY DEF NobodyListens, Return, Resting
<1>8. ASSUME TakeCompletions(s)
      PROVE  Moved(s, "taken", sync[s].starts, sync[s].owed, Taken)
    <2>1. sync' = [sync EXCEPT ![s].signals = Taken, ![s].at = "taken"]
        BY <1>8 DEF TakeCompletions, Taken
    <2>2. QED
        BY <2>1
<1>9. ASSUME CollectInvitations(s)
      PROVE  Moved(s, "announcing", {}, sync[s].owed, sync[s].signals \cup Called(s))
    <2>1. sync' = [sync EXCEPT ![s].signals = @ \cup Called(s),
                               ![s].starts = {}, ![s].at = "announcing"]
        BY <1>9 DEF CollectInvitations, Called, Fresh
    <2>2. QED
        BY <2>1
<1>10. ASSUME NEW signal \in sync[s].signals,
              sync' = [sync EXCEPT ![s].signals = @ \ {signal}]
       PROVE  Moved(s, sync[s].at, sync[s].starts, sync[s].owed,
                    sync[s].signals \ {signal})
    BY <1>10
<1>11. QED
    BY <1>2, <1>3, <1>4, <1>5, <1>6, <1>7, <1>8, <1>9, <1>10 DEF Announce

\* The lock and what a sync carries.
LEMMA SyncsInOrder ==
    ASSUME TypeOK, LockHeld, Carried, [Next]_vars
    PROVE  LockHeld' /\ Carried'
<1>0. machine \in Syncs \cup {Free}
    BY DEF TypeOK
<1>1. CASE UNCHANGED <<machine, sync>>
    BY <1>1 DEF LockHeld, Carried
<1>2. ASSUME NEW s \in Syncs, Begin(s) \/ Release(s)
      PROVE  LockHeld' /\ Carried'
    BY <1>0, <1>2, SyncMoves, FlowAssumption DEF Begin, Release, LockHeld, Carried, Moved
<1>3. ASSUME NEW s \in Syncs, NEW f \in Flows, NEW how \in {"there", "bare"},
             Arrives(s, f, how)
      PROVE  LockHeld' /\ Carried'
    BY <1>3, SyncMoves DEF Arrives, Moved, LockHeld, Carried
<1>4. ASSUME NEW s \in Syncs, CollectOwed(s)
      PROVE  LockHeld' /\ Carried'
    <2>1. Moved(s, IF Owed = {} THEN "asked" ELSE "owing", sync[s].starts, Owed,
                sync[s].signals)
        BY <1>4, SyncMoves
    <2>2. sync[s].at = "received" /\ UNCHANGED machine
        BY <1>4 DEF CollectOwed
    <2>3. QED
        BY <2>1, <2>2 DEF Moved, LockHeld, Carried
<1>5. ASSUME NEW s \in Syncs, QueueQueries(s) \/ NobodyListens(s) \/ Return(s)
      PROVE  LockHeld' /\ Carried'
    BY <1>5, SyncMoves DEF QueueQueries, NobodyListens, Return, Moved, LockHeld, Carried
<1>6. ASSUME NEW s \in Syncs, TakeCompletions(s)
      PROVE  LockHeld' /\ Carried'
    <2>1. Moved(s, "taken", sync[s].starts, sync[s].owed, Taken)
        BY <1>6, SyncMoves
    <2>2. QED
        BY <1>6, <2>1 DEF TakeCompletions, Moved, LockHeld, Carried
<1>7. ASSUME NEW s \in Syncs, CollectInvitations(s)
      PROVE  LockHeld' /\ Carried'
    <2>1. Moved(s, "announcing", {}, sync[s].owed, sync[s].signals \cup Called(s))
        BY <1>7, SyncMoves
    <2>2. QED
        BY <1>7, <2>1 DEF CollectInvitations, Moved, LockHeld, Carried
<1>8. ASSUME NEW s \in Syncs, Announce(s)
      PROVE  LockHeld' /\ Carried'
    <2>1. PICK signal \in sync[s].signals :
              Moved(s, sync[s].at, sync[s].starts, sync[s].owed,
                    sync[s].signals \ {signal})
        BY <1>8, SyncMoves
    <2>2. QED
        BY <1>8, <2>1 DEF Announce, Moved, LockHeld, Carried
<1>9. QED
    BY <1>1, <1>2, <1>3, <1>4, <1>5, <1>6, <1>7, <1>8
       DEF Next, vars, Subscribe, Unsubscribe, Register, RequestFlow, Adopt, AcceptFlow,
           ConfirmFlow, ConfirmScan, CancelFlow, Accepted, Cancelled, DoneOverRequest, DoneOverHandle

\* Invitations and what is given, the parts that rest on each other.
Invited == Beginnings /\ OneInvitation /\ GivenStays /\ InvitedOnce

\* A flow's own types.
LEMMA FlowTypes ==
    ASSUME TypeOK
    PROVE  /\ began \in [Flows -> {"no", "here", "there", "bare"}]
           /\ stage \in [Flows -> Stages]
           /\ invited \in [Flows -> 0..2] /\ told \in [Flows -> 0..2]
           /\ asked \in [Flows -> 0..2]
           /\ registered \subseteq Flows /\ given \subseteq Flows
           /\ call \in [Callers -> Flows \cup {Free}]
BY DEF TypeOK

\* A product call keeps them.
LEMMA CallsInvite ==
    ASSUME TypeOK, Invited, NEW f \in Flows,
           \/ \E c \in Callers : RequestFlow(c, f) \/ Adopt(c, f)
           \/ AcceptFlow(f) \/ ConfirmFlow(f) \/ ConfirmScan(f) \/ CancelFlow(f)
    PROVE  Invited'
<1> USE FlowTypes, FlowAssumption
        DEF Invited, Beginnings, OneInvitation, GivenStays, InvitedOnce, Live, upstream,
            registry, news, Invitation, Name, Stages
<1>1. ASSUME NEW c \in Callers, RequestFlow(c, f)
      PROVE  Invited'
    <2>1. /\ began[f] = "no"
          /\ began' = [began EXCEPT ![f] = "here"]
          /\ stage' = [stage EXCEPT ![f] = "requested"]
          /\ call' = [call EXCEPT ![c] = f]
          /\ UNCHANGED <<over, registered, sync, given, invited>>
        BY <1>1 DEF RequestFlow
    <2>2. stage[f] = "absent" /\ f \notin given
        BY <2>1
    <2>3. \A s \in Syncs : f \notin sync[s].starts /\ Invitation(f) \notin sync[s].signals
        BY <2>1
    <2>4. Beginnings'
        BY <2>1, <2>2, <2>3
    <2>5. OneInvitation'
        BY <2>1, <2>2, <2>3
    <2>6. GivenStays' /\ InvitedOnce'
        BY <2>1, <2>2
    <2>7. QED
        BY <2>4, <2>5, <2>6
<1>2. ASSUME NEW c \in Callers, Adopt(c, f)
      PROVE  Invited'
    BY <1>2 DEF Adopt
<1>3. CASE AcceptFlow(f)
    BY <1>3 DEF AcceptFlow
<1>4. CASE ConfirmFlow(f) \/ ConfirmScan(f)
    BY <1>4 DEF ConfirmFlow, ConfirmScan
<1>5. CASE CancelFlow(f)
    BY <1>5 DEF CancelFlow
<1>6. QED
    BY <1>1, <1>2, <1>3, <1>4, <1>5

\* So does a registration, whose sweep takes only what is over.
LEMMA RegisterInvites ==
    ASSUME TypeOK, Invited, NEW c \in Callers, Register(c)
    PROVE  Invited'
BY FlowTypes, FlowAssumption
   DEF Invited, Beginnings, OneInvitation, GivenStays, InvitedOnce, Live, upstream,
       Invitation, Register, Insert, Swept, Kept, Finished

\* So do the events of a sync.
LEMMA EventsInvite ==
    ASSUME TypeOK, Invited, NEW s \in Syncs, NEW f \in Flows,
           \/ \E how \in {"there", "bare"} : Arrives(s, f, how)
           \/ Accepted(s, f) \/ Cancelled(s, f)
           \/ DoneOverRequest(s, f) \/ DoneOverHandle(s, f)
    PROVE  Invited'
<1> USE FlowTypes
        DEF Invited, Beginnings, OneInvitation, GivenStays, InvitedOnce, Live, upstream,
            registry, news, Invitation, Stages
<1>1. ASSUME NEW how \in {"there", "bare"}, Arrives(s, f, how)
      PROVE  Invited'
    <2>1. \A t \in Syncs : /\ sync'[t].signals = sync[t].signals
                            /\ \A g \in sync'[t].starts :
                                  g \in sync[t].starts \/ (g = f /\ how = "bare")
        BY <1>1, SyncMoves DEF Moved
    <2>2. /\ began[f] = "no" /\ began' = [began EXCEPT ![f] = how]
          /\ stage' = [stage EXCEPT ![f] = IF how = "bare" THEN "open" ELSE "requested"]
          /\ UNCHANGED <<over, registered, call, given, invited>>
        BY <1>1 DEF Arrives
    <2>3. f \notin given \cup registered \cup over
        BY <2>2
    <2>4. Beginnings'
        BY <2>1, <2>2, <2>3
    <2>5. QED
        BY <2>1, <2>2, <2>3, <2>4
<1>2. CASE Accepted(s, f)
    BY <1>2 DEF Accepted
<1>3. CASE Cancelled(s, f)
    BY <1>3 DEF Cancelled
<1>4. CASE DoneOverRequest(s, f)
    BY <1>4 DEF DoneOverRequest
<1>5. CASE DoneOverHandle(s, f)
    BY <1>5 DEF DoneOverHandle
<1>6. QED
    BY <1>1, <1>2, <1>3, <1>4, <1>5

\* So does a step that at most lets go of what a sync carries.
LEMMA QuietInvites ==
    ASSUME Invited, UNCHANGED <<began, stage, over, registered, given, call, invited>>,
           \A t \in Syncs :
              /\ sync'[t].starts \subseteq sync[t].starts
              /\ \A f \in Flows : Invitation(f) \in sync'[t].signals
                                    => Invitation(f) \in sync[t].signals
    PROVE  Invited'
BY DEF Invited, Beginnings, OneInvitation, GivenStays, InvitedOnce, Live, Invitation

\* Completions are no invitations.
LEMMA TakenInvitesNobody == \A f \in Flows : Invitation(f) \notin Taken
BY DEF Taken, Completion, Invitation

\* So do the steps of a pass that register nothing.
LEMMA PassInvites ==
    ASSUME TypeOK, Invited, NEW s \in Syncs,
           \/ Begin(s) \/ Release(s) \/ CollectOwed(s) \/ QueueQueries(s)
           \/ NobodyListens(s) \/ Return(s) \/ TakeCompletions(s)
    PROVE  Invited'
<1>1. UNCHANGED <<began, stage, over, registered, given, call, invited>>
    BY DEF Begin, Release, CollectOwed, QueueQueries, NobodyListens, Return,
           TakeCompletions, upstream, registry, news
<1>2. ASSUME NEW t \in Syncs
      PROVE  /\ sync'[t].starts \subseteq sync[t].starts
             /\ \A f \in Flows : Invitation(f) \in sync'[t].signals
                                   => Invitation(f) \in sync[t].signals
    <2>1. CASE Begin(s) \/ Release(s) \/ QueueQueries(s) \/ NobodyListens(s) \/ Return(s)
        BY <2>1, SyncMoves DEF Moved
    <2>2. CASE CollectOwed(s)
        BY <2>2, SyncMoves DEF Moved
    <2>3. CASE TakeCompletions(s)
        BY <2>3, SyncMoves, TakenInvitesNobody DEF Moved
    <2>4. QED
        BY <2>1, <2>2, <2>3
<1>3. QED
    BY <1>1, <1>2, QuietInvites

\* A flow that is announced is live, and the sweep keeps it if it is registered.
LEMMA FreshIsNew ==
    ASSUME TypeOK, Invited, NEW s \in Syncs, NEW f \in Fresh(s)
    PROVE  /\ f \in Flows /\ began[f] \in {"there", "bare"} /\ Live(f) /\ f \notin over
           /\ f \notin registered
           /\ f \notin given
           /\ \A t \in Syncs : Invitation(f) \notin sync[t].signals
<1>1. f \in Flows /\ began[f] \in {"there", "bare"} /\ Live(f) /\ f \notin over
    BY FlowTypes
       DEF Fresh, Invitations, Invited, Beginnings, Live
<1>2. f \notin registered
    BY <1>1 DEF Fresh, Swept, Kept, Live, Finished
<1>3. QED
    BY <1>1, <1>2 DEF Invited, GivenStays, OneInvitation

\* The pass registers what is new and announces it.
LEMMA CollectInvites ==
    ASSUME TypeOK, Invited, NEW s \in Syncs, CollectInvitations(s)
    PROVE  Invited'
<1>1. Moved(s, "announcing", {}, sync[s].owed, sync[s].signals \cup Called(s))
    BY SyncMoves
<1>2. UNCHANGED <<began, stage, over, given, call, invited>>
    BY DEF CollectInvitations, upstream, news
<1>0. \/ UNCHANGED registry /\ Fresh(s) = {}
      \/ Insert(Fresh(s))
    BY DEF CollectInvitations, Fresh
<1>3. Fresh(s) \subseteq registered'
    BY <1>0 DEF Insert
<1>4. \A f \in registered : f \in registered' \/ Finished(f) \/ f \in over
    BY <1>0 DEF registry, Insert, Swept, Kept
<1>5. \A f \in registered' : f \in registered \cup Fresh(s)
    BY <1>0 DEF registry, Insert, Swept
<1>6. \A f \in Flows : Invitation(f) \in Called(s) => f \in Fresh(s)
    BY DEF Called, Invitation
<1>7. \A t \in Syncs : \A f \in Flows : Invitation(f) \in sync'[t].signals =>
          Invitation(f) \in sync[t].signals \/ (t = s /\ f \in Fresh(s))
    BY <1>1, <1>6 DEF Moved
<1>8. Beginnings'
    <2>1. \A t \in Syncs : sync'[t].starts \subseteq sync[t].starts
        BY <1>1 DEF Moved
    <2>2. QED
        BY <1>2, <1>5, <1>7, <2>1, FreshIsNew DEF Invited, Beginnings, Live
<1>9. OneInvitation'
    BY <1>2, <1>3, <1>4, <1>7, FreshIsNew DEF Invited, OneInvitation, Live, Finished
<1>10. GivenStays' /\ InvitedOnce'
    BY <1>2, <1>4 DEF Invited, GivenStays, InvitedOnce, Live, Finished
<1>11. QED
    BY <1>8, <1>9, <1>10 DEF Invited

\* What one signal of a pass does.
LEMMA AnnounceSays ==
    ASSUME TypeOK, NEW s \in Syncs, Announce(s)
    PROVE  \E signal \in sync[s].signals :
              /\ signal \in Signal
              /\ Moved(s, sync[s].at, sync[s].starts, sync[s].owed,
                       sync[s].signals \ {signal})
              /\ IF observer
                 THEN /\ UNCHANGED registry
                      /\ IF signal.kind = "VerificationRequested"
                         THEN /\ invited' = [invited EXCEPT ![signal.flow] = More(@)]
                              /\ given' = given \cup {signal.flow}
                              /\ UNCHANGED told
                         ELSE /\ told' = [told EXCEPT ![signal.flow] = More(@)]
                              /\ UNCHANGED <<invited, given>>
                 ELSE /\ UNCHANGED <<given, invited, told>>
                      /\ IF signal.kind = "VerificationRequested"
                         THEN Forget(signal.flow)
                         ELSE UNCHANGED registry
<1>1. PICK signal \in sync[s].signals :
          /\ IF observer THEN Deliver(signal.flow, signal.kind)
                         ELSE PutBack(signal.flow, signal.kind)
          /\ sync' = [sync EXCEPT ![s].signals = @ \ {signal}]
    BY DEF Announce
<1>2. sync \in [Syncs -> Syncing]
    BY DEF TypeOK, Syncing, Steps
<1>3. signal \in Signal
    BY <1>2 DEF Syncing
<1>4. Moved(s, sync[s].at, sync[s].starts, sync[s].owed, sync[s].signals \ {signal})
    BY <1>1, <1>2 DEF Moved, Syncing
<1>5. Crossed(CryptoSignal, signal.kind) = signal.kind
    BY <1>3, SignalsCross DEF Signal
<1>6. QED
    BY <1>1, <1>3, <1>4, <1>5 DEF Deliver, PutBack

\* An invitation is delivered once, or undone.
LEMMA AnnounceInvites ==
    ASSUME TypeOK, Invited, NEW s \in Syncs, Announce(s)
    PROVE  Invited'
<1>1. UNCHANGED <<began, stage, over, call>>
    BY DEF Announce, upstream
<1>2. PICK signal \in sync[s].signals :
          /\ signal \in Signal
          /\ Moved(s, sync[s].at, sync[s].starts, sync[s].owed, sync[s].signals \ {signal})
          /\ IF observer
             THEN /\ UNCHANGED registry
                  /\ IF signal.kind = "VerificationRequested"
                     THEN /\ invited' = [invited EXCEPT ![signal.flow] = More(@)]
                          /\ given' = given \cup {signal.flow}
                     ELSE UNCHANGED <<invited, given>>
             ELSE /\ UNCHANGED <<given, invited>>
                  /\ IF signal.kind = "VerificationRequested" THEN Forget(signal.flow)
                                                             ELSE UNCHANGED registry
    BY AnnounceSays
<1> DEFINE f == signal.flow
<1>3. \A t \in Syncs : /\ sync'[t].starts = sync[t].starts
                       /\ sync'[t].signals \subseteq sync[t].signals
                       /\ t = s => sync'[t].signals = sync[t].signals \ {signal}
    BY <1>2 DEF Moved
<1>4. CASE UNCHANGED <<registered, invited, given>>
    BY <1>1, <1>3, <1>4, QuietInvites
<1>5. CASE signal.kind = "VerificationRequested"
    <2>1. f \in Flows /\ signal = Invitation(f)
        BY <1>2, <1>5 DEF Signal, Invitation
    <2>2. \A t \in Syncs : Invitation(f) \notin sync'[t].signals
        BY <1>2, <1>3, <2>1 DEF Invited, OneInvitation
    <2>3. /\ f \notin given /\ began[f] \in {"there", "bare"}
          /\ Live(f) /\ f \notin over => f \in registered
        BY <1>2, <2>1 DEF Invited, OneInvitation, Beginnings
    <2>4. CASE observer
        <3>1. /\ UNCHANGED registered /\ given' = given \cup {f}
              /\ invited' = [invited EXCEPT ![f] = More(@)]
            BY <1>2, <1>5, <2>4 DEF registry
        <3>2. invited'[f] = 1
            BY <2>1, <2>3, <3>1, FlowTypes DEF Invited, InvitedOnce, More
        <3>3. Beginnings' /\ OneInvitation' /\ GivenStays'
            BY <1>1, <1>3, <2>1, <2>2, <2>3, <3>1
               DEF Invited, Beginnings, OneInvitation, GivenStays, Live
        <3>4. InvitedOnce'
            BY <2>1, <3>1, <3>2, FlowTypes DEF Invited, InvitedOnce
        <3>5. QED
            BY <3>3, <3>4 DEF Invited
    <2>5. CASE ~observer
        <3>1. registered' = registered \ {f} /\ UNCHANGED <<given, invited>>
            BY <1>2, <1>5, <2>5 DEF Forget
        <3>2. QED
            BY <1>1, <1>3, <2>1, <2>2, <2>3, <3>1
               DEF Invited, Beginnings, OneInvitation, GivenStays, InvitedOnce, Live
    <2>6. QED
        BY <2>4, <2>5
<1>6. QED
    BY <1>2, <1>4, <1>5 DEF registry

\* The parts about invitations and what is given hold together.
LEMMA InvitedStep ==
    ASSUME TypeOK, Invited, [Next]_vars
    PROVE  Invited'
<1>1. CASE Subscribe \/ Unsubscribe \/ UNCHANGED vars
    BY <1>1, QuietInvites
       DEF Subscribe, Unsubscribe, vars, upstream, registry, news
<1>2. CASE Next
    BY <1>1, <1>2, CallsInvite, RegisterInvites, EventsInvite, PassInvites, CollectInvites,
       AnnounceInvites DEF Next
<1>3. QED
    BY <1>1, <1>2

LEMMA InOrder == Spec => [](TypeOK /\ LockHeld /\ Carried /\ Invited)
<1>1. Init => LockHeld /\ Carried /\ Invited
    <2> SUFFICES ASSUME Init
                 PROVE  LockHeld /\ Carried /\ Invited
        OBVIOUS
    <2>1. LockHeld /\ Carried
        BY FlowAssumption DEF Init, LockHeld, Carried, Resting
    <2>2. Invited
        BY FlowAssumption
           DEF Init, Resting, Invited, Beginnings, OneInvitation, GivenStays, InvitedOnce, Live
    <2>3. QED
        BY <2>1, <2>2
<1>2. TypeOK /\ LockHeld /\ Carried /\ Invited /\ [Next]_vars
         => LockHeld' /\ Carried' /\ Invited'
    BY SyncsInOrder, InvitedStep
<1>3. QED
    BY <1>1, <1>2, TypeCorrect, PTL DEF Spec

\* A flow this library gave out and that is not over stays in the registry,
\* whatever sweeps and undone announcements run beside it (release_finished,
\* forget_flow). It holds of every flow, also of those named before.
THEOREM GivenStaysRegisteredHolds == Spec => []GivenStaysRegistered
<1>1. Invited => GivenStaysRegistered
    BY DEF Invited, GivenStays, GivenStaysRegistered
<1>2. QED
    BY <1>1, InOrder, PTL

-----------------------------------------------------------------------------
(* Ordinary flows before they are given out.                               *)

\* A call that names a flow leaves it ordinary only if it was given out.
LEMMA NamedIsGiven ==
    ASSUME NEW f, Name(f)
    PROVE  f \in given \/ f \in wired'
BY DEF Name

\* A flow that was named stays so.
LEMMA WiredGrows ==
    ASSUME [Next]_vars
    PROVE  wired \subseteq wired'
<1>1. ASSUME NEW f \in Flows, Name(f)
      PROVE  wired \subseteq wired'
    BY <1>1 DEF Name
<1>2. CASE \E f \in Flows : \/ \E c \in Callers : Adopt(c, f)
                            \/ AcceptFlow(f) \/ ConfirmFlow(f) \/ ConfirmScan(f)
                            \/ CancelFlow(f)
    BY <1>1, <1>2 DEF Adopt, AcceptFlow, ConfirmFlow, ConfirmScan, CancelFlow
<1>3. CASE \/ Subscribe \/ Unsubscribe
           \/ \E c \in Callers : Register(c) \/ \E f \in Flows : RequestFlow(c, f)
    BY <1>3 DEF Subscribe, Unsubscribe, Register, RequestFlow, news
<1>4. ASSUME NEW s \in Syncs, NEW f \in Flows,
             \/ \E how \in {"there", "bare"} : Arrives(s, f, how)
             \/ Accepted(s, f) \/ Cancelled(s, f)
             \/ DoneOverRequest(s, f) \/ DoneOverHandle(s, f)
      PROVE  wired \subseteq wired'
    BY <1>4 DEF Arrives, Accepted, Cancelled, DoneOverRequest, DoneOverHandle, news
<1>5. ASSUME NEW s \in Syncs,
             \/ Begin(s) \/ Release(s) \/ CollectOwed(s) \/ QueueQueries(s)
             \/ NobodyListens(s) \/ TakeCompletions(s) \/ CollectInvitations(s)
             \/ Announce(s) \/ Return(s)
      PROVE  wired \subseteq wired'
    BY <1>5 DEF Begin, Release, CollectOwed, QueueQueries, NobodyListens, TakeCompletions,
                CollectInvitations, Announce, Return, news
<1>6. CASE UNCHANGED vars
    BY <1>6 DEF vars, news
<1>7. QED
    BY <1>2, <1>3, <1>4, <1>5, <1>6 DEF Next

Tended == Calling /\ Untaken /\ InvitationKept

\* A step that changes no flow, no call and no registration, and no invitation
\* under way.
LEMMA QuietTends ==
    ASSUME Tended, wired \subseteq wired',
           UNCHANGED <<began, stage, registered, given, call>>,
           \A f \in Flows : InFlight(Invitation(f)) => InFlight(Invitation(f))'
    PROVE  Tended'
BY DEF Tended, Calling, Untaken, InvitationKept, Ordinary

LEMMA CallsTend ==
    ASSUME TypeOK, Invited, Tended, NEW f \in Flows, wired \subseteq wired',
           \/ \E c \in Callers : RequestFlow(c, f) \/ Adopt(c, f)
           \/ AcceptFlow(f) \/ ConfirmFlow(f) \/ ConfirmScan(f) \/ CancelFlow(f)
    PROVE  Tended'
<1> USE FlowTypes, FlowAssumption, NamedIsGiven
        DEF Tended, Calling, Untaken, InvitationKept, Ordinary, InFlight, Invitation,
            upstream, registry, news
<1>1. ASSUME NEW c \in Callers, RequestFlow(c, f)
      PROVE  Tended'
    <2>1. /\ began' = [began EXCEPT ![f] = "here"]
          /\ stage' = [stage EXCEPT ![f] = "requested"]
          /\ call' = [call EXCEPT ![c] = f]
          /\ UNCHANGED <<registered, sync, given, wired>>
        BY <1>1 DEF RequestFlow
    <2>2. f \notin registered \cup given /\ \A b \in Callers : call[b] # f
        BY <1>1 DEF RequestFlow, Invited, Beginnings
    <2>3. Calling'
        BY <2>1, <2>2
    <2>4. Untaken' /\ InvitationKept'
        BY <2>1, <2>2
    <2>5. QED
        BY <2>3, <2>4
<1>2. ASSUME NEW c \in Callers, Adopt(c, f)
      PROVE  Tended'
    <2>1. f \notin given
        BY <1>2 DEF Adopt, Invited, GivenStays
    <2>2. f \in wired' /\ UNCHANGED given
        BY <1>2, <2>1 DEF Adopt, Name
    <2>3. QED
        BY <1>2, <2>2 DEF Adopt
<1>3. CASE AcceptFlow(f)
    BY <1>3 DEF AcceptFlow, Name
<1>4. CASE ConfirmFlow(f) \/ ConfirmScan(f)
    BY <1>4 DEF ConfirmFlow, ConfirmScan, Name
<1>5. CASE CancelFlow(f)
    BY <1>5 DEF CancelFlow, Name
<1>6. QED
    BY <1>1, <1>2, <1>3, <1>4, <1>5

LEMMA RegisterTends ==
    ASSUME TypeOK, Tended, NEW c \in Callers, Register(c)
    PROVE  Tended'
BY FlowTypes, FlowAssumption
   DEF Tended, Calling, Untaken, InvitationKept, Ordinary, InFlight, Invitation, upstream,
       Register, Insert, Swept

LEMMA EventsTend ==
    ASSUME TypeOK, Invited, Tended, NEW s \in Syncs, NEW f \in Flows,
           \/ \E how \in {"there", "bare"} : Arrives(s, f, how)
           \/ Accepted(s, f) \/ Cancelled(s, f)
           \/ DoneOverRequest(s, f) \/ DoneOverHandle(s, f)
    PROVE  Tended'
<1> USE FlowTypes
        DEF Tended, Calling, Untaken, InvitationKept, Ordinary, InFlight, Invitation,
            upstream, registry, news
<1>1. ASSUME NEW how \in {"there", "bare"}, Arrives(s, f, how)
      PROVE  Tended'
    <2>1. \A t \in Syncs : sync'[t].signals = sync[t].signals
        BY <1>1, SyncMoves DEF Moved
    <2>2. /\ began[f] = "no" /\ began' = [began EXCEPT ![f] = how]
          /\ stage' = [stage EXCEPT ![f] = IF how = "bare" THEN "open" ELSE "requested"]
          /\ UNCHANGED <<registered, call, given, wired>>
        BY <1>1 DEF Arrives
    <2>3. f \notin registered /\ \A c \in Callers : call[c] # f
        BY <2>2 DEF Invited, Beginnings
    <2>4. QED
        BY <2>1, <2>2, <2>3
<1>2. CASE Accepted(s, f)
    BY <1>2 DEF Accepted
<1>3. CASE Cancelled(s, f)
    BY <1>3 DEF Cancelled
<1>4. CASE DoneOverRequest(s, f)
    BY <1>4 DEF DoneOverRequest
<1>5. CASE DoneOverHandle(s, f)
    BY <1>5 DEF DoneOverHandle
<1>6. QED
    BY <1>1, <1>2, <1>3, <1>4, <1>5

LEMMA PassTends ==
    ASSUME TypeOK, Carried, Tended, NEW s \in Syncs,
           \/ Begin(s) \/ Release(s) \/ CollectOwed(s) \/ QueueQueries(s)
           \/ NobodyListens(s) \/ Return(s) \/ TakeCompletions(s)
    PROVE  Tended'
<1>1. UNCHANGED <<began, stage, registered, given, call, wired>>
    BY DEF Begin, Release, CollectOwed, QueueQueries, NobodyListens, Return,
           TakeCompletions, upstream, registry, news
<1>2. \A t \in Syncs : sync[t].signals \subseteq sync'[t].signals
    <2>1. CASE Begin(s) \/ Release(s) \/ QueueQueries(s)
        BY <2>1, SyncMoves DEF Moved
    <2>2. CASE CollectOwed(s)
        BY <2>2, SyncMoves DEF Moved
    <2>3. CASE NobodyListens(s) \/ Return(s) \/ TakeCompletions(s)
        <3>1. sync[s].signals = {}
            BY <2>3 DEF NobodyListens, Return, TakeCompletions, Carried
        <3>2. \A t \in Syncs \ {s} : sync'[t] = sync[t]
            BY <2>3, SyncMoves DEF Moved
        <3>3. QED
            BY <3>1, <3>2
    <2>4. QED
        BY <2>1, <2>2, <2>3
<1>3. \A f \in Flows : InFlight(Invitation(f)) => InFlight(Invitation(f))'
    BY <1>2 DEF InFlight, Invitation
<1>4. QED
    BY <1>1, <1>3, QuietTends

LEMMA CollectTends ==
    ASSUME TypeOK, Invited, Tended, NEW s \in Syncs, CollectInvitations(s)
    PROVE  Tended'
<1>1. Moved(s, "announcing", {}, sync[s].owed, sync[s].signals \cup Called(s))
    BY SyncMoves
<1>2. UNCHANGED <<began, stage, given, call, wired>>
    BY DEF CollectInvitations, upstream, news
<1>3. \/ UNCHANGED registry /\ Fresh(s) = {}
      \/ Insert(Fresh(s))
    BY DEF CollectInvitations, Fresh
<1>4. \A f \in registered' : f \in registered \cup Fresh(s)
    BY <1>3 DEF registry, Insert, Swept
<1>5. \A f \in Flows : InFlight(Invitation(f)) \/ f \in Fresh(s)
                          => InFlight(Invitation(f))'
    BY <1>1 DEF Moved, Called, InFlight, Invitation
<1>6. QED
    BY <1>2, <1>4, <1>5 DEF Tended, Calling, Untaken, InvitationKept, Ordinary

LEMMA AnnounceTends ==
    ASSUME TypeOK, Invited, Tended, NEW s \in Syncs, Announce(s)
    PROVE  Tended'
<1>1. UNCHANGED <<began, stage, call, wired>>
    BY DEF Announce, upstream
<1>2. PICK signal \in sync[s].signals :
          /\ signal \in Signal
          /\ Moved(s, sync[s].at, sync[s].starts, sync[s].owed, sync[s].signals \ {signal})
          /\ IF observer
             THEN /\ UNCHANGED registry
                  /\ IF signal.kind = "VerificationRequested"
                     THEN given' = given \cup {signal.flow}
                     ELSE UNCHANGED given
             ELSE /\ UNCHANGED given
                  /\ IF signal.kind = "VerificationRequested" THEN Forget(signal.flow)
                                                             ELSE UNCHANGED registry
    BY AnnounceSays
<1>3. \A f \in Flows : InFlight(Invitation(f)) =>
          InFlight(Invitation(f))' \/ signal = Invitation(f)
    BY <1>2 DEF Moved, InFlight, Invitation
<1>4. CASE signal.kind # "VerificationRequested"
    <2>1. \A f \in Flows : signal # Invitation(f)
        BY <1>4 DEF Invitation
    <2>2. UNCHANGED <<registered, given>>
        BY <1>2, <1>4 DEF registry
    <2>3. QED
        BY <1>1, <1>3, <2>1, <2>2, QuietTends
<1>5. CASE signal.kind = "VerificationRequested"
    <2>1. signal.flow \in Flows /\ \A f \in Flows : signal = Invitation(f) => f = signal.flow
        BY <1>2 DEF Signal, Invitation
    <2>2. began[signal.flow] \in {"there", "bare"}
        BY <1>2, <1>5, <2>1 DEF Invited, Beginnings, Invitation, Signal
    <2>3. \/ UNCHANGED registered /\ given' = given \cup {signal.flow}
          \/ registered' = registered \ {signal.flow} /\ UNCHANGED given
        BY <1>2, <1>5 DEF registry, Forget
    <2>4. QED
        BY <1>1, <1>3, <2>1, <2>2, <2>3
           DEF Tended, Calling, Untaken, InvitationKept, Ordinary
<1>6. QED
    BY <1>4, <1>5

\* The parts about ordinary flows that are not given out hold together.
LEMMA TendedStep ==
    ASSUME TypeOK, Carried, Invited, Tended, [Next]_vars
    PROVE  Tended'
<1>1. CASE Subscribe \/ Unsubscribe \/ UNCHANGED vars
    BY <1>1, QuietTends
       DEF Subscribe, Unsubscribe, vars, upstream, registry, news, InFlight, Invitation
<1>2. CASE Next
    BY <1>1, <1>2, WiredGrows, CallsTend, RegisterTends, EventsTend, PassTends, CollectTends,
       AnnounceTends DEF Next
<1>3. QED
    BY <1>1, <1>2

LEMMA TendedHolds == Spec => []Tended
<1>1. Init => Tended
    BY FlowAssumption DEF Init, Tended, Calling, Untaken, InvitationKept, Ordinary
<1>2. TypeOK /\ Carried /\ Invited /\ Tended /\ [Next]_vars => Tended'
    BY TendedStep
<1>3. QED
    BY <1>1, <1>2, InOrder, PTL DEF Spec

\* A registered invitation the product was not given is on its way to it: the
\* put-back of announce undoes the registration it belongs to and no other, so
\* that a later pass announces the invitation again.
THEOREM InvitationKeptHolds == Spec => []InvitationKept
<1>1. Tended => InvitationKept
    BY DEF Tended
<1>2. QED
    BY <1>1, TendedHolds, PTL

-----------------------------------------------------------------------------
(* What is told and asked.                                                 *)

Once == Marks /\ Tidings /\ OneCompletion /\ OneQuery

\* A step that tells and asks nothing, and whose flows stay done.
LEMMA QuietOnce ==
    ASSUME Once, wired \subseteq wired', UNCHANGED <<registry, told, asked>>,
           registered \subseteq Flows, announced \subseteq registered, queried \subseteq registered,
           sync \in [Syncs -> Syncing],
           \A t \in Syncs : /\ sync'[t].signals \subseteq sync[t].signals
                            /\ sync'[t].owed \subseteq sync[t].owed,
           \A f \in Flows : stage[f] = "done" =>
                               stage'[f] = "done" /\ (f \in codes' <=> f \in codes)
    PROVE  Once'
<1> USE DEF Once, Marks, Tidings, OneCompletion, OneQuery, Ordinary, registry
<1>1. \A t \in Syncs : \A signal \in sync'[t].signals :
         /\ signal \in sync[t].signals /\ signal.flow \in Flows
         /\ signal.kind # "VerificationRequested" =>
              /\ signal = Completion(signal.flow)
              /\ stage[signal.flow] = "done"
              /\ Completion(signal.flow)' = Completion(signal.flow)
    BY DEF Syncing, Signal, Completion
<1>2. Marks'
    OBVIOUS
<1>3. Tidings'
    BY <1>1
<1>4. \A f \in Flows : \A t \in Syncs : Completion(f)' \in sync'[t].signals =>
          Completion(f) \in sync[t].signals
    BY <1>1 DEF Completion
<1>5. OneCompletion'
    BY <1>4 DEF InFlight, Completion
<1>6. OneQuery'
    OBVIOUS
<1>7. QED
    BY <1>2, <1>3, <1>5, <1>6

\* The steps that change no record: calls on a flow, events, and those of a
\* pass that neither collect nor tell.
LEMMA FlowsQuiet ==
    ASSUME TypeOK, Invited, Once, [Next]_vars, NEW f \in Flows,
           \/ \E c \in Callers : RequestFlow(c, f) \/ Adopt(c, f)
           \/ AcceptFlow(f) \/ ConfirmFlow(f) \/ ConfirmScan(f) \/ CancelFlow(f)
           \/ \E s \in Syncs :
                 \/ Accepted(s, f) \/ Cancelled(s, f)
                 \/ DoneOverRequest(s, f) \/ DoneOverHandle(s, f)
                 \/ \E how \in {"there", "bare"} : Arrives(s, f, how)
    PROVE  Once'
<1>1. UNCHANGED <<registry, told, asked>>
    BY DEF RequestFlow, Adopt, AcceptFlow, ConfirmFlow, ConfirmScan, CancelFlow, Accepted, Cancelled,
           DoneOverRequest, DoneOverHandle, Arrives, Name, registry, news
<1>2. \A t \in Syncs : /\ sync'[t].signals = sync[t].signals
                       /\ sync'[t].owed = sync[t].owed
    <2>1. CASE UNCHANGED sync
        BY <2>1
    <2>2. ASSUME NEW s \in Syncs, NEW how \in {"there", "bare"}, Arrives(s, f, how)
          PROVE  \A t \in Syncs : /\ sync'[t].signals = sync[t].signals
                                  /\ sync'[t].owed = sync[t].owed
        BY <2>2, SyncMoves DEF Moved
    <2>3. QED
        BY <2>1, <2>2 DEF RequestFlow, Adopt, AcceptFlow, ConfirmFlow, ConfirmScan, CancelFlow, Accepted,
           Cancelled, DoneOverRequest, DoneOverHandle
<1>3. \A g \in Flows : stage[g] = "done" =>
                          stage'[g] = "done" /\ (g \in codes' <=> g \in codes)
    BY FlowTypes
       DEF RequestFlow, Adopt, AcceptFlow, ConfirmFlow, ConfirmScan, CancelFlow, Accepted, Cancelled,
           DoneOverRequest, DoneOverHandle, Arrives, upstream, Live, Invited, Beginnings
<1>4. /\ registered \subseteq Flows /\ announced \subseteq registered
      /\ queried \subseteq registered /\ sync \in [Syncs -> Syncing]
    BY DEF TypeOK, Syncing, Steps
<1>5. QED
    BY <1>1, <1>2, <1>3, <1>4, WiredGrows, QuietOnce

LEMMA PassQuiet ==
    ASSUME TypeOK, Once, [Next]_vars,
           \/ Subscribe \/ Unsubscribe \/ UNCHANGED vars
           \/ \E s \in Syncs : Begin(s) \/ Release(s) \/ NobodyListens(s) \/ Return(s)
    PROVE  Once'
<1>1. UNCHANGED <<registry, told, asked, stage, codes>>
    BY DEF Subscribe, Unsubscribe, Begin, Release, NobodyListens, Return, vars, registry,
           news, upstream
<1>2. \A t \in Syncs : /\ sync'[t].signals \subseteq sync[t].signals
                       /\ sync'[t].owed \subseteq sync[t].owed
    <2>1. CASE UNCHANGED sync
        BY <2>1
    <2>2. ASSUME NEW s \in Syncs, Begin(s) \/ Release(s) \/ NobodyListens(s) \/ Return(s)
          PROVE  \A t \in Syncs : /\ sync'[t].signals \subseteq sync[t].signals
                                  /\ sync'[t].owed \subseteq sync[t].owed
        BY <2>2, SyncMoves DEF Moved
    <2>3. QED
        BY <2>1, <2>2 DEF Subscribe, Unsubscribe, vars
<1>4. /\ registered \subseteq Flows /\ announced \subseteq registered
      /\ queried \subseteq registered /\ sync \in [Syncs -> Syncing]
    BY DEF TypeOK, Syncing, Steps
<1>5. QED
    BY <1>1, <1>2, <1>4, WiredGrows, QuietOnce

\* A registration of flows that are not done, after its sweep.
LEMMA InsertOnce ==
    ASSUME Once, wired \subseteq wired', UNCHANGED <<stage, codes, told, asked>>,
           told \in [Flows -> 0..2], asked \in [Flows -> 0..2], NEW added \in SUBSET Flows,
           \/ Insert(added)
           \/ UNCHANGED registry,
           \A f \in added \cap Ordinary : stage[f] # "done",
           \A t \in Syncs :
              /\ sync'[t].owed = sync[t].owed
              /\ \A signal \in sync'[t].signals :
                    signal \in sync[t].signals \/ signal.kind = "VerificationRequested"
    PROVE  Once'
<1>1. announced' \subseteq announced /\ queried' \subseteq queried
    BY DEF Insert, registry
<1>2. Marks'
    BY <1>1 DEF Once, Marks
<1>3. \A f \in Flows : Completion(f)' = Completion(f)
    BY DEF Completion
<1>4. Tidings'
    BY DEF Once, Tidings, Completion
<1>5. \A f \in Flows : \A t \in Syncs : Completion(f) \in sync'[t].signals =>
          Completion(f) \in sync[t].signals
    BY DEF Completion
<1>6. \A f \in Ordinary : /\ f \in registered' \ announced' =>
                               f \in registered \ announced \/ stage[f] # "done"
                          /\ f \in registered' \ queried' =>
                               f \in registered \ queried \/ stage[f] # "done"
    BY DEF Insert, Swept, registry
<1>7. \A f \in Flows : stage[f] # "done" =>
          /\ told[f] = 0 /\ asked[f] = 0 /\ ~InFlight(Completion(f))
          /\ \A s \in Syncs : f \notin sync[s].owed
    BY DEF Once, Tidings, InFlight, Completion
<1>8. OneCompletion'
    BY <1>3, <1>5, <1>6, <1>7 DEF Once, OneCompletion, Ordinary, InFlight
<1>9. OneQuery'
    BY <1>6, <1>7 DEF Once, OneQuery, Ordinary
<1>10. QED
    BY <1>2, <1>4, <1>8, <1>9 DEF Once

LEMMA RegisterOnce ==
    ASSUME TypeOK, Once, Tended, NEW c \in Callers, Register(c)
    PROVE  Once'
<1>1. /\ UNCHANGED <<stage, codes, told, asked, sync, wired>>
      /\ Insert({call[c]}) /\ {call[c]} \in SUBSET Flows
    BY FlowTypes, FlowAssumption DEF Register, upstream
<1>2. \A f \in {call[c]} \cap Ordinary : stage[f] # "done"
    BY DEF Tended, Calling, Untaken
<1>3. QED
    BY <1>1, <1>2, FlowTypes, InsertOnce

LEMMA CollectOnce ==
    ASSUME TypeOK, Once, Invited, NEW s \in Syncs, CollectInvitations(s)
    PROVE  Once'
<1>1. Moved(s, "announcing", {}, sync[s].owed, sync[s].signals \cup Called(s))
    BY SyncMoves
<1>2. UNCHANGED <<stage, codes, told, asked, wired>>
    BY DEF CollectInvitations, upstream, news
<1>3. \/ UNCHANGED registry
      \/ Insert(Fresh(s))
    BY DEF CollectInvitations, Fresh
<1>4. Fresh(s) \in SUBSET Flows /\ \A f \in Fresh(s) \cap Ordinary : stage[f] # "done"
    BY FreshIsNew DEF Live
<1>5. \A t \in Syncs :
          /\ sync'[t].owed = sync[t].owed
          /\ \A signal \in sync'[t].signals :
                signal \in sync[t].signals \/ signal.kind = "VerificationRequested"
    BY <1>1 DEF Moved, Called, Invitation
<1>6. QED
    BY <1>2, <1>3, <1>4, <1>5, FlowTypes, InsertOnce

\* The queries owed are collected by the walk that marks their records.
LEMMA OwedOnce ==
    ASSUME TypeOK, Carried, Once, NEW s \in Syncs, CollectOwed(s)
    PROVE  Once'
<1>1. Moved(s, IF Owed = {} THEN "asked" ELSE "owing", sync[s].starts, Owed,
            sync[s].signals)
    BY SyncMoves
<1>2. /\ UNCHANGED <<stage, codes, told, asked, wired, registered, announced>>
      /\ queried' = queried \cup DoneRecords
    BY DEF CollectOwed, upstream, news
<1>3. sync[s].owed = {}
    BY DEF CollectOwed, Carried
<1>4. \A t \in Syncs : /\ sync'[t].signals = sync[t].signals
                       /\ sync'[t].owed = IF t = s THEN Owed ELSE sync[t].owed
    BY <1>1 DEF Moved
<1>5. \A f \in Owed : f \in registered \ queried /\ stage[f] = "done"
    BY DEF Owed, DoneRecords
<1>6. Marks'
    BY <1>2 DEF Once, Marks, DoneRecords
<1>7. Tidings'
    BY <1>2, <1>4, <1>5 DEF Once, Tidings, Completion
<1>8. OneCompletion'
    BY <1>2, <1>4 DEF Once, OneCompletion, InFlight, Completion, Ordinary
<1>9. \A f \in registered' \ queried' : f \in registered \ queried /\ f \notin Owed
    BY <1>2 DEF Owed
<1>10. OneQuery'
    BY <1>2, <1>3, <1>4, <1>5, <1>9 DEF Once, OneQuery, Ordinary
<1>11. QED
    BY <1>6, <1>7, <1>8, <1>10 DEF Once

\* A query owed is queued by the one sync that carries it.
LEMMA QueueOnce ==
    ASSUME TypeOK, Once, NEW s \in Syncs, QueueQueries(s)
    PROVE  Once'
<1>1. Moved(s, "asked", sync[s].starts, {}, sync[s].signals)
    BY SyncMoves
<1>2. /\ UNCHANGED <<stage, codes, told, wired, registry>>
      /\ asked' = [f \in Flows |-> IF f \in sync[s].owed THEN More(asked[f]) ELSE asked[f]]
    BY DEF QueueQueries, upstream
<1>4. \A t \in Syncs : /\ sync'[t].signals = sync[t].signals
                       /\ sync'[t].owed = IF t = s THEN {} ELSE sync[t].owed
    BY <1>1 DEF Moved
<1>5. \A f \in Flows : /\ f \in sync[s].owed => asked'[f] = More(asked[f])
                       /\ f \notin sync[s].owed => asked'[f] = asked[f]
    BY <1>2
<1>6. Marks'
    BY <1>2 DEF Once, Marks, registry
<1>7. Tidings'
    BY <1>2, <1>4, <1>5 DEF Once, Tidings, Completion
<1>8. OneCompletion'
    BY <1>2, <1>4 DEF Once, OneCompletion, InFlight, Completion, Ordinary, registry
<1>9. OneQuery'
    BY <1>2, <1>4, <1>5 DEF Once, OneQuery, Ordinary, registry, More
<1>10. QED
    BY <1>6, <1>7, <1>8, <1>9 DEF Once

\* The completions are collected by the walk that marks their records.
LEMMA TakeOnce ==
    ASSUME TypeOK, Carried, Once, NEW s \in Syncs, TakeCompletions(s)
    PROVE  Once'
<1>1. Moved(s, "taken", sync[s].starts, sync[s].owed, Taken)
    BY SyncMoves
<1>2. /\ UNCHANGED <<stage, codes, told, asked, wired, registered, queried>>
      /\ announced' = announced \cup DoneRecords
    BY DEF TakeCompletions, upstream, news
<1>3. sync[s].signals = {}
    BY DEF TakeCompletions, Carried
<1>4. \A t \in Syncs : /\ sync'[t].owed = sync[t].owed
                       /\ sync'[t].signals = IF t = s THEN Taken ELSE sync[t].signals
    BY <1>1 DEF Moved
<1>5. /\ \A signal \in Taken : \E f \in DoneRecords \ announced : signal = Completion(f)
      /\ \A f \in Flows : Completion(f) \in Taken => f \in DoneRecords \ announced
    BY DEF Taken, Completion
<1>6. Marks'
    BY <1>2 DEF Once, Marks, DoneRecords
<1>7. Tidings'
    <2>1. \A signal \in Taken : /\ signal = Completion(signal.flow)
                                /\ stage[signal.flow] = "done"
        BY <1>5 DEF Completion, DoneRecords
    <2>2. QED
        BY <1>2, <1>4, <2>1 DEF Once, Tidings, Completion
<1>8. \A f \in registered' \ announced' : f \in registered \ announced /\ f \notin DoneRecords
    BY <1>2
<1>9. \A f \in Flows : Completion(f)' = Completion(f)
    BY <1>2 DEF Completion
<1>10. \A f \in Flows : \A t \in Syncs : Completion(f) \in sync'[t].signals =>
          \/ t # s /\ Completion(f) \in sync[t].signals
          \/ t = s /\ f \in DoneRecords \ announced
    BY <1>4, <1>5
<1>11. OneCompletion'
    BY <1>2, <1>8, <1>9, <1>10, FlowTypes
       DEF Once, OneCompletion, InFlight, Ordinary, DoneRecords
<1>12. OneQuery'
    BY <1>2, <1>4 DEF Once, OneQuery, Ordinary
<1>13. QED
    BY <1>6, <1>7, <1>11, <1>12 DEF Once

\* A completion is told by the one pass that carries it, or lost with it.
LEMMA AnnounceOnce ==
    ASSUME TypeOK, Once, NEW s \in Syncs, Announce(s)
    PROVE  Once'
<1>1. UNCHANGED <<stage, codes, asked, wired>>
    BY DEF Announce, upstream
<1>2. PICK signal \in sync[s].signals :
          /\ signal \in Signal
          /\ Moved(s, sync[s].at, sync[s].starts, sync[s].owed, sync[s].signals \ {signal})
          /\ \/ UNCHANGED registry
             \/ Forget(signal.flow)
          /\ \/ UNCHANGED told
             \/ /\ signal.kind # "VerificationRequested" /\ UNCHANGED registry
                /\ told' = [told EXCEPT ![signal.flow] = More(@)]
    BY AnnounceSays
<1> DEFINE f == signal.flow
<1>3. f \in Flows
    BY <1>2 DEF Signal
<1>4. \A t \in Syncs : /\ sync'[t].owed = sync[t].owed
                       /\ sync'[t].signals = IF t = s THEN sync[s].signals \ {signal}
                                             ELSE sync[t].signals
    BY <1>2 DEF Moved
<1>5. /\ announced' \subseteq announced /\ queried' \subseteq queried
      /\ registered' \ announced' \subseteq registered \ announced
      /\ registered' \ queried' \subseteq registered \ queried
    BY <1>2 DEF registry, Forget
<1>6. Marks'
    BY <1>1, <1>5 DEF Once, Marks
<1>7. Tidings'
    <2>1. \A g \in Flows : told'[g] > 0 => told[g] > 0 \/ stage[g] = "done"
        BY <1>2, <1>3, FlowTypes DEF Once, Tidings
    <2>2. QED
        BY <1>1, <1>4, <2>1 DEF Once, Tidings, Completion
<1>8. OneQuery'
    BY <1>1, <1>4, <1>5 DEF Once, OneQuery, Ordinary
<1>9. \A g \in Flows : Completion(g)' = Completion(g)
    BY <1>1 DEF Completion
<1>10. ASSUME UNCHANGED told
       PROVE  OneCompletion'
    BY <1>1, <1>4, <1>5, <1>9, <1>10 DEF Once, OneCompletion, InFlight, Ordinary
<1>11. ASSUME signal.kind # "VerificationRequested", UNCHANGED registry,
              told' = [told EXCEPT ![f] = More(@)]
       PROVE  OneCompletion'
    <2>1. signal = Completion(f)
        BY <1>2, <1>11 DEF Once, Tidings
    <2>2. \A g \in Flows : g # f => told'[g] = told[g]
        BY <1>11, FlowTypes
    <2>3. f \in Ordinary => told'[f] = 1 /\ f \notin registered \ announced
        BY <1>3, <1>11, <2>1, FlowTypes DEF Once, OneCompletion, InFlight, More
    <2>4. f \in Ordinary => \A t \in Syncs : Completion(f) \notin sync'[t].signals
        BY <1>4, <2>1 DEF Once, OneCompletion
    <2>5. QED
        BY <1>1, <1>4, <1>5, <1>9, <2>2, <2>3, <2>4
           DEF Once, OneCompletion, InFlight, Ordinary
<1>12. OneCompletion'
    BY <1>2, <1>10, <1>11
<1>13. QED
    BY <1>6, <1>7, <1>8, <1>12 DEF Once

\* The parts about what is told and asked hold together.
LEMMA OnceStep ==
    ASSUME TypeOK, Carried, Invited, Tended, Once, [Next]_vars
    PROVE  Once'
<1>1. CASE Next
    BY <1>1, FlowsQuiet, PassQuiet, RegisterOnce, CollectOnce, OwedOnce, QueueOnce, TakeOnce,
       AnnounceOnce DEF Next
<1>2. QED
    BY <1>1, PassQuiet

LEMMA OnceHolds == Spec => []Once
<1>1. Init => Once
    <2> SUFFICES ASSUME Init
                 PROVE  Once
        OBVIOUS
    <2>1. Marks /\ Tidings
        BY DEF Init, Resting, Marks, Tidings
    <2>2. OneCompletion /\ OneQuery
        BY DEF Init, Resting, OneCompletion, OneQuery, Ordinary, InFlight
    <2>3. QED
        BY <2>1, <2>2 DEF Once
<1>2. TypeOK /\ Carried /\ Invited /\ Tended /\ Once /\ [Next]_vars => Once'
    BY OnceStep
<1>3. QED
    BY <1>1, <1>2, InOrder, TendedHolds, PTL DEF Spec

\* However many syncs overlap with however many sweeps, a flow is invited to
\* once, told of once and asked about once: the marks of the two walks
\* (peers_owed_a_key_query, take_pending_completions) and register_if_absent
\* decide it, each under the registry's lock.
THEOREM NothingTwiceHolds == Spec => []NothingTwice
<1>1. Invited /\ Once => NothingTwice
    BY DEF Invited, InvitedOnce, Once, OneCompletion, OneQuery, Ordinary, NothingTwice
<1>2. QED
    BY <1>1, InOrder, OnceHolds, PTL

-----------------------------------------------------------------------------
(* That nothing owed is lost.                                              *)

\* What a sweep tore stays torn.
LEMMA TornGrows ==
    ASSUME [Next]_vars
    PROVE  torn \subseteq torn'
<1>1. CASE UNCHANGED torn
    BY <1>1
<1>2. ASSUME NEW added, Insert(added)
      PROVE  torn \subseteq torn'
    BY <1>2 DEF Insert
<1>3. ASSUME NEW s \in Syncs, CollectInvitations(s)
      PROVE  torn \subseteq torn'
    BY <1>1, <1>2, <1>3 DEF CollectInvitations, registry
<1>4. ASSUME NEW s \in Syncs, Announce(s)
      PROVE  torn \subseteq torn'
    BY <1>4 DEF Announce, Deliver, PutBack, Forget, registry
<1>5. CASE Next
    BY <1>1, <1>2, <1>3, <1>4, <1>5
       DEF Next, registry, Subscribe, Unsubscribe, Register, RequestFlow, Adopt, AcceptFlow,
           ConfirmFlow, ConfirmScan, CancelFlow, Begin, Release, Arrives, Accepted,
           Cancelled, DoneOverRequest, DoneOverHandle, CollectOwed, QueueQueries,
           NobodyListens, TakeCompletions, Return
<1>6. QED
    BY <1>1, <1>5 DEF vars, registry

\* A confirmed flow whose done is halfway has its record still, or is torn: a
\* sweep in between takes the record, since the request is over.
Whole ==
    /\ halfway # Free => halfway \in over
    /\ \A f \in Ordinary :
          stage[f] = "confirmed" /\ f = halfway => f \in registered \cup torn

\* The flows attended are done, and the observer that attends them is there.
Attended == /\ attended # {} => observer
            /\ \A f \in attended : stage[f] = "done"

\* A sweep takes a record halfway only by tearing it.
LEMMA InsertWhole ==
    ASSUME Whole, wired \subseteq wired', UNCHANGED <<stage, halfway, over>>,
           NEW added, Insert(added)
    PROVE  Whole'
BY DEF Whole, Insert, Ordinary

\* A done that begins to be applied finds the record of a confirmed flow.
LEMMA RequestWhole ==
    ASSUME TypeOK, Invited, Tended, Whole, NEW s \in Syncs, NEW f \in Flows,
           DoneOverRequest(s, f)
    PROVE  Whole'
<1>1. /\ halfway' = f /\ over' = over \cup {f} /\ f \notin over
      /\ UNCHANGED <<stage, registered, torn, wired>>
    BY DEF DoneOverRequest, registry, news
<1>2. ASSUME f \in Ordinary, stage[f] = "confirmed"
      PROVE  f \in registered
    BY <1>1, <1>2 DEF Tended, Untaken, Invited, GivenStays, Live
<1>3. QED
    BY <1>1, <1>2 DEF Whole, Ordinary

\* What is put back is no flow somebody has confirmed.
LEMMA AnnounceWhole ==
    ASSUME TypeOK, Invited, Tended, Whole, NEW s \in Syncs, Announce(s)
    PROVE  Whole'
<1>1. UNCHANGED <<stage, over, halfway, wired>>
    BY DEF Announce, upstream
<1>2. PICK signal \in sync[s].signals :
          /\ signal \in Signal
          /\ \/ UNCHANGED registry
             \/ signal.kind = "VerificationRequested" /\ Forget(signal.flow)
    BY AnnounceSays
<1>3. CASE UNCHANGED registry
    BY <1>1, <1>3 DEF Whole, Ordinary, registry
<1>4. CASE signal.kind = "VerificationRequested" /\ Forget(signal.flow)
    <2>1. signal.flow \in Flows /\ signal = Invitation(signal.flow)
        BY <1>2, <1>4 DEF Signal, Invitation
    <2>2. signal.flow \notin given
        BY <1>2, <2>1 DEF Invited, OneInvitation
    <2>3. signal.flow \in Ordinary => stage[signal.flow] # "confirmed"
        BY <2>2 DEF Tended, Untaken
    <2>4. QED
        BY <1>1, <1>4, <2>3 DEF Whole, Ordinary, Forget
<1>5. QED
    BY <1>2, <1>3, <1>4

LEMMA WholeStep ==
    ASSUME TypeOK, Invited, Tended, Whole, [Next]_vars
    PROVE  Whole'
<1>0. wired \subseteq wired'
    BY WiredGrows
<1> USE FlowTypes, FlowAssumption
<1>1. CASE UNCHANGED <<stage, over, halfway, registered, torn>>
    BY <1>0, <1>1 DEF Whole, Ordinary
<1>2. ASSUME NEW f \in Flows,
             \/ \E c \in Callers : RequestFlow(c, f)
             \/ AcceptFlow(f) \/ ConfirmFlow(f) \/ ConfirmScan(f) \/ CancelFlow(f)
             \/ \E s \in Syncs :
                   \/ Accepted(s, f) \/ Cancelled(s, f)
                   \/ \E how \in {"there", "bare"} : Arrives(s, f, how)
      PROVE  Whole'
    <2>1. /\ UNCHANGED <<halfway, registered, torn>> /\ over \subseteq over'
          /\ \A g \in Flows : stage'[g] = "confirmed" => stage[g] = "confirmed" \/ g \in registered
        BY <1>2
           DEF RequestFlow, AcceptFlow, ConfirmFlow, ConfirmScan, CancelFlow, Accepted,
               Cancelled, Arrives, registry
    <2>2. QED
        BY <1>0, <2>1 DEF Whole, Ordinary
<1>3. ASSUME NEW s \in Syncs, NEW f \in Flows, DoneOverHandle(s, f)
      PROVE  Whole'
    BY <1>3 DEF DoneOverHandle, Whole, Ordinary
<1>4. ASSUME NEW c \in Callers, Register(c)
      PROVE  Whole'
    BY <1>0, <1>4, InsertWhole DEF Register, upstream
<1>5. ASSUME NEW s \in Syncs, CollectInvitations(s)
      PROVE  Whole'
    <2>1. \/ UNCHANGED registry
          \/ Insert(Fresh(s))
        BY <1>5 DEF CollectInvitations, Fresh
    <2>2. UNCHANGED upstream
        BY <1>5 DEF CollectInvitations
    <2>3. QED
        BY <1>0, <1>1, <2>1, <2>2, InsertWhole DEF registry, upstream
<1>6. ASSUME NEW s \in Syncs,
             \/ Begin(s) \/ Release(s) \/ CollectOwed(s) \/ QueueQueries(s)
             \/ NobodyListens(s) \/ TakeCompletions(s) \/ Return(s)
      PROVE  Whole'
    BY <1>1, <1>6
       DEF upstream, registry, Begin, Release, CollectOwed, QueueQueries, NobodyListens,
           TakeCompletions, Return
<1>8. ASSUME \/ Subscribe \/ Unsubscribe
             \/ \E c \in Callers, f \in Flows : Adopt(c, f)
      PROVE  Whole'
    BY <1>1, <1>8 DEF upstream, registry, Subscribe, Unsubscribe, Adopt
<1>9. CASE Next
    BY <1>2, <1>3, <1>4, <1>5, <1>6, <1>8, <1>9, RequestWhole, AnnounceWhole DEF Next
<1>10. QED
    BY <1>1, <1>9 DEF vars, upstream, registry

LEMMA AttendedStep ==
    ASSUME TypeOK, Invited, Attended, [Next]_vars
    PROVE  Attended'
<1> USE FlowTypes
        DEF Attended, upstream, registry, news, Live, Attend
<1>0. attended \subseteq Flows
    BY DEF TypeOK
<1>1. CASE UNCHANGED <<stage, attended, observer>>
    BY <1>1
<1>2. CASE Subscribe \/ Unsubscribe
    BY <1>2 DEF Subscribe, Unsubscribe
<1>3. ASSUME NEW f \in Flows,
             \/ \E c \in Callers : RequestFlow(c, f)
             \/ AcceptFlow(f) \/ ConfirmFlow(f) \/ ConfirmScan(f) \/ CancelFlow(f)
             \/ \E s \in Syncs :
                   \/ Accepted(s, f) \/ Cancelled(s, f)
                   \/ DoneOverHandle(s, f)
                   \/ \E how \in {"there", "bare"} : Arrives(s, f, how)
      PROVE  Attended'
    BY <1>0, <1>3 DEF RequestFlow, AcceptFlow, ConfirmFlow, ConfirmScan, CancelFlow, Name, Accepted,
       Cancelled, DoneOverHandle, Arrives, Invited, Beginnings
<1>4. QED
    BY <1>1, <1>2, <1>3
       DEF Next, vars, Register, Adopt, Name, Begin, Release, DoneOverRequest, CollectOwed,
           QueueQueries, NobodyListens, TakeCompletions, CollectInvitations, Announce, Return

Accounted == OwedQueryKept /\ CompletionKept

\* A step that finishes no flow and takes no record of a finished one, and no
\* tidings under way.
LEMMA QuietKeeps ==
    ASSUME TypeOK', Attended, Accounted, wired \subseteq wired',
           torn \subseteq torn', UNCHANGED <<told, asked>>,
           attended' \subseteq attended, attended \subseteq Flows,
           \A f \in Flows : stage'[f] = "done" =>
              /\ stage[f] = "done" /\ (f \in codes' <=> f \in codes)
              /\ f \in (Ordinary \cap registered) \ queried => f \in registered' \ queried'
              /\ f \in (Ordinary \cap attended' \cap registered) \ announced
                    => f \in registered' \ announced'
              /\ \A t \in Syncs :
                    /\ f \in sync[t].owed => f \in sync'[t].owed
                    /\ Completion(f) \in sync[t].signals => Completion(f) \in sync'[t].signals,
           \A f \in attended' : stage'[f] = "done"
    PROVE  Accounted'
<1>1. \A f \in Flows : stage'[f] = "done" => Completion(f)' = Completion(f)
    BY DEF Completion
<1>2. OwedQueryKept'
    BY DEF Accounted, OwedQueryKept, Ordinary
<1>3. CompletionKept'
    BY <1>1 DEF Accounted, CompletionKept, Ordinary, InFlight
<1>4. QED
    BY <1>2, <1>3 DEF Accounted

LEMMA FlowsKeep ==
    ASSUME TypeOK, TypeOK', Invited, Attended, Attended', Accounted, [Next]_vars,
           NEW f \in Flows,
           \/ \E c \in Callers : RequestFlow(c, f) \/ Adopt(c, f)
           \/ AcceptFlow(f) \/ ConfirmScan(f) \/ CancelFlow(f)
           \/ \E s \in Syncs :
                 \/ Accepted(s, f) \/ Cancelled(s, f) \/ DoneOverRequest(s, f)
                 \/ \E how \in {"there", "bare"} : Arrives(s, f, how)
    PROVE  Accounted'
<1>1. UNCHANGED <<registry, told, asked, attended>>
    BY DEF RequestFlow, Adopt, AcceptFlow, ConfirmScan, CancelFlow, Accepted, Cancelled,
           DoneOverRequest, Arrives, Name, registry, news
<1>2. \A t \in Syncs : /\ sync'[t].signals = sync[t].signals
                       /\ sync'[t].owed = sync[t].owed
    <2>1. CASE UNCHANGED sync
        BY <2>1
    <2>2. ASSUME NEW s \in Syncs, NEW how \in {"there", "bare"}, Arrives(s, f, how)
          PROVE  \A t \in Syncs : /\ sync'[t].signals = sync[t].signals
                                  /\ sync'[t].owed = sync[t].owed
        BY <2>2, SyncMoves DEF Moved
    <2>3. QED
        BY <2>1, <2>2 DEF RequestFlow, Adopt, AcceptFlow, ConfirmScan, CancelFlow, Accepted,
           Cancelled, DoneOverRequest
<1>3. \A g \in Flows : stage'[g] = "done" =>
                          stage[g] = "done" /\ (g \in codes' <=> g \in codes)
    BY FlowTypes
       DEF RequestFlow, Adopt, AcceptFlow, ConfirmScan, CancelFlow, Accepted, Cancelled,
           DoneOverRequest, Arrives, upstream, Live, Invited, Beginnings
<1>4. attended \subseteq Flows /\ \A g \in attended' : stage'[g] = "done"
    BY DEF TypeOK, Attended
<1>5. QED
    BY <1>1, <1>2, <1>3, <1>4, WiredGrows, TornGrows, QuietKeeps DEF registry

\* A flow that becomes done was given, so it is registered or torn, and its
\* record is unmarked. It becomes so in a sync or, bare, in confirm_flow.
LEMMA DoneKeeps ==
    ASSUME TypeOK, TypeOK', Invited, Tended, Once, Whole, Attended, Attended', Accounted,
           [Next]_vars, NEW f \in Flows,
           ConfirmFlow(f) \/ \E s \in Syncs : DoneOverHandle(s, f)
    PROVE  Accounted'
<1>0. Ordinary' \subseteq Ordinary /\ attended \subseteq Flows
    BY WiredGrows DEF Ordinary, TypeOK
<1>1. UNCHANGED <<codes, registry, sync, told, asked>>
    BY DEF DoneOverHandle, ConfirmFlow, Name
<1>2. \/ /\ UNCHANGED attended
         /\ stage' = stage \/ stage' = [stage EXCEPT ![f] = "confirmed"]
      \/ /\ stage' = [stage EXCEPT ![f] = "done"] /\ attended' \subseteq attended \cup {f}
         /\ stage[f] \in {"open", "confirmed"}
         /\ \/ f \in registered
            \/ stage[f] = "confirmed" /\ (f = halfway \/ began[f] = "bare")
    BY DEF DoneOverHandle, ConfirmFlow, Attend
<1>3. CASE /\ UNCHANGED attended
           /\ stage' = stage \/ stage' = [stage EXCEPT ![f] = "confirmed"]
    <2>1. \A g \in Flows : stage'[g] = "done" => stage[g] = "done"
        BY <1>3, FlowTypes
    <2>2. \A g \in attended' : stage'[g] = "done"
        BY DEF Attended
    <2>3. QED
        BY <1>0, <1>1, <1>3, <2>1, <2>2, WiredGrows, TornGrows, QuietKeeps DEF registry
<1>4. CASE /\ stage' = [stage EXCEPT ![f] = "done"] /\ attended' \subseteq attended \cup {f}
           /\ stage[f] \in {"open", "confirmed"}
           /\ \/ f \in registered
              \/ stage[f] = "confirmed" /\ (f = halfway \/ began[f] = "bare")
    <2>1. f \notin announced /\ f \notin queried
        BY <1>4 DEF Once, Marks
    <2>2. ASSUME f \in Ordinary, stage[f] = "confirmed", began[f] = "bare"
          PROVE  f \in registered
        BY <2>2 DEF Tended, Untaken, Invited, Beginnings, GivenStays, Live
    <2>3. f \in Ordinary => f \in registered \cup torn
        BY <1>4, <2>2 DEF Whole
    <2>4. OwedQueryKept'
        BY <1>0, <1>1, <1>4, <2>1, <2>3, FlowTypes DEF Accounted, OwedQueryKept, registry
    <2>5. CompletionKept'
        BY <1>0, <1>1, <1>4, <2>1, <2>3
           DEF Accounted, CompletionKept, registry, InFlight, Completion
    <2>6. QED
        BY <2>4, <2>5 DEF Accounted
<1>5. QED
    BY <1>2, <1>3, <1>4

\* The exemptions of a sweep: a record that is done leaves with both marks.
LEMMA SweepKeeps ==
    ASSUME TypeOK, Attended, NEW f \in registered, stage[f] = "done", NEW added,
           Insert(added) \/ UNCHANGED registry
    PROVE  /\ f \notin queried => f \in registered' \ queried'
           /\ f \in attended \ announced => f \in registered' \ announced'
BY DEF Insert, Swept, Kept, Attended, registry

LEMMA RegisterKeeps ==
    ASSUME TypeOK, TypeOK', torn \subseteq torn', Attended, Accounted, NEW c \in Callers, Register(c)
    PROVE  Accounted'
<1>1. /\ UNCHANGED <<stage, codes, told, asked, sync, wired, attended>>
      /\ Insert({call[c]})
    BY DEF Register, upstream
<1>2. attended \subseteq Flows
    BY DEF TypeOK
<1>3. QED
    BY <1>1, <1>2, SweepKeeps, QuietKeeps DEF Attended

LEMMA CollectKeeps ==
    ASSUME TypeOK, TypeOK', torn \subseteq torn', Attended, Accounted, NEW s \in Syncs, CollectInvitations(s)
    PROVE  Accounted'
<1>1. Moved(s, "announcing", {}, sync[s].owed, sync[s].signals \cup Called(s))
    BY SyncMoves
<1>2. UNCHANGED <<stage, codes, told, asked, wired, attended>>
    BY DEF CollectInvitations, upstream, news
<1>3. Insert(Fresh(s)) \/ UNCHANGED registry
    BY DEF CollectInvitations, Fresh
<1>4. attended \subseteq Flows
    BY DEF TypeOK
<1>5. \A t \in Syncs : sync[t].signals \subseteq sync'[t].signals
                       /\ sync'[t].owed = sync[t].owed
    BY <1>1 DEF Moved
<1>6. QED
    BY <1>2, <1>3, <1>4, <1>5, SweepKeeps, QuietKeeps DEF Attended

LEMMA OwedKeeps ==
    ASSUME TypeOK, TypeOK', torn \subseteq torn', Carried, Attended, Accounted, NEW s \in Syncs, CollectOwed(s)
    PROVE  Accounted'
<1>1. Moved(s, IF Owed = {} THEN "asked" ELSE "owing", sync[s].starts, Owed,
            sync[s].signals)
    BY SyncMoves
<1>2. /\ UNCHANGED <<stage, codes, told, asked, wired, registered, announced, attended>>
      /\ queried' = queried \cup DoneRecords
    BY DEF CollectOwed, upstream, news
<1>3. sync[s].owed = {}
    BY DEF CollectOwed, Carried
<1>4. \A t \in Syncs : /\ sync'[t].signals = sync[t].signals
                       /\ sync'[t].owed = IF t = s THEN Owed ELSE sync[t].owed
    BY <1>1 DEF Moved
<1>5. \A f \in (Ordinary \cap codes \cap registered) \ queried : stage[f] = "done" => f \in Owed
    BY DEF Owed, DoneRecords
<1>6. OwedQueryKept'
    BY <1>2, <1>3, <1>4, <1>5 DEF Accounted, OwedQueryKept, Ordinary
<1>7. CompletionKept'
    BY <1>2, <1>4 DEF Accounted, CompletionKept, Ordinary, InFlight, Completion
<1>8. QED
    BY <1>6, <1>7 DEF Accounted

LEMMA QueueKeeps ==
    ASSUME TypeOK, TypeOK', torn \subseteq torn', Once, Attended, Accounted, NEW s \in Syncs, QueueQueries(s)
    PROVE  Accounted'
<1>1. Moved(s, "asked", sync[s].starts, {}, sync[s].signals)
    BY SyncMoves
<1>2. /\ UNCHANGED <<stage, codes, told, wired, registry, attended>>
      /\ asked' = [f \in Flows |-> IF f \in sync[s].owed THEN More(asked[f]) ELSE asked[f]]
    BY DEF QueueQueries, upstream
<1>3. \A t \in Syncs : /\ sync'[t].signals = sync[t].signals
                       /\ sync'[t].owed = IF t = s THEN {} ELSE sync[t].owed
    BY <1>1 DEF Moved
<1>4. \A f \in Ordinary : /\ f \in sync[s].owed => asked'[f] = 1
                          /\ f \notin sync[s].owed => asked'[f] = asked[f]
    BY <1>2 DEF Once, OneQuery, More, Ordinary
<1>5. OwedQueryKept'
    BY <1>2, <1>3, <1>4 DEF Accounted, OwedQueryKept, Ordinary, registry
<1>6. CompletionKept'
    BY <1>2, <1>3 DEF Accounted, CompletionKept, Ordinary, InFlight, Completion, registry
<1>7. QED
    BY <1>5, <1>6 DEF Accounted

LEMMA TakeKeeps ==
    ASSUME TypeOK, TypeOK', torn \subseteq torn', Carried, Attended, Accounted, NEW s \in Syncs, TakeCompletions(s)
    PROVE  Accounted'
<1>1. Moved(s, "taken", sync[s].starts, sync[s].owed, Taken)
    BY SyncMoves
<1>2. /\ UNCHANGED <<stage, codes, told, asked, wired, registered, queried, attended>>
      /\ announced' = announced \cup DoneRecords
    BY DEF TakeCompletions, upstream, news
<1>3. sync[s].signals = {}
    BY DEF TakeCompletions, Carried
<1>4. \A t \in Syncs : /\ sync'[t].owed = sync[t].owed
                       /\ sync'[t].signals = IF t = s THEN Taken ELSE sync[t].signals
    BY <1>1 DEF Moved
<1>5. \A f \in registered \ announced : stage[f] = "done" => Completion(f) \in Taken
    BY DEF Taken, DoneRecords
<1>6. OwedQueryKept'
    BY <1>2, <1>4 DEF Accounted, OwedQueryKept, Ordinary
<1>7. \A f \in Flows : Completion(f)' = Completion(f)
    BY <1>2 DEF Completion
<1>8. CompletionKept'
    <2> SUFFICES ASSUME NEW f \in (Ordinary' \cap attended') \ torn'
                 PROVE  \/ told'[f] = 1 \/ InFlight(Completion(f))'
                        \/ f \in registered' \ announced'
        BY DEF CompletionKept
    <2>1. stage[f] = "done" /\ f \in Ordinary \cap attended
        BY <1>2 DEF Attended, Ordinary
    <2>2. CASE f \in registered \ announced
        <3>1. Completion(f) \in sync'[s].signals
            BY <1>4, <1>5, <2>1, <2>2
        <3>2. QED
            BY <1>7, <2>1, <3>1 DEF InFlight, Ordinary
    <2>3. CASE InFlight(Completion(f))
        <3>1. PICK t \in Syncs : Completion(f) \in sync[t].signals
            BY <2>3 DEF InFlight
        <3>2. Completion(f) \in sync'[t].signals
            BY <1>3, <1>4, <3>1
        <3>3. QED
            BY <1>7, <2>1, <3>2 DEF InFlight, Ordinary
    <2>4. QED
        BY <1>2, <2>1, <2>2, <2>3 DEF Accounted, CompletionKept
<1>9. QED
    BY <1>6, <1>8 DEF Accounted

\* While the observer is there a completion is told; and what is put back is
\* no record of a flow that is done.
LEMMA AnnounceKeeps ==
    ASSUME TypeOK, TypeOK', torn \subseteq torn', Invited, Tended, Once, Attended, Accounted,
           NEW s \in Syncs, Announce(s)
    PROVE  Accounted'
<1>1. UNCHANGED <<stage, codes, asked, wired, observer, attended>>
    BY DEF Announce, upstream
<1>2. PICK signal \in sync[s].signals :
          /\ signal \in Signal
          /\ Moved(s, sync[s].at, sync[s].starts, sync[s].owed, sync[s].signals \ {signal})
          /\ IF observer
             THEN /\ UNCHANGED registry
                  /\ IF signal.kind = "VerificationRequested"
                     THEN UNCHANGED told
                     ELSE told' = [told EXCEPT ![signal.flow] = More(@)]
             ELSE /\ UNCHANGED told
                  /\ IF signal.kind = "VerificationRequested" THEN Forget(signal.flow)
                                                             ELSE UNCHANGED registry
    BY AnnounceSays
<1>3. signal.flow \in Flows
    BY <1>2 DEF Signal
<1>4. \A t \in Syncs : /\ sync'[t].owed = sync[t].owed
                       /\ \A f \in Flows : Completion(f) \in sync[t].signals =>
                             \/ Completion(f) \in sync'[t].signals
                             \/ signal = Completion(f) /\ t = s
    BY <1>2 DEF Moved
<1>5. \A f \in Ordinary : stage[f] = "done" =>
          /\ f \in registered \ announced => f \in registered' \ announced'
          /\ f \in registered \ queried => f \in registered' \ queried'
    <2>1. CASE UNCHANGED registry
        BY <2>1 DEF registry
    <2>2. CASE Forget(signal.flow) /\ signal.kind = "VerificationRequested"
        <3>1. signal = Invitation(signal.flow)
            BY <1>2, <2>2 DEF Signal, Invitation
        <3>2. signal.flow \notin given
            BY <1>2, <1>3, <3>1 DEF Invited, OneInvitation
        <3>3. signal.flow \in Ordinary => stage[signal.flow] # "done"
            BY <3>2 DEF Tended, Untaken
        <3>4. QED
            BY <2>2, <3>3 DEF Forget
    <2>3. QED
        BY <1>2, <2>1, <2>2
<1>6. OwedQueryKept'
    BY <1>1, <1>4, <1>5 DEF Accounted, OwedQueryKept, Ordinary
<1>7. \A f \in Flows : Completion(f)' = Completion(f)
    BY <1>1 DEF Completion
<1>8. CompletionKept'
    <2> SUFFICES ASSUME NEW f \in (Ordinary' \cap attended') \ torn'
                 PROVE  \/ told'[f] = 1 \/ InFlight(Completion(f))'
                        \/ f \in registered' \ announced'
        BY DEF CompletionKept
    <2>1. stage[f] = "done" /\ f \in Ordinary \cap attended /\ observer
        BY <1>1 DEF Attended, Ordinary
    <2>2. CASE f \in registered \ announced
        BY <1>5, <2>1, <2>2
    <2>3. CASE signal = Completion(f)
        <3>1. signal.kind # "VerificationRequested" /\ signal.flow = f
            BY <2>3 DEF Completion
        <3>2. told[f] = 0
            BY <2>1, <2>3 DEF Once, OneCompletion
        <3>3. told'[f] = 1
            BY <1>2, <1>3, <2>1, <3>1, <3>2, FlowTypes DEF More
        <3>4. QED
            BY <3>3
    <2>4. CASE InFlight(Completion(f)) /\ signal # Completion(f)
        <3>1. PICK t \in Syncs : Completion(f) \in sync[t].signals
            BY <2>4 DEF InFlight
        <3>2. Completion(f) \in sync'[t].signals
            BY <1>4, <2>1, <2>4, <3>1 DEF Ordinary
        <3>3. QED
            BY <1>7, <2>1, <3>2 DEF InFlight, Ordinary
    <2>5. CASE told[f] = 1 /\ signal # Completion(f)
        <3>1. signal.kind # "VerificationRequested" => signal.flow # f
            BY <1>2, <2>5 DEF Once, Tidings
        <3>2. QED
            BY <1>2, <1>3, <2>1, <2>5, <3>1, FlowTypes DEF Ordinary
    <2>6. QED
        BY <2>1, <2>2, <2>3, <2>4, <2>5 DEF Accounted, CompletionKept
<1>9. QED
    BY <1>6, <1>8 DEF Accounted

LEMMA PassKeeps ==
    ASSUME TypeOK, TypeOK', Carried, Attended, Attended', Accounted, [Next]_vars,
           \/ Subscribe \/ Unsubscribe \/ UNCHANGED vars
           \/ \E s \in Syncs : Begin(s) \/ Release(s) \/ NobodyListens(s) \/ Return(s)
    PROVE  Accounted'
<1>1. UNCHANGED <<registry, told, asked, stage, codes>> /\ attended' \subseteq attended
    BY DEF Subscribe, Unsubscribe, Begin, Release, NobodyListens, Return, vars, registry,
           news, upstream
<1>2. \A t \in Syncs : /\ sync[t].signals \subseteq sync'[t].signals
                       /\ sync[t].owed \subseteq sync'[t].owed
    <2>1. CASE UNCHANGED sync
        BY <2>1
    <2>2. ASSUME NEW s \in Syncs, Begin(s) \/ Release(s) \/ NobodyListens(s) \/ Return(s)
          PROVE  \A t \in Syncs : /\ sync[t].signals \subseteq sync'[t].signals
                                  /\ sync[t].owed \subseteq sync'[t].owed
        <3>1. CASE Begin(s) \/ Release(s)
            BY <3>1, SyncMoves DEF Moved
        <3>2. CASE NobodyListens(s) \/ Return(s)
            <4>1. sync[s].signals = {} /\ sync[s].owed = {}
                BY <3>2 DEF NobodyListens, Return, Carried
            <4>2. \A t \in Syncs \ {s} : sync'[t] = sync[t]
                BY <3>2, SyncMoves DEF Moved
            <4>3. QED
                BY <4>1, <4>2
        <3>3. QED
            BY <2>2, <3>1, <3>2
    <2>3. QED
        BY <2>1, <2>2 DEF Subscribe, Unsubscribe, vars
<1>3. attended \subseteq Flows /\ \A g \in attended' : stage'[g] = "done"
    BY DEF TypeOK, Attended
<1>4. QED
    BY <1>1, <1>2, <1>3, WiredGrows, TornGrows, QuietKeeps DEF registry

LEMMA AccountedStep ==
    ASSUME TypeOK, TypeOK', Carried, Invited, Tended, Once, Whole, Attended, Attended',
           Accounted, [Next]_vars
    PROVE  Accounted'
<1>1. CASE Next
    BY <1>1, TornGrows, FlowsKeep, DoneKeeps, RegisterKeeps, CollectKeeps, OwedKeeps, QueueKeeps,
       TakeKeeps, AnnounceKeeps, PassKeeps DEF Next
<1>2. QED
    BY <1>1, PassKeeps

LEMMA AccountedHolds == Spec => [](Attended /\ Accounted)
<1>1. Init => Whole /\ Attended /\ Accounted
    <2>1. Init => TypeOK
        BY DEF Init, TypeOK, Resting, Stages
    <2>2. QED
        BY <2>1
           DEF Init, Whole, Attended, Accounted, OwedQueryKept, CompletionKept, Ordinary
<1>2. TypeOK /\ TypeOK' /\ Carried /\ Invited /\ Tended /\ Once /\ Whole /\ Attended
          /\ Accounted /\ [Next]_vars
         => Whole' /\ Attended' /\ Accounted'
    BY WholeStep, AttendedStep, AccountedStep
<1>3. QED
    BY <1>1, <1>2, TypeCorrect, InOrder, TendedHolds, OnceHolds, PTL DEF Spec

\* The key query a completed scan owes is never lost: a sync carries it until
\* it is queued, and before that an unmarked record does, which a sweep leaves
\* (the second exemption of release_finished). What a sweep halfway through the
\* flow's done takes is excepted, and nothing else.
THEOREM OwedQueryKeptHolds == Spec => []OwedQueryKept
<1>1. Accounted => OwedQueryKept
    BY DEF Accounted
<1>2. QED
    BY <1>1, AccountedHolds, PTL

\* A completion is never lost while the observer it is for stays: a pass
\* carries it until it is told, and before that an unmarked record does (the
\* first exemption of release_finished), with the same exception.
THEOREM CompletionKeptHolds == Spec => []CompletionKept
<1>1. Accounted => CompletionKept
    BY DEF Accounted
<1>2. QED
    BY <1>1, AccountedHolds, PTL

-----------------------------------------------------------------------------
(* Eviction.                                                               *)

\* A registered flow that is done and not marked by peers_owed_a_key_query
\* became so in a sync that is still to walk the registry, or is bare and
\* became so in confirm_flow.
NewlyDone ==
    \A f \in Ordinary \cap registered :
        stage[f] = "done" /\ f \notin queried /\ began[f] # "bare" =>
        \E s \in Syncs : sync[s].at \in {"receiving", "received"}

\* How a flow began does not change.
LEMMA BareStays ==
    ASSUME TypeOK, [Next]_vars, NEW f \in Flows, began[f] = "bare"
    PROVE  began'[f] = "bare"
<1>1. CASE UNCHANGED began
    BY <1>1
<1>2. ASSUME NEW c \in Callers, NEW g \in Flows, RequestFlow(c, g)
      PROVE  began'[f] = "bare"
    BY <1>2, FlowTypes DEF RequestFlow
<1>3. ASSUME NEW s \in Syncs, NEW g \in Flows, NEW how \in {"there", "bare"},
             Arrives(s, g, how)
      PROVE  began'[f] = "bare"
    BY <1>3, FlowTypes DEF Arrives
<1>4. CASE Next
    BY <1>1, <1>2, <1>3, <1>4
       DEF Next, upstream, Subscribe, Unsubscribe, Register, Adopt, AcceptFlow,
           ConfirmFlow, ConfirmScan, CancelFlow, Begin, Release, Accepted, Cancelled,
           DoneOverRequest, DoneOverHandle, CollectOwed, QueueQueries, NobodyListens,
           TakeCompletions, CollectInvitations, Announce, Return
<1>5. QED
    BY <1>1, <1>4 DEF vars, upstream

LEMMA NewlyDoneStep ==
    ASSUME TypeOK, LockHeld, Invited, Tended, NewlyDone, [Next]_vars
    PROVE  NewlyDone'
<1>0. Ordinary' \subseteq Ordinary
    BY WiredGrows DEF Ordinary
<1>1. ASSUME \A f \in Ordinary :
                f \in registered' /\ stage'[f] = "done" /\ f \notin queried' /\ began[f] # "bare"
                => f \in registered \ queried /\ stage[f] = "done",
             \A s \in Syncs : sync[s].at \in {"receiving", "received"} =>
                 sync'[s].at \in {"receiving", "received"}
      PROVE  NewlyDone'
    BY <1>0, <1>1, BareStays DEF NewlyDone, Ordinary
<1>2. CASE UNCHANGED <<stage, registry, sync>>
    BY <1>1, <1>2 DEF registry
<1>3. ASSUME NEW f \in Flows,
             \/ \E c \in Callers : RequestFlow(c, f)
             \/ AcceptFlow(f) \/ ConfirmFlow(f) \/ ConfirmScan(f) \/ CancelFlow(f)
             \/ \E s \in Syncs : Accepted(s, f) \/ Cancelled(s, f)
      PROVE  NewlyDone'
    <2>1. /\ UNCHANGED <<registry, sync>>
          /\ \A g \in Flows : stage'[g] = "done" => stage[g] = "done" \/ began[g] = "bare"
        BY <1>3, FlowTypes
           DEF RequestFlow, AcceptFlow, ConfirmFlow, ConfirmScan, CancelFlow, Accepted, Cancelled
    <2>2. QED
        BY <1>1, <2>1 DEF registry, Ordinary
<1>4. ASSUME NEW s \in Syncs, NEW f \in Flows, DoneOverHandle(s, f)
      PROVE  NewlyDone'
    BY <1>4 DEF DoneOverHandle, LockHeld, NewlyDone
<1>5. ASSUME NEW s \in Syncs, NEW f \in Flows, NEW how \in {"there", "bare"},
             Arrives(s, f, how)
      PROVE  NewlyDone'
    <2>1. Moved(s, sync[s].at, IF how = "bare" THEN sync[s].starts \cup {f}
                               ELSE sync[s].starts, sync[s].owed, sync[s].signals)
        BY <1>5, SyncMoves
    <2>2. \A t \in Syncs : sync'[t].at = sync[t].at
        BY <2>1 DEF Moved
    <2>3. UNCHANGED registry /\ \A g \in Flows : stage'[g] = "done" => stage[g] = "done"
        BY <1>5, FlowTypes DEF Arrives
    <2>4. QED
        BY <1>1, <2>2, <2>3 DEF registry, Ordinary
<1>6. ASSUME NEW s \in Syncs,
             \/ Begin(s) \/ Release(s) \/ QueueQueries(s) \/ NobodyListens(s) \/ Return(s)
             \/ TakeCompletions(s)
      PROVE  NewlyDone'
    <2>1. UNCHANGED <<stage, registered, queried>>
        BY <1>6 DEF Begin, Release, QueueQueries, NobodyListens, Return, TakeCompletions,
                    upstream, registry
    <2>2. \A t \in Syncs : sync[t].at \in {"receiving", "received"} =>
              sync'[t].at \in {"receiving", "received"}
        <3>1. CASE Begin(s) \/ Release(s)
            BY <3>1, SyncMoves DEF Moved
        <3>2. CASE QueueQueries(s) \/ NobodyListens(s) \/ Return(s) \/ TakeCompletions(s)
            <4>1. sync[s].at \notin {"receiving", "received"}
                BY <3>2 DEF QueueQueries, NobodyListens, Return, TakeCompletions
            <4>2. \A t \in Syncs \ {s} : sync'[t] = sync[t]
                BY <3>2, SyncMoves DEF Moved
            <4>3. QED
                BY <4>1, <4>2
        <3>3. QED
            BY <1>6, <3>1, <3>2
    <2>3. QED
        BY <1>1, <2>1, <2>2 DEF Ordinary
<1>7. ASSUME NEW s \in Syncs, CollectOwed(s)
      PROVE  NewlyDone'
    BY <1>0, <1>7 DEF CollectOwed, NewlyDone, DoneRecords, upstream
<1>8. ASSUME NEW c \in Callers, Register(c)
      PROVE  NewlyDone'
    <2>1. \A f \in {call[c]} \cap Ordinary : stage[f] # "done"
        BY DEF Tended, Calling, Untaken
    <2>2. Insert({call[c]}) /\ UNCHANGED <<stage, sync>>
        BY <1>8 DEF Register, upstream
    <2>3. QED
        BY <1>1, <2>1, <2>2 DEF Insert, Swept
<1>9. ASSUME NEW s \in Syncs, CollectInvitations(s)
      PROVE  NewlyDone'
    <2>1. Moved(s, "announcing", {}, sync[s].owed, sync[s].signals \cup Called(s))
        BY <1>9, SyncMoves
    <2>2. \A t \in Syncs : sync[t].at \in {"receiving", "received"} =>
              sync'[t].at \in {"receiving", "received"}
        BY <1>9, <2>1 DEF Moved, CollectInvitations
    <2>3. \A f \in Fresh(s) : stage[f] # "done"
        BY FreshIsNew DEF Live
    <2>4. (Insert(Fresh(s)) \/ UNCHANGED registry) /\ UNCHANGED stage
        BY <1>9 DEF CollectInvitations, Fresh, upstream
    <2>5. QED
        BY <1>1, <2>2, <2>3, <2>4 DEF Insert, Swept, registry
<1>10. ASSUME NEW s \in Syncs, Announce(s)
       PROVE  NewlyDone'
    <2>1. \A t \in Syncs : sync'[t].at = sync[t].at
        BY <1>10, AnnounceSays DEF Moved
    <2>2. registered' \ queried' \subseteq registered \ queried /\ UNCHANGED stage
        BY <1>10, AnnounceSays DEF Announce, upstream, registry, Forget
    <2>3. QED
        BY <1>1, <2>1, <2>2
<1>11. CASE Next
    BY <1>2, <1>3, <1>4, <1>5, <1>6, <1>7, <1>8, <1>9, <1>10, <1>11
       DEF Next, Subscribe, Unsubscribe, Adopt, DoneOverRequest, upstream
<1>12. QED
    BY <1>2, <1>11 DEF vars, upstream

\* While no sync runs, a registration leaves of the flows that are over only
\* the completions the next sync will announce, and the bare comparisons
\* confirm_flow finished.
LEMMA EvictsStep ==
    ASSUME TypeOK, LockHeld, Invited, Tended, NewlyDone, [Next]_vars,
           Running = {}, registered' # registered,
           NEW f \in Ordinary \cap registered \cap registered',
           Finished(f) \/ f \in over
    PROVE  /\ stage[f] = "done"
           /\ \/ f \notin announced /\ observer
              \/ f \notin queried /\ began[f] = "bare"
<1>1. \A s \in Syncs : sync[s].at = "idle"
    BY DEF Running
<1>2. PICK c \in Callers : Register(c)
    BY <1>1
       DEF Next, vars, registry, Subscribe, Unsubscribe, RequestFlow, Adopt, AcceptFlow,
           ConfirmFlow, ConfirmScan, CancelFlow, Begin, Release, Arrives, Accepted, Cancelled,
           DoneOverRequest, DoneOverHandle, CollectOwed, QueueQueries, NobodyListens,
           TakeCompletions, CollectInvitations, Announce, Return
<1>3. call[c] = f => stage[f] = "requested" /\ f \notin over
    BY DEF Tended, Calling, Untaken, Invited, Beginnings, Ordinary
<1>4. call[c] # f
    BY <1>3 DEF Finished
<1>5. Kept(f)
    BY <1>2, <1>4 DEF Register, Insert, Swept
<1>6. stage[f] = "done" => f \in queried \/ began[f] = "bare"
    BY <1>1 DEF NewlyDone
<1>7. QED
    BY <1>5, <1>6 DEF Kept

\* Eviction keeps up with the flows: what a sweep leaves behind is what
\* release_finished exempts, and between syncs its second exemption holds no
\* more than the bare comparisons confirm_flow finished since the last walk.
THEOREM EvictionKeepsUpHolds == Spec => EvictionKeepsUp
<1>1. Init => NewlyDone
    BY DEF Init, NewlyDone
<1>2. TypeOK /\ LockHeld /\ Invited /\ Tended /\ NewlyDone /\ [Next]_vars => NewlyDone'
    BY NewlyDoneStep
<1>3. TypeOK /\ LockHeld /\ Invited /\ Tended /\ NewlyDone /\ [Next]_vars =>
         [Running = {} /\ registered' # registered =>
             \A f \in Ordinary \cap registered \cap registered' :
                 (Finished(f) \/ f \in over) =>
                     /\ stage[f] = "done"
                     /\ \/ f \notin announced /\ observer
                        \/ f \notin queried /\ began[f] = "bare"]_vars
    BY EvictsStep
<1>4. QED
    BY <1>1, <1>2, <1>3, TypeCorrect, InOrder, TendedHolds, PTL DEF Spec, EvictionKeepsUp
=============================================================================
