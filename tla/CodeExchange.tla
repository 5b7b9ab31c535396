---------------------------- MODULE CodeExchange ----------------------------
(***************************************************************************)
(* Verifying a person by comparing a string or by scanning a code          *)
(* (verification.rs): what a product says it can do, what a flow           *)
(* negotiates, the handles a record of FLOWS caches, and the calls that    *)
(* start a comparison, draw a code, hand in a scanned one, confirm and     *)
(* cancel.                                                                 *)
(*                                                                         *)
(* Every call begins by cloning the record's handles out of FLOWS.  Those  *)
(* that need upstream then wait for the machine, and write what they got   *)
(* back into the record afterwards; syncs run in between.  Upstream keeps  *)
(* one verification of a flow current, and allows one verification per     *)
(* person: inserting another cancels both, and what was done and is still  *)
(* kept cancels what comes after it.  A sync drops what is over, when it   *)
(* begins.                                                                 *)
(*                                                                         *)
(* All flows here are with one person and began with a request.            *)
(***************************************************************************)
EXTENDS Bindings, FiniteSets

CONSTANTS
    Flows,
    Callers,        \* product calls that may run at once
    Accounts,       \* who the person is: see account
    LongIds,        \* flows whose identifier does not fit in a code
    Offers,         \* what the product may say it can do with codes
    Announcements,  \* flow -> what the far side may say
    ScanFailures,   \* how decoding and scanning a payload may fail
    MaxMade         \* bound: comparisons and codes ever made

\* The two things one can do with a code; and what is told of a flow that never
\* said which.
Halves == {"show", "scan"}
Unknown == {"unknown"}
Identities == {"ours", "theirs"}

ASSUME CodeAssumption ==
    /\ Accounts \subseteq [own : BOOLEAN, known : SUBSET Identities,
                           keys : BOOLEAN, usable : BOOLEAN]
    /\ Offers \subseteq SUBSET Halves /\ Announcements \in [Flows -> SUBSET SUBSET Halves]
    /\ LongIds \subseteq Flows /\ MaxMade \in Nat

VARIABLES
    account,        \* is the person our own account, whose identities are known,
                    \* are our private keys held, is the far device's key usable
    capabilities,   \* CODE_CAPABILITIES
    request,        \* flow -> upstream's request and the methods of both sides
    made,           \* the comparisons and codes upstream has made
    current,        \* flow -> the one of them its request became, or 0
    struck,         \* flows a second verification cancelled something of
    syncing,        \* whether a sync has the machine
    unswept,        \* flows whose request was done since the last sync began
    comparison,     \* flow -> FlowRecord::comparison, or 0
    code,           \* flow -> FlowRecord::code, or 0
    negotiation,    \* flow -> FlowRecord::negotiation
    call,           \* caller -> its call in progress
    said,           \* caller -> how its last call ended
    shown,          \* codes that reached a screen
    looked          \* flows some call looked at while they were ready

sync == <<syncing, unswept>>
upstream == <<request, made, current, struck, sync>>
record == <<comparison, code, negotiation, looked>>
vars == <<account, capabilities, upstream, record, call, said, shown>>

Resting == [at |-> "idle"]
Silent == [call |-> "none"]

Init ==
    /\ account \in Accounts
    /\ capabilities = {}
    /\ request = [f \in Flows |-> [state |-> "absent", ours |-> {}, theirs |-> {}]]
    /\ made = << >> /\ current = [f \in Flows |-> 0] /\ struck = {}
    /\ syncing = FALSE /\ unswept = {}
    /\ comparison = [f \in Flows |-> 0] /\ code = [f \in Flows |-> 0]
    /\ negotiation = [f \in Flows |-> Unknown]
    /\ call = [c \in Callers |-> Resting]
    /\ said = [c \in Callers |-> Silent]
    /\ shown = {} /\ looked = {}

\* Whose identity a verification with this person rests on.
Needed == {"ours", IF account.own THEN "ours" ELSE "theirs"}
Missing == Needed \ account.known

Over == {"done", "cancelled"}
InForce(o) == made[o].state \notin Over
Pending(f) == request[f].state \in {"requested", "ready", "transitioned"}

-----------------------------------------------------------------------------
(* The record of a flow.                                                   *)

\* negotiation_of: upstream shows the methods while the request is ready.
Halved(f) == {h \in Halves : h \in IF h = "show" THEN request[f].ours ELSE request[f].theirs}

\* Mutant of NegotiationOf: nothing is kept.
NegotiationUnkept(f) == Unknown

NegotiationOf(f) ==
    IF negotiation[f] = Unknown /\ request[f].state = "ready"
    THEN Halved(f) ELSE negotiation[f]

Became(f, kind) ==
    request[f].state = "transitioned" /\ made[current[f]].kind = kind

\* comparison_of and code_of: filled in once, from a request that moved on.
ComparisonOf(f) ==
    IF comparison[f] = 0 /\ Became(f, "sas") THEN current[f] ELSE comparison[f]
CodeOf(f) ==
    IF code[f] = 0 /\ Became(f, "code") THEN current[f] ELSE code[f]

\* handles: every call fills the record in as it clones it.
Look(f) ==
    /\ comparison' = [comparison EXCEPT ![f] = ComparisonOf(f)]
    /\ code' = [code EXCEPT ![f] = CodeOf(f)]
    /\ negotiation' = [negotiation EXCEPT ![f] = NegotiationOf(f)]
    /\ looked' = IF request[f].state = "ready" THEN looked \cup {f} ELSE looked

\* stage_of_comparison and stage_of_code.
StageOfComparison(o) ==
    IF made[o].state \in {"offered", "started"} THEN "started" ELSE made[o].state
StageOfCode(o) ==
    IF made[o].state = "reciprocated" THEN "confirmed" ELSE made[o].state

\* Mutants of Stage: codes are not read; they are read first.
StageWithoutCodes(f) ==
    CASE ComparisonOf(f) # 0 -> StageOfComparison(ComparisonOf(f))
      [] OTHER -> IF request[f].state = "transitioned" THEN "started" ELSE request[f].state
StageCodesFirst(f) ==
    CASE CodeOf(f) # 0 -> StageOfCode(CodeOf(f))
      [] CodeOf(f) = 0 /\ ComparisonOf(f) # 0 -> StageOfComparison(ComparisonOf(f))
      [] OTHER -> request[f].state

\* stage_of.
Stage(f) ==
    CASE ComparisonOf(f) # 0 -> StageOfComparison(ComparisonOf(f))
      [] ComparisonOf(f) = 0 /\ CodeOf(f) # 0 -> StageOfCode(CodeOf(f))
      [] OTHER -> request[f].state

\* verification_stage, as the product reads it.
StageRead == [s \in FlowStages |-> Crossed(VerificationStage, s)]
VerificationStageOf(f) == StageRead[Stage(f)]

-----------------------------------------------------------------------------
(* Upstream's rule of one verification per person.                         *)

\* The ones a new verification meets in the cache: those in force, and those
\* done that no sync has dropped. A code replaces a code of its own flow.
Rivals(f, kind) ==
    {o \in {current[g] : g \in Flows} \ {0} :
        /\ InForce(o) \/ (made[o].state = "done" /\ made[o].flow \in unswept)
        /\ ~(kind = "code" /\ made[o].kind = "code" /\ made[o].flow = f)}

\* What is done stays done.
Cancelled(objects) ==
    [o \in DOMAIN made |-> IF o \in objects /\ InForce(o)
                            THEN [made[o] EXCEPT !.state = "cancelled"] ELSE made[o]]

\* The request of f has moved on even where the verification it became is
\* cancelled on arrival; a rival takes the request behind it along.
Insert(f, kind, state) ==
    LET rivals == Rivals(f, kind)
        behind == {made[o].flow : o \in rivals}
        new == [flow |-> f, kind |-> kind,
                state |-> IF rivals = {} THEN state ELSE "cancelled"]
    IN  /\ Len(made) < MaxMade
        /\ made' = Append(Cancelled(rivals), new)
        /\ current' = [current EXCEPT ![f] = Len(made) + 1]
        /\ request' = [g \in Flows |->
                CASE g = f -> [request[g] EXCEPT !.state = "transitioned"]
                  [] g # f /\ g \in behind /\ Pending(g) ->
                        [request[g] EXCEPT !.state = "cancelled"]
                  [] OTHER -> request[g]]
        /\ struck' = IF rivals = {} THEN struck ELSE struck \cup behind \cup {f}
        /\ UNCHANGED sync

\* insert_request: a request that meets another one with that person is
\* cancelled with it, also where the older one is done and still in the map:
\* that one stays done. Whether what the older one became goes with it is
\* upstream's.
InsertRequest(f, entry) ==
    LET rivals == {g \in Flows \ {f} : Pending(g) \/ g \in unswept}
    IN  /\ request' = [g \in Flows |->
                CASE g = f -> [entry EXCEPT !.state =
                                IF rivals = {} THEN entry.state ELSE "cancelled"]
                  [] g \in rivals /\ Pending(g) -> [request[g] EXCEPT !.state = "cancelled"]
                  [] OTHER -> request[g]]
        /\ \/ UNCHANGED made
           \/ made' = Cancelled({current[g] : g \in rivals} \ {0})
        /\ struck' = IF rivals = {} THEN struck ELSE struck \cup rivals \cup {f}
        /\ UNCHANGED <<current, sync>>

-----------------------------------------------------------------------------
(* Saying what this side can do, and opening flows.                        *)

\* offer_codes: one word, read once per flow.
OfferCodes(halves) ==
    /\ capabilities # halves
    /\ capabilities' = halves
    /\ UNCHANGED <<account, upstream, record, call, said, shown>>

AnnouncedMethods == capabilities

RequestFlow(f) ==
    /\ ~syncing /\ request[f].state = "absent"
    /\ InsertRequest(f, [state |-> "requested", ours |-> AnnouncedMethods, theirs |-> {}])
    /\ UNCHANGED <<account, capabilities, record, call, said, shown>>

\* What the product hears of an answer.
Heard == [error \in MachineErrors |-> Crossed(MachineFfiError, error)]
Told(answer) == IF answer = "ok" THEN answer ELSE Heard[answer]

Says(c, name, f, answer) ==
    said' = [said EXCEPT ![c] = [call |-> name, flow |-> f, answer |-> Told(answer)]]

\* A call that is over without a trip to the machine of its own.
Passes(c, f) ==
    /\ call[c] = Resting
    /\ Look(f)
    /\ said' = [said EXCEPT ![c] = Silent]
    /\ UNCHANGED <<account, capabilities, call, current, struck, sync, shown>>

\* accept_flow: of an invitation, or of a comparison the far side began.
AcceptFlow(c, f) ==
    /\ Passes(c, f)
    /\ \/ /\ request[f].state = "requested" /\ "there" \in request[f].theirs
          /\ request' = [request EXCEPT ![f].state = "ready", ![f].ours = AnnouncedMethods,
                                        ![f].theirs = @ \ {"there"}]
          /\ UNCHANGED made
       \/ /\ ComparisonOf(f) # 0 /\ made[ComparisonOf(f)].state = "offered"
          /\ made' = [made EXCEPT ![ComparisonOf(f)].state = "started"]
          /\ UNCHANGED request

\* flow_stage; also what is left of a call that is refused once it has looked.
FlowStage(c, f) ==
    /\ request[f].state # "absent"
    /\ Passes(c, f)
    /\ UNCHANGED <<request, made>>

-----------------------------------------------------------------------------
(* Comparing a string.                                                     *)

\* begin_comparison: the stage is read off the handles...
BeginComparison(c, f) ==
    /\ call[c] = Resting
    /\ Stage(f) = "ready"
    /\ Look(f)
    /\ call' = [call EXCEPT ![c] = [at |-> "starting", flow |-> f]]
    /\ said' = [said EXCEPT ![c] = Silent]
    /\ UNCHANGED <<account, capabilities, upstream, shown>>

\* ...and the comparison started in a trip of its own. It makes a second one
\* where the far side was faster.
StartSas(c) ==
    LET f == call[c].flow IN
    /\ ~syncing /\ call[c].at = "starting"
    /\ IF request[f].state \in {"ready", "transitioned"}
       THEN /\ Insert(f, "sas", "started")
            /\ call' = [call EXCEPT ![c] =
                            [at |-> "remembering", flow |-> f, kind |-> "sas",
                             handle |-> Len(made) + 1]]
       ELSE /\ call' = [call EXCEPT ![c] = Resting]
            /\ UNCHANGED upstream
    /\ UNCHANGED <<account, capabilities, record, said, shown>>

\* remember_comparison and remember_code.
Remember(c) ==
    LET f == call[c].flow IN
    /\ call[c].at = "remembering"
    /\ IF call[c].kind = "sas"
       THEN /\ comparison' = [comparison EXCEPT ![f] = call[c].handle]
            /\ UNCHANGED <<code, shown>>
       ELSE /\ code' = [code EXCEPT ![f] = call[c].handle]
            /\ shown' = shown \cup {call[c].handle}
            /\ UNCHANGED comparison
    /\ call' = [call EXCEPT ![c] = Resting]
    /\ UNCHANGED <<account, capabilities, upstream, negotiation, looked, said>>

\* read_material: the string, or whether it may still come.
ReadMaterial(f) ==
    LET o == ComparisonOf(f)
        state == IF o = 0 THEN "none" ELSE made[o].state IN
    CASE state = "exchanged" -> Told("ok")
      [] state \in {"offered", "started"} -> Told("MaterialNotReady")
      [] OTHER -> Told("WrongStage")

\* confirm_flow, legal while the string is on screen.
ConfirmFlow(c, f) ==
    /\ ComparisonOf(f) # 0 /\ made[ComparisonOf(f)].state = "exchanged"
    /\ Passes(c, f)
    /\ made' = [made EXCEPT ![ComparisonOf(f)].state = "confirmed"]
    /\ UNCHANGED request

-----------------------------------------------------------------------------
(* Drawing a code.                                                         *)

\* generate_qr_code's own conditions.
Buildable(f) ==
    /\ request[f].state \in {"ready", "transitioned"}
    /\ Halved(f) = Halves
    /\ Missing = {} /\ account.usable
    /\ account.own \/ account.keys

\* why_no_code: upstream's questions again, in its order. The methods are
\* asked of the request while it shows them and of the record afterwards.
WhyNoCode(f, remembered) ==
    LET settled == IF request[f].state = "ready" THEN Halved(f) ELSE remembered IN
    CASE request[f].state \notin {"ready", "transitioned"} -> "WrongStage"
      [] OTHER ->
    CASE settled # Unknown /\ "show" \notin settled -> "CodeNotOffered"
      [] settled # Unknown /\ "show" \in settled /\ "scan" \notin settled -> "PeerCannotScan"
      [] OTHER ->
    CASE account.own -> IF Missing = {} THEN "WrongStage" ELSE "IdentityNotKnown"
      [] ~account.own /\ "theirs" \in Missing -> "PeerIdentityNotKnown"
      [] ~account.own /\ "theirs" \notin Missing /\ ~account.keys -> "PrivateKeysNotHeld"
      [] OTHER -> "WrongStage"

\* read_code.
ReadCode(c, f) ==
    /\ call[c] = Resting /\ request[f].state # "absent"
    /\ Look(f)
    /\ call' = [call EXCEPT ![c] = [at |-> "generating", flow |-> f,
                                    remembered |-> NegotiationOf(f)]]
    /\ said' = [said EXCEPT ![c] = Silent]
    /\ UNCHANGED <<account, capabilities, upstream, shown>>

\* A code upstream built is drawn before it is remembered: one whose
\* identifier does not fit reaches no screen.
GenerateCode(c) ==
    LET f == call[c].flow IN
    /\ ~syncing /\ call[c].at = "generating"
    /\ IF Buildable(f)
       THEN /\ Insert(f, "code", "started")
            /\ call' = [call EXCEPT ![c] =
                    IF f \in LongIds THEN Resting
                    ELSE [at |-> "remembering", flow |-> f, kind |-> "code",
                          handle |-> Len(made) + 1]]
            /\ UNCHANGED said
       ELSE /\ Says(c, "read_code", f, WhyNoCode(f, call[c].remembered))
            /\ call' = [call EXCEPT ![c] = Resting]
            /\ UNCHANGED upstream
    /\ UNCHANGED <<account, capabilities, record, shown>>

\* confirm_scan.
ConfirmScan(c, f) ==
    /\ CodeOf(f) # 0 /\ made[CodeOf(f)].state = "scanned"
    /\ Passes(c, f)
    /\ made' = [made EXCEPT ![CodeOf(f)].state = "confirmed"]
    /\ UNCHANGED request

-----------------------------------------------------------------------------
(* Handing in a scanned code.                                              *)

\* submit_scanned_code.
SubmitScannedCode(c, f) ==
    /\ call[c] = Resting /\ request[f].state # "absent"
    /\ Look(f)
    /\ call' = [call EXCEPT ![c] = [at |-> "scanning", flow |-> f]]
    /\ said' = [said EXCEPT ![c] = Silent]
    /\ UNCHANGED <<account, capabilities, upstream, shown>>

\* How upstream can fail to decode a payload or to scan it, and the name the
\* failure gets. The first row is damage, the second somebody else's code.
Decoding == {"Utf8", "Read", "SharedSecret", "Keys"}
Foreign == {"Header", "Version", "Mode"}
ScanErrors == {"Store", "FlowIdMismatch", "KeyMismatch", "MissingDeviceKeys"}
MissingIdentity == Identities

Refusals == Decoding \cup Foreign \cup ScanErrors \cup MissingIdentity

ASSUME ScanAssumption == ScanFailures \subseteq Refusals

ScanSays(error) ==
    CASE error \in Foreign -> "ScannedCodeUnrecognised"
      [] error \in Decoding -> "ScannedCodeMalformed"
      [] error = "Store" -> "Store"
      [] error = "ours" -> "IdentityNotKnown"
      [] error = "theirs" -> "PeerIdentityNotKnown"
      [] error = "FlowIdMismatch" -> "ScannedCodeForAnotherFlow"
      [] error = "KeyMismatch" -> "ScannedCodeRefused"
      [] error = "MissingDeviceKeys" -> "UnknownDevice"

\* A payload that does not decode or does not belong here changes nothing: the
\* same flow can be scanned into again.
RefuseScan(c, error) ==
    /\ ~syncing /\ call[c].at = "scanning"
    /\ error \in MissingIdentity => error \in Missing
    /\ Says(c, "submit_scanned_code", call[c].flow, ScanSays(error))
    /\ call' = [call EXCEPT ![c] = Resting]
    /\ UNCHANGED <<account, capabilities, upstream, record, shown>>

\* The code of this flow, off the screen of a far side that was told this one
\* scans; scanned and reciprocated in one trip.
ScanCode(c) ==
    LET f == call[c].flow IN
    /\ ~syncing /\ call[c].at = "scanning"
    /\ "scan" \in request[f].ours /\ "show" \in request[f].theirs
    /\ Missing = {}
    /\ IF request[f].state = "ready"
       THEN /\ Insert(f, "code", "reciprocated")
            /\ call' = [call EXCEPT ![c] = [at |-> "remembering", flow |-> f,
                                            kind |-> "code", handle |-> Len(made) + 1]]
       ELSE /\ call' = [call EXCEPT ![c] = Resting]
            /\ UNCHANGED upstream
    /\ UNCHANGED <<account, capabilities, record, said, shown>>

-----------------------------------------------------------------------------
(* Cancelling.                                                             *)

\* A handle cancelled takes the request behind it along.
CancelThrough(f, o) ==
    /\ made' = Cancelled({o})
    /\ request' = IF Pending(f) THEN [request EXCEPT ![f].state = "cancelled"] ELSE request

\* Mutant of CancelFlow: the comparison or the request.
CancelFlowWithoutCode(c, f) ==
    LET o == ComparisonOf(f)
        able == IF o # 0 THEN InForce(o) ELSE Pending(f) IN
    /\ request[f].state # "absent"
    /\ call[c] = Resting
    /\ Look(f)
    /\ Says(c, "cancel_flow", f, IF able THEN "ok" ELSE "WrongStage")
    /\ CASE ~able -> UNCHANGED <<made, request>>
         [] able /\ o # 0 -> CancelThrough(f, o)
         [] OTHER -> request' = [request EXCEPT ![f].state = "cancelled"] /\ UNCHANGED made
    /\ UNCHANGED <<account, capabilities, current, struck, sync, call, shown>>

\* cancel_flow: the comparison if there is one, else the code, else the
\* request.
CancelFlow(c, f) ==
    LET o == IF ComparisonOf(f) # 0 THEN ComparisonOf(f) ELSE CodeOf(f)
        able == IF o # 0 THEN InForce(o) ELSE Pending(f) IN
    /\ request[f].state # "absent"
    /\ call[c] = Resting
    /\ Look(f)
    /\ Says(c, "cancel_flow", f, IF able THEN "ok" ELSE "WrongStage")
    /\ CASE ~able -> UNCHANGED <<made, request>>
         [] able /\ o # 0 -> CancelThrough(f, o)
         [] OTHER -> request' = [request EXCEPT ![f].state = "cancelled"] /\ UNCHANGED made
    /\ UNCHANGED <<account, capabilities, current, struck, sync, call, shown>>

-----------------------------------------------------------------------------
(* Syncs, and the far side as they bring it.                               *)

silent == <<account, capabilities, record, call, said, shown>>

\* receive_sync_changes begins by dropping requests and verifications that are
\* over.
BeginSync ==
    /\ ~syncing
    /\ syncing' = TRUE /\ unswept' = {}
    /\ UNCHANGED <<request, made, current, struck>> /\ UNCHANGED silent

EndSync ==
    /\ syncing
    /\ syncing' = FALSE
    /\ UNCHANGED <<request, made, current, struck, unswept>> /\ UNCHANGED silent

\* An invitation, marked until it is accepted.
PeerInvites(f, methods) ==
    /\ syncing /\ request[f].state = "absent"
    /\ InsertRequest(f, [state |-> "requested", ours |-> {}, theirs |-> methods \cup {"there"}])
    /\ UNCHANGED silent

PeerAccepts(f, methods) ==
    /\ syncing /\ request[f].state = "requested" /\ "there" \notin request[f].theirs
    /\ request' = [request EXCEPT ![f].state = "ready", ![f].theirs = methods]
    /\ UNCHANGED <<made, current, struck, sync>> /\ UNCHANGED silent

\* It begins a comparison, of a ready flow or in place of a code nobody scanned.
\* Of two comparisons begun at the same moment upstream keeps one, here ours.
PeerStarts(f) ==
    /\ syncing /\ Len(made) < MaxMade
    /\ \/ request[f].state = "ready"
       \/ Became(f, "code") /\ made[current[f]].state = "started"
    /\ made' = Append(made, [flow |-> f, kind |-> "sas", state |-> "offered"])
    /\ current' = [current EXCEPT ![f] = Len(made) + 1]
    /\ request' = [request EXCEPT ![f].state = "transitioned"]
    /\ UNCHANGED <<struck, sync>> /\ UNCHANGED silent

\* What the far side does to the current verification of a flow.
Moves(f, kind, from, to) ==
    /\ current[f] # 0 /\ made[current[f]].kind = kind /\ made[current[f]].state = from
    /\ made' = [made EXCEPT ![current[f]].state = to]

PeerExchanges(f) ==
    /\ syncing
    /\ Moves(f, "sas", "started", "exchanged")
    /\ UNCHANGED <<request, current, struck, sync>> /\ UNCHANGED silent

PeerScans(f) ==
    /\ syncing /\ current[f] \in shown
    /\ Moves(f, "code", "started", "scanned")
    /\ UNCHANGED <<request, current, struck, sync>> /\ UNCHANGED silent

\* done moves the request, and what it became only if this side confirmed.
PeerFinishes(f) ==
    /\ syncing /\ request[f].state = "transitioned"
    /\ request' = [request EXCEPT ![f].state = "done"]
    /\ unswept' = unswept \cup {f}
    /\ \/ made[current[f]].state \in {"exchanged", "scanned"} /\ UNCHANGED made
       \/ Moves(f, "sas", "confirmed", "done")
       \/ \E from \in {"confirmed", "reciprocated"} : Moves(f, "code", from, "done")
    /\ UNCHANGED <<current, struck, syncing>> /\ UNCHANGED silent

PeerCancels(f) ==
    /\ syncing /\ Pending(f)
    /\ request' = [request EXCEPT ![f].state = "cancelled"]
    /\ made' = Cancelled({current[f]} \ {0})
    /\ UNCHANGED <<current, struck, sync>> /\ UNCHANGED silent

Next ==
    \/ \E halves \in Offers : OfferCodes(halves)
    \/ BeginSync \/ EndSync
    \/ \E f \in Flows :
        \/ RequestFlow(f)
        \/ \E c \in Callers :
            \/ AcceptFlow(c, f) \/ FlowStage(c, f) \/ BeginComparison(c, f)
            \/ ConfirmFlow(c, f) \/ ReadCode(c, f) \/ ConfirmScan(c, f)
            \/ SubmitScannedCode(c, f) \/ CancelFlow(c, f)
        \/ \E methods \in Announcements[f] : PeerInvites(f, methods) \/ PeerAccepts(f, methods)
        \/ PeerStarts(f) \/ PeerExchanges(f) \/ PeerScans(f)
        \/ PeerFinishes(f) \/ PeerCancels(f)
    \/ \E c \in Callers :
        \/ StartSas(c) \/ Remember(c) \/ GenerateCode(c) \/ ScanCode(c)
        \/ \E error \in ScanFailures : RefuseScan(c, error)

Spec == Init /\ [][Next]_vars

-----------------------------------------------------------------------------
(* Properties.                                                             *)

Kinds == {"sas", "code"}
States == {"offered", "started", "exchanged", "scanned", "reciprocated", "confirmed"}
            \cup Over
Made == 0..Len(made)
Answers == {"ok", "Store"} \cup FlowErrors \cup IdentityErrors \cup RecoveryErrors
               \cup CodeErrors

\* Every variable has its type, and handles point at what was made.
TypeOK ==
    /\ account \in Accounts /\ capabilities \subseteq Halves
    /\ request \in [Flows -> [state : {"absent", "requested", "ready", "transitioned"} \cup Over,
                             ours : SUBSET Halves, theirs : SUBSET (Halves \cup {"there"})]]
    /\ made \in Seq([flow : Flows, kind : Kinds, state : States]) /\ Len(made) \leq MaxMade
    /\ current \in [Flows -> Made] /\ comparison \in [Flows -> Made] /\ code \in [Flows -> Made]
    /\ negotiation \in [Flows -> (SUBSET Halves) \cup {Unknown}]
    /\ struck \subseteq Flows /\ syncing \in BOOLEAN /\ unswept \subseteq Flows /\ looked \subseteq Flows /\ shown \subseteq Made
    /\ \A c \in Callers : said[c] # Silent =>
          said[c].answer \in Answers

Idle(f) == \A c \in Callers : call[c] = Resting \/ call[c].flow # f

\* What upstream has of a flow: the verification it became, or its request.
LiveStage(f) ==
    CASE current[f] = 0 -> request[f].state
      [] current[f] # 0 /\ made[current[f]].kind = "sas" -> StageOfComparison(current[f])
      [] OTHER -> StageOfCode(current[f])

\* A code that cannot be drawn is not remembered, and yet found by the next
\* call: what a second such code does to the flow is described in the README.
Drawable == Flows \ LongIds

\* The handles a record caches never hide what a flow in force has become:
\* between calls, flow_stage says the stage of the verification upstream has
\* current, also where the far side replaced a code by a comparison or said it
\* was done before this side was; and the string a person is shown is that of
\* this verification, or still to come exactly while it has begun to compare.
StageTellsLive ==
    /\ TypeOK
    /\ \A f \in Drawable \ struck :
          Idle(f) /\ LiveStage(f) \notin Over \cup {"absent"} =>
              /\ VerificationStageOf(f) = LiveStage(f)
              /\ (ReadMaterial(f) = "ok") = (LiveStage(f) = "exchanged")
              /\ ReadMaterial(f) = "MaterialNotReady" =>
                    made[current[f]].state \in {"offered", "started"}

\* cancel_flow says what happened: accepted, it leaves nothing of the flow live
\* upstream, where it would take the next verification with that person down;
\* refused, the flow already read as over.
CancelHonest ==
    \A c \in Callers : said[c].call = "cancel_flow" /\ said[c].flow \in Drawable \ struck =>
        IF said[c].answer = "ok"
        THEN ~Pending(said[c].flow) /\ (current[said[c].flow] # 0 => ~InForce(current[said[c].flow]))
        ELSE VerificationStageOf(said[c].flow) \in Over

\* Something new of flow f arrived cancelled.
DiesOnArrival(f) ==
    \/ request[f].state = "absent" /\ request'[f].state = "cancelled"
    \/ current'[f] # current[f] /\ made'[current'[f]].state = "cancelled"

\* Upstream has something of a flow that is not over.
Live(f) == Pending(f) \/ (current[f] # 0 /\ InForce(current[f]))

\* A flow or a verification is cancelled on arrival, by the rule of one
\* verification per person, only beside one of two things. Either something live
\* of a flow with that person that flow_stage did not call over, which the product
\* could have cancelled first: of another flow, or of the same one where it had
\* moved on already. (Flows that such an arrival wrecked before, and those no code
\* can be drawn for, may be live and read as over.) Or a flow that was done with no
\* sync begun since: the one sync requestVerification asks a product for between
\* two verifications with one person is enough.
CasualtiesAreVisible ==
    [][\A f \in Flows : DiesOnArrival(f) =>
         \E g \in Flows :
            /\ g # f \/ current[f] # 0
            /\ \/ g \in unswept
               \/ /\ Live(g)
                  /\ g \in Drawable \ struck => Stage(g) \notin Over \cup {"absent"}]_vars

\* What stands between a flow and a code, read off everything upstream knows.
Cause(f) ==
    CASE request[f].state \notin {"ready", "transitioned"} -> "WrongStage"
      [] OTHER ->
    CASE "show" \notin request[f].ours -> "CodeNotOffered"
      [] "show" \in request[f].ours /\ "scan" \notin request[f].theirs -> "PeerCannotScan"
      [] OTHER -> WhyNoCode(f, Halves)

\* read_code names what really stands in the way, whatever the flow became
\* between the moment some call saw it ready and the moment it is asked.
RefusalNamesCause ==
    [][\A c \in Callers :
        LET last == said'[c] IN
        last # said[c] /\ last.call = "read_code" /\
        (last.flow \in looked \/ request[last.flow].state # "transitioned")
            => last.answer = Cause(last.flow)]_vars
=============================================================================
