------------------------- MODULE CodeExchangeProofs -------------------------
(***************************************************************************)
(* Proofs about CodeExchange, for any flows, people, offers and            *)
(* announcements, and any number of comparisons and codes.                 *)
(***************************************************************************)
EXTENDS CodeExchange, SequenceTheorems, TLAPS

-----------------------------------------------------------------------------
(* Words.                                                                  *)

\* The words of this module cross as themselves.
LEMMA WordsCross ==
    /\ \A w \in MachineErrors : Heard[w] = w
    /\ \A w \in FlowStages : StageRead[w] = w
<1>1. \A w \in MachineErrors : \E n \in DOMAIN MachineFfiError : MachineFfiError[n] = w
    BY DEF MachineErrors, StoreErrors, FlowErrors, IdentityErrors, RecoveryErrors,
           CodeErrors, MachineFfiError
<1>2. \A w \in FlowStages : \E n \in DOMAIN VerificationStage : VerificationStage[n] = w
    BY DEF FlowStages, VerificationStage
<1>3. QED
    BY <1>1, <1>2 DEF Heard, StageRead, Crossed, LiftEnum, LowerEnum, Generated

\* So the product hears what the core said.
LEMMA ToldIsSaid ==
    ASSUME NEW w \in MachineErrors \cup {"ok"}
    PROVE  Told(w) = w
BY WordsCross DEF Told

\* No code is refused with an unknown word.
LEMMA RefusalsAreErrors ==
    /\ \A f, remembered : WhyNoCode(f, remembered) \in Answers \cap MachineErrors
    /\ \A error \in Refusals : ScanSays(error) \in Answers \cap MachineErrors
<1>1. {"WrongStage", "CodeNotOffered", "PeerCannotScan", "IdentityNotKnown",
       "PeerIdentityNotKnown", "PrivateKeysNotHeld", "ScannedCodeUnrecognised",
       "ScannedCodeMalformed", "Store", "ScannedCodeForAnotherFlow",
       "ScannedCodeRefused", "UnknownDevice"} \subseteq Answers \cap MachineErrors
    BY DEF Answers, MachineErrors, StoreErrors, FlowErrors, IdentityErrors,
           RecoveryErrors, CodeErrors
<1>2. ASSUME NEW f, NEW remembered
      PROVE  WhyNoCode(f, remembered) \in Answers \cap MachineErrors
    BY <1>1 DEF WhyNoCode
<1>3. ASSUME NEW error \in Refusals
      PROVE  ScanSays(error) \in Answers \cap MachineErrors
    BY <1>1, <1>3 DEF ScanSays, Refusals, Decoding, Foreign, ScanErrors, MissingIdentity,
           Identities
<1>4. QED
    BY <1>2, <1>3

-----------------------------------------------------------------------------
(* What upstream has made.                                                 *)

Objects == [flow : Flows, kind : Kinds, state : States]

\* made' differs from made in the states of its objects alone.
Restated ==
    /\ made' \in Seq(Objects) /\ Len(made') = Len(made) /\ DOMAIN made' = DOMAIN made
    /\ \A o \in DOMAIN made : made'[o].flow = made[o].flow /\ made'[o].kind = made[o].kind

\* One turn of one object.
LEMMA TurnRestates ==
    ASSUME made \in Seq(Objects), NEW o \in DOMAIN made, NEW to \in States,
           made' = [made EXCEPT ![o].state = to]
    PROVE  /\ Restated
           /\ \A i \in DOMAIN made : made'[i].state = IF i = o THEN to ELSE made[i].state
<1>1. made \in [1 .. Len(made) -> Objects] /\ DOMAIN made = 1 .. Len(made) /\ Len(made) \in Nat
    BY ElementOfSeq, LenProperties
<1>2. made' \in [1 .. Len(made) -> Objects]
    BY <1>1 DEF Objects
<1>3. made' \in Seq(Objects) /\ Len(made') = Len(made) /\ DOMAIN made' = DOMAIN made
    BY <1>1, <1>2, LenProperties
<1>4. \A i \in DOMAIN made : made'[i] = IF i = o THEN [made[i] EXCEPT !.state = to] ELSE made[i]
    BY <1>1
<1>5. \A i \in DOMAIN made : made[i] \in Objects
    BY <1>1
<1>6. QED
    BY <1>3, <1>4, <1>5 DEF Restated, Objects

\* Some of them are cancelled.
LEMMA CancelledRestates ==
    ASSUME made \in Seq(Objects), NEW S, made' = Cancelled(S)
    PROVE  /\ Restated
           /\ \A i \in DOMAIN made :
                 made'[i].state = IF i \in S /\ InForce(i) THEN "cancelled" ELSE made[i].state
<1>1. made \in [1 .. Len(made) -> Objects] /\ DOMAIN made = 1 .. Len(made) /\ Len(made) \in Nat
    BY ElementOfSeq, LenProperties
<1>2. made' \in [1 .. Len(made) -> Objects]
    BY <1>1 DEF Objects, Cancelled, States, Over
<1>3. made' \in Seq(Objects) /\ Len(made') = Len(made) /\ DOMAIN made' = DOMAIN made
    BY <1>1, <1>2, LenProperties
<1>4. \A i \in DOMAIN made :
         made'[i] = IF i \in S /\ InForce(i) THEN [made[i] EXCEPT !.state = "cancelled"] ELSE made[i]
    BY <1>1 DEF Cancelled
<1>5. \A i \in DOMAIN made : made[i] \in Objects
    BY <1>1
<1>6. QED
    BY <1>3, <1>4, <1>5 DEF Restated, Objects

\* One more is made.
LEMMA AppendGrows ==
    ASSUME NEW s \in Seq(Objects), NEW new \in Objects, s \in Seq(Objects)
    PROVE  LET t == Append(s, new) IN
           /\ t \in Seq(Objects) /\ Len(t) = Len(s) + 1 /\ Len(s) \in Nat
           /\ DOMAIN t = DOMAIN s \cup {Len(s) + 1} /\ DOMAIN s = 1 .. Len(s)
           /\ \A i \in DOMAIN s : t[i] = s[i]
           /\ t[Len(s) + 1] = new
BY AppendProperties, LenProperties

-----------------------------------------------------------------------------
(* Types.                                                                  *)

Entries == [state : {"absent", "requested", "ready", "transitioned"} \cup Over,
            ours : SUBSET Halves, theirs : SUBSET (Halves \cup {"there"})]

UpTyped ==
    /\ request \in [Flows -> Entries]
    /\ made \in Seq(Objects) /\ Len(made) \leq MaxMade
    /\ current \in [Flows -> Made] /\ struck \subseteq Flows

RecordTyped ==
    /\ comparison \in [Flows -> Made] /\ code \in [Flows -> Made]
    /\ negotiation \in [Flows -> (SUBSET Halves) \cup {Unknown}]
    /\ looked \subseteq Flows /\ shown \subseteq Made

\* A call between two of its trips, and how a call ends.
Calls == [at : {"starting", "scanning"}, flow : Flows]
            \cup [at : {"generating"}, flow : Flows,
                  remembered : (SUBSET Halves) \cup {Unknown}]
Rememberings == [at : {"remembering"}, flow : Flows, kind : Kinds, handle : Made]
Endings == [call : {"cancel_flow", "read_code", "submit_scanned_code"},
            flow : Flows, answer : Answers]

CallsTyped ==
    /\ call \in [Callers -> {Resting} \cup Calls \cup Rememberings]
    /\ said \in [Callers -> {Silent} \cup Endings]

TypeInv ==
    /\ account \in Accounts /\ capabilities \subseteq Halves
    /\ UpTyped /\ RecordTyped /\ CallsTyped

SyncTyped == syncing \in BOOLEAN /\ unswept \subseteq Flows

\* The types the runs check follow.
LEMMA TypesSuffice == TypeInv /\ SyncTyped => TypeOK
BY DEF TypeInv, SyncTyped, TypeOK, UpTyped, RecordTyped, CallsTyped, Entries, Objects, Endings, Silent

\* Handles stay handles when more is made, also those a call fills in.
LEMMA RecordStaysTyped ==
    ASSUME TypeInv, Len(made') \in Nat, Len(made') >= Len(made), shown' = shown,
           UNCHANGED record \/ \E f \in Flows : Look(f)
    PROVE  RecordTyped'
<1>1. Made \subseteq Made' /\ Len(made) \in Nat
    BY DEF Made, TypeInv, UpTyped
<1>2. CASE UNCHANGED record
    BY <1>1, <1>2 DEF record, TypeInv, RecordTyped
<1>3. ASSUME NEW f \in Flows, Look(f)
      PROVE  RecordTyped'
    <2>1. Halved(f) \in SUBSET Halves
        BY DEF Halved
    <2>2. /\ ComparisonOf(f) \in Made /\ CodeOf(f) \in Made
          /\ NegotiationOf(f) \in (SUBSET Halves) \cup {Unknown}
        BY <2>1 DEF ComparisonOf, CodeOf, NegotiationOf, TypeInv, UpTyped, RecordTyped
    <2>3. comparison' \in [Flows -> Made] /\ code' \in [Flows -> Made]
        BY <1>3, <2>2 DEF Look, TypeInv, RecordTyped
    <2>4. QED
        BY <1>1, <1>3, <2>2, <2>3 DEF Look, TypeInv, RecordTyped
<1>4. QED
    BY <1>2, <1>3

\* So do the handles calls are about to remember.
LEMMA CallsStayTyped ==
    ASSUME TypeInv, Len(made') \in Nat, Len(made') >= Len(made),
           \/ call' = call
           \/ \E c \in Callers : \E v \in {Resting} \cup Calls \cup Rememberings' :
                 call' = [call EXCEPT ![c] = v],
           \/ said' = said
           \/ \E c \in Callers : \E v \in {Silent} \cup Endings : said' = [said EXCEPT ![c] = v]
    PROVE  CallsTyped'
<1>1. Made \subseteq Made' /\ Len(made) \in Nat
    BY DEF Made, TypeInv, UpTyped
<1>2. Rememberings \subseteq Rememberings'
    BY <1>1 DEF Rememberings
<1>3. call' \in [Callers -> {Resting} \cup Calls \cup Rememberings']
    BY <1>2 DEF TypeInv, CallsTyped
<1>4. said' \in [Callers -> {Silent} \cup Endings]
    BY DEF TypeInv, CallsTyped
<1>5. QED
    BY <1>3, <1>4 DEF CallsTyped, Calls, Endings

-----------------------------------------------------------------------------
(* What the steps do to upstream.                                          *)

\* The verification a flow became has been made.
LEMMA CurrentIsMade ==
    ASSUME UpTyped
    PROVE  /\ Len(made) \in Nat /\ DOMAIN made = 1 .. Len(made) /\ Made \ {0} = DOMAIN made
           /\ \A o \in DOMAIN made : made[o] \in Objects
           /\ \A f \in Flows : current[f] # 0 => current[f] \in DOMAIN made
<1>1. Len(made) \in Nat /\ DOMAIN made = 1 .. Len(made)
    BY LenProperties DEF UpTyped
<1>2. Made \ {0} = DOMAIN made
    BY <1>1 DEF Made
<1>3. QED
    BY <1>1, <1>2, ElementOfSeq DEF UpTyped

Behind(objects) == {made[o].flow : o \in objects}

\* What Insert does to each flow and each verification.
LEMMA InsertDoes ==
    ASSUME UpTyped, NEW f \in Flows, NEW kind \in Kinds, NEW state \in States,
           Insert(f, kind, state)
    PROVE  LET rivals == Rivals(f, kind)
               new == Len(made) + 1
           IN  /\ UpTyped' /\ Len(made') = new /\ new \in Nat \ {0} /\ new \notin DOMAIN made
               /\ rivals \subseteq DOMAIN made /\ Behind(rivals) \subseteq Flows
               /\ DOMAIN made' = DOMAIN made \cup {new}
               /\ \A o \in DOMAIN made :
                    /\ made'[o].flow = made[o].flow /\ made'[o].kind = made[o].kind
                    /\ made'[o].state = IF o \in rivals /\ InForce(o) THEN "cancelled" ELSE made[o].state
               /\ made'[new].flow = f /\ made'[new].kind = kind
               /\ made'[new].state = IF rivals = {} THEN state ELSE "cancelled"
               /\ current'[f] = new /\ \A g \in Flows \ {f} : current'[g] = current[g]
               /\ request'[f].state = "transitioned"
               /\ \A g \in Flows \ {f} : 
                    request'[g].state = IF g \in Behind(rivals) /\ Pending(g)
                                        THEN "cancelled" ELSE request[g].state
               /\ \A g \in Flows : request'[g].ours = request[g].ours
                                   /\ request'[g].theirs = request[g].theirs
               /\ struck' = IF rivals = {} THEN struck ELSE struck \cup Behind(rivals) \cup {f}
<1> DEFINE rivals == Rivals(f, kind)
           new == Len(made) + 1
           object == [flow |-> f, kind |-> kind,
                      state |-> IF rivals = {} THEN state ELSE "cancelled"]
           rest == Cancelled(rivals)
<1>1. /\ Len(made) \in Nat /\ DOMAIN made = 1 .. Len(made)
      /\ \A o \in DOMAIN made : made[o] \in Objects
      /\ rivals \subseteq DOMAIN made
    BY CurrentIsMade DEF Rivals
<1>2. object \in Objects
    BY DEF Objects, States, Over
<1>3. /\ rest \in Seq(Objects) /\ Len(rest) = Len(made) /\ DOMAIN rest = DOMAIN made
      /\ \A o \in DOMAIN made :
            /\ rest[o].flow = made[o].flow /\ rest[o].kind = made[o].kind
            /\ rest[o].state = IF o \in rivals /\ InForce(o) THEN "cancelled" ELSE made[o].state
    <2>1. rest \in [1 .. Len(made) -> Objects]
        BY <1>1 DEF Objects, Cancelled, States, Over
    <2>2. \A o \in DOMAIN made :
             rest[o] = IF o \in rivals /\ InForce(o)
                       THEN [made[o] EXCEPT !.state = "cancelled"] ELSE made[o]
        BY DEF Cancelled
    <2> HIDE DEF rest
    <2>3. rest \in Seq(Objects) /\ Len(rest) = Len(made) /\ DOMAIN rest = DOMAIN made
        BY <1>1, <2>1, LenProperties
    <2>4. QED
        BY <1>1, <2>2, <2>3 DEF Objects
<1>4. /\ made' = Append(rest, object) /\ Len(made) < MaxMade
      /\ current' = [current EXCEPT ![f] = new]
      /\ request' = [g \in Flows |->
                CASE g = f -> [request[g] EXCEPT !.state = "transitioned"]
                  [] g # f /\ g \in Behind(rivals) /\ Pending(g) ->
                        [request[g] EXCEPT !.state = "cancelled"]
                  [] OTHER -> request[g]]
      /\ struck' = IF rivals = {} THEN struck ELSE struck \cup Behind(rivals) \cup {f}
    BY DEF Insert, Behind
<1>5. /\ made' \in Seq(Objects) /\ Len(made') = new /\ DOMAIN made' = DOMAIN made \cup {new}
      /\ \A o \in DOMAIN made : made'[o] = rest[o]
      /\ made'[new] = object
    <2> HIDE DEF rest, object
    <2>1. QED
        BY <1>1, <1>2, <1>3, <1>4, AppendGrows
<1>6. Behind(rivals) \subseteq Flows
    BY <1>1 DEF Behind, Objects
<1>7. new \in Nat \ {0} /\ new \notin DOMAIN made /\ new <= MaxMade
    BY <1>1, <1>4, CodeAssumption
<1>8. current' \in [Flows -> Made']
    BY <1>1, <1>4, <1>5, <1>7 DEF Made, UpTyped
<1>9. request' \in [Flows -> Entries]
    BY <1>4 DEF UpTyped, Entries, Over
<1>10. UpTyped'
    BY <1>4, <1>5, <1>6, <1>7, <1>8, <1>9 DEF UpTyped
<1>11. /\ current'[f] = new /\ \A g \in Flows \ {f} : current'[g] = current[g]
       /\ request'[f].state = "transitioned"
       /\ \A g \in Flows \ {f} : 
             request'[g].state = IF g \in Behind(rivals) /\ Pending(g)
                                 THEN "cancelled" ELSE request[g].state
       /\ \A g \in Flows : request'[g].ours = request[g].ours
                           /\ request'[g].theirs = request[g].theirs
    <2> HIDE DEF rivals, rest, object
    <2>1. QED
        BY <1>4 DEF UpTyped, Entries
<1>12. made'[new].flow = f /\ made'[new].kind = kind
       /\ made'[new].state = IF rivals = {} THEN state ELSE "cancelled"
    BY <1>5
<1>13. \A o \in DOMAIN made :
            /\ made'[o].flow = made[o].flow /\ made'[o].kind = made[o].kind
            /\ made'[o].state = IF o \in rivals /\ InForce(o) THEN "cancelled" ELSE made[o].state
    BY <1>3, <1>5
<1> HIDE DEF rivals, object, rest, new
<1>14. QED
    BY <1>1, <1>4, <1>5, <1>6, <1>7, <1>10, <1>11, <1>12, <1>13 DEF rivals, new

RequestsBeside(f) == {g \in Flows \ {f} : Pending(g) \/ g \in unswept}

\* What InsertRequest does.
LEMMA OpeningDoes ==
    ASSUME UpTyped, NEW f \in Flows, NEW entry \in Entries, InsertRequest(f, entry)
    PROVE  LET rivals == RequestsBeside(f)
           IN  /\ UpTyped' /\ Restated /\ rivals \subseteq Flows /\ current' = current
               /\ \A o \in DOMAIN made :
                    \/ made'[o].state = made[o].state
                    \/ /\ o \in {current[g] : g \in rivals}
                       /\ made'[o].state = "cancelled"
               /\ request'[f].state = IF rivals = {} THEN entry.state ELSE "cancelled"
               /\ \A g \in rivals :
                    request'[g].state = IF Pending(g) THEN "cancelled" ELSE request[g].state
               /\ \A g \in Flows \ (rivals \cup {f}) : request'[g] = request[g]
               /\ \A g \in Flows \ {f} : request'[g].ours = request[g].ours
                                         /\ request'[g].theirs = request[g].theirs
               /\ struck' = IF rivals = {} THEN struck ELSE struck \cup rivals \cup {f}
<1> DEFINE rivals == RequestsBeside(f)
           objects == {current[g] : g \in rivals} \ {0}
<1>1. /\ request' = [g \in Flows |->
                CASE g = f -> [entry EXCEPT !.state =
                                IF rivals = {} THEN entry.state ELSE "cancelled"]
                  [] g \in rivals /\ Pending(g) -> [request[g] EXCEPT !.state = "cancelled"]
                  [] OTHER -> request[g]]
      /\ made' = made \/ made' = Cancelled(objects)
      /\ struck' = IF rivals = {} THEN struck ELSE struck \cup rivals \cup {f}
      /\ current' = current
    BY DEF InsertRequest, RequestsBeside
<1>2. f \notin rivals /\ rivals \subseteq Flows
    BY DEF RequestsBeside
<1>3. /\ Restated
      /\ \A o \in DOMAIN made :
            \/ made'[o].state = made[o].state
            \/ o \in objects /\ made'[o].state = "cancelled"
    <2> HIDE DEF objects
    <2>1. CASE made' = made
        BY <2>1 DEF Restated, UpTyped
    <2>2. CASE made' = Cancelled(objects)
        BY <2>2, CancelledRestates DEF UpTyped
    <2>3. QED
        BY <1>1, <2>1, <2>2
<1>4. \A o \in objects : o \in {current[g] : g \in rivals}
    OBVIOUS
<1> HIDE DEF rivals, objects
<1>5. request' \in [Flows -> Entries]
    BY <1>1 DEF UpTyped, Entries, Over
<1>6. /\ request'[f].state = IF rivals = {} THEN entry.state ELSE "cancelled"
      /\ \A g \in rivals :
            request'[g].state = IF Pending(g) THEN "cancelled" ELSE request[g].state
      /\ \A g \in Flows \ (rivals \cup {f}) : request'[g] = request[g]
      /\ \A g \in Flows \ {f} : request'[g].ours = request[g].ours
                                /\ request'[g].theirs = request[g].theirs
    BY <1>1, <1>2 DEF UpTyped, Entries
<1>7. UpTyped'
    BY <1>1, <1>2, <1>3, <1>5 DEF UpTyped, Restated, Made
<1>8. QED
    BY <1>1, <1>2, <1>3, <1>4, <1>6, <1>7 DEF rivals

\* What PeerStarts does.
LEMMA StartingDoes ==
    ASSUME UpTyped, NEW f \in Flows, PeerStarts(f)
    PROVE  LET new == Len(made) + 1
           IN  /\ UpTyped' /\ Len(made') = new /\ new \in Nat \ {0} /\ new \notin DOMAIN made
               /\ DOMAIN made' = DOMAIN made \cup {new}
               /\ \A o \in DOMAIN made : made'[o] = made[o]
               /\ made'[new].flow = f /\ made'[new].kind = "sas" /\ made'[new].state = "offered"
               /\ current'[f] = new /\ \A g \in Flows \ {f} : current'[g] = current[g]
               /\ request'[f].state = "transitioned"
               /\ \A g \in Flows \ {f} : request'[g] = request[g]
               /\ \A g \in Flows : request'[g].ours = request[g].ours
                                   /\ request'[g].theirs = request[g].theirs
               /\ struck' = struck
<1> DEFINE new == Len(made) + 1
           object == [flow |-> f, kind |-> "sas", state |-> "offered"]
<1>1. /\ made' = Append(made, object) /\ Len(made) < MaxMade
      /\ current' = [current EXCEPT ![f] = new]
      /\ request' = [request EXCEPT ![f].state = "transitioned"]
      /\ struck' = struck
    BY DEF PeerStarts
<1>2. object \in Objects
    BY DEF Objects, Kinds, States, Over
<1>3. made \in Seq(Objects) /\ Len(made) \in Nat /\ DOMAIN made = 1 .. Len(made)
    BY CurrentIsMade DEF UpTyped
<1> HIDE DEF object
<1>4. /\ made' \in Seq(Objects) /\ Len(made') = new /\ DOMAIN made' = DOMAIN made \cup {new}
      /\ \A o \in DOMAIN made : made'[o] = made[o]
      /\ made'[new] = object
    BY <1>1, <1>2, <1>3, AppendGrows
<1>5. new \in Nat \ {0} /\ new \notin DOMAIN made /\ new <= MaxMade
    BY <1>1, <1>3, CodeAssumption
<1>6. current' \in [Flows -> Made']
    BY <1>1, <1>3, <1>4, <1>5 DEF Made, UpTyped
<1>7. request' \in [Flows -> Entries]
    BY <1>1 DEF UpTyped, Entries
<1>8. /\ current'[f] = new /\ \A g \in Flows \ {f} : current'[g] = current[g]
      /\ request'[f].state = "transitioned"
      /\ \A g \in Flows \ {f} : request'[g] = request[g]
      /\ \A g \in Flows : request'[g].ours = request[g].ours
                          /\ request'[g].theirs = request[g].theirs
    BY <1>1 DEF UpTyped, Entries
<1> HIDE DEF new
<1>9. UpTyped'
    BY <1>1, <1>4, <1>5, <1>6, <1>7 DEF UpTyped
<1>10. QED
    BY <1>1, <1>4, <1>5, <1>8, <1>9 DEF object, new

-----------------------------------------------------------------------------
(* The kinds of step. A call makes something upstream, remembers it, or does *)
(* neither; what happens upstream besides is one of a few things.            *)

\* Only the request of f changed.
Request(f, state) ==
    /\ request' \in [Flows -> Entries] /\ request'[f].state = state
    /\ \A g \in Flows \ {f} : request'[g] = request[g]

\* A request is accepted, by either side.
Agrees(f) ==
    /\ request[f].state = "requested" /\ Request(f, "ready")
    /\ UNCHANGED <<made, current, struck>>

\* What a verification in force may turn into before it is over.
Turns ==
    {<<"sas", "offered", "started">>, <<"sas", "started", "exchanged">>,
     <<"sas", "exchanged", "confirmed">>, <<"code", "started", "scanned">>,
     <<"code", "scanned", "confirmed">>}

\* A comparison offered is accepted through the record.
Turned(o, to) ==
    /\ <<made[o].kind, made[o].state, to>> \in Turns
    /\ Restated
    /\ \A i \in DOMAIN made : made'[i].state = IF i = o THEN to ELSE made[i].state
    /\ made[o].state = "offered" => comparison'[made[o].flow] = o
    /\ UNCHANGED <<request, current, struck>>

\* The far side is done.
Finished(f) ==
    /\ request[f].state = "transitioned" /\ Request(f, "done")
    /\ request'[f].ours = request[f].ours /\ request'[f].theirs = request[f].theirs
    /\ Restated
    /\ \A i \in DOMAIN made : i # current[f] => made'[i].state = made[i].state
    /\ \/ made' = made /\ made[current[f]].state \in {"exchanged", "scanned"}
       \/ current[f] # 0 /\ made'[current[f]].state = "done"
    /\ UNCHANGED <<current, struck>>

\* The handle cancel_flow takes.
HandleOf(f) == IF ComparisonOf(f) # 0 THEN ComparisonOf(f) ELSE CodeOf(f)

\* One verification is cancelled, or none where o is 0, and the request with it:
\* by the far side what the flow became, by a caller that is free what the
\* record says.
Cancels(f, o) ==
    /\ o = current[f] \/ (o = HandleOf(f) /\ \E c \in Callers : call[c] = Resting)
    /\ Request(f, IF Pending(f) THEN "cancelled" ELSE request[f].state)
    /\ request'[f].ours = request[f].ours /\ request'[f].theirs = request[f].theirs
    /\ Restated
    /\ \A i \in DOMAIN made :
          made'[i].state = IF i = o /\ InForce(i) THEN "cancelled" ELSE made[i].state
    /\ UNCHANGED <<current, struck>>

Opens(f, entry) ==
    /\ request[f].state = "absent" /\ entry.state = "requested"
    /\ InsertRequest(f, entry)

Elsewhere ==
    \/ UNCHANGED <<request, made, current, struck>>
    \/ \E f \in Flows :
        \/ Agrees(f) \/ Finished(f) \/ PeerStarts(f)
        \/ \E o \in Made : Cancels(f, o)
        \/ \E entry \in Entries : Opens(f, entry)
    \/ \E o \in DOMAIN made, to \in States : Turned(o, to)

\* What a call that makes nothing and remembers nothing does to the rest.
Serene ==
    /\ account' = account /\ capabilities' \subseteq Halves /\ shown' = shown
    /\ UNCHANGED record \/ \E f \in Flows : Look(f)
    /\ \/ call' = call
       \/ \E c \in Callers : \E v \in {Resting} \cup Calls :
            call[c].at # "remembering" /\ call' = [call EXCEPT ![c] = v]
    /\ \/ said' = said
       \/ \E c \in Callers : \E v \in {Silent} \cup Endings : said' = [said EXCEPT ![c] = v]

\* A call makes a comparison or a code, and is about to remember it where the
\* product can have it.
Makes(c, f, kind, state) ==
    /\ call[c].at \in {"starting", "generating", "scanning"} /\ call[c].flow = f
    /\ request[f].state \in {"ready", "transitioned"}
    /\ <<kind, state>> \in {<<"sas", "started">>, <<"code", "started">>,
                            <<"code", "reciprocated">>}
    /\ Insert(f, kind, state)
    /\ \/ /\ f \notin Drawable
          /\ call' = [call EXCEPT ![c] = Resting]
       \/ call' = [call EXCEPT ![c] = [at |-> "remembering", flow |-> f, kind |-> kind,
                                       handle |-> Len(made) + 1]]
    /\ UNCHANGED <<account, capabilities, record, said, shown>>

StepKinds == 
    \/ Serene /\ Elsewhere
    \/ \E c \in Callers : Remember(c)
    \/ \E c \in Callers, f \in Flows, kind \in Kinds, state \in States : Makes(c, f, kind, state)

\* A call that ends, or begins.
LEMMA EndingIsTyped ==
    ASSUME NEW c \in Callers, NEW f \in Flows,
           NEW name \in {"cancel_flow", "read_code", "submit_scanned_code"},
           NEW answer \in {"ok"} \cup (Answers \cap MachineErrors), Says(c, name, f, answer)
    PROVE  \E d \in Callers : \E v \in {Silent} \cup Endings : said' = [said EXCEPT ![d] = v]
<1>1. Told(answer) = answer /\ answer \in Answers
    BY ToldIsSaid DEF Answers
<1>2. [call |-> name, flow |-> f, answer |-> answer] \in Endings
    BY <1>1 DEF Endings
<1>3. QED
    BY <1>1, <1>2 DEF Says

\* A call in progress has a flow.
LEMMA CallHasFlow ==
    ASSUME TypeInv, NEW c \in Callers
    PROVE  /\ call[c] = Resting <=> call[c].at = "idle"
           /\ call[c] # Resting => call[c].flow \in Flows
           /\ call[c].at = "generating" => call[c].remembered \in (SUBSET Halves) \cup {Unknown}
           /\ call[c].at = "remembering" => call[c] \in Rememberings
BY DEF TypeInv, CallsTyped, Calls, Rememberings, Resting

\* Only a request changes, and of it only the state.
LEMMA RequestAlone ==
    ASSUME UpTyped, NEW f \in Flows, NEW entry \in Entries,
           request' = [request EXCEPT ![f] = entry]
    PROVE  Request(f, entry.state) /\ request'[f] = entry
BY DEF UpTyped, Request

\* Only the state of a request changes.
LEMMA RequestRestated ==
    ASSUME UpTyped, NEW f \in Flows,
           NEW state \in {"ready", "transitioned", "done", "cancelled"},
           request' = [request EXCEPT ![f].state = state]
    PROVE  /\ Request(f, state)
           /\ request'[f].ours = request[f].ours /\ request'[f].theirs = request[f].theirs
<1> DEFINE entry == [request[f] EXCEPT !.state = state]
<1>1. entry \in Entries /\ entry.state = state
      /\ entry.ours = request[f].ours /\ entry.theirs = request[f].theirs
    BY DEF UpTyped, Entries, Over
<1>2. request' = [request EXCEPT ![f] = entry]
    OBVIOUS
<1> HIDE DEF entry
<1>3. QED
    BY <1>1, <1>2, RequestAlone

\* A call that passes without a trip.
LEMMA PassingIsSerene ==
    ASSUME TypeInv, NEW c \in Callers, NEW f \in Flows, Passes(c, f)
    PROVE  Serene /\ UNCHANGED <<current, struck>>
BY DEF Passes, Serene, TypeInv, record

\* The first trip of a call.
LEMMA BeginningIsSerene ==
    ASSUME TypeInv, NEW c \in Callers, NEW f \in Flows, NEW v \in Calls,
           call[c] = Resting, Look(f), call' = [call EXCEPT ![c] = v],
           said' = [said EXCEPT ![c] = Silent], UNCHANGED <<account, capabilities, shown>>
    PROVE  Serene
<1>1. call[c].at # "remembering"
    BY DEF Resting
<1>2. QED
    BY <1>1 DEF Serene, TypeInv

\* The last trip of one that found nothing to make.
LEMMA RestingIsSerene ==
    ASSUME TypeInv, NEW c \in Callers, call[c].at # "remembering",
           call' = [call EXCEPT ![c] = Resting],
           \/ said' = said
           \/ \E d \in Callers : \E v \in {Silent} \cup Endings : said' = [said EXCEPT ![d] = v],
           UNCHANGED <<account, capabilities, record, shown>>
    PROVE  Serene
BY DEF Serene, TypeInv, record

\* The far side.
LEMMA SyncIsSerene ==
    ASSUME TypeInv, UNCHANGED silent
    PROVE  Serene
BY DEF Serene, silent, record, TypeInv

\* A verification that turns.
LEMMA TurningIs ==
    ASSUME TypeInv, NEW o \in DOMAIN made, NEW to \in States,
           <<made[o].kind, made[o].state, to>> \in Turns,
           made' = [made EXCEPT ![o].state = to],
           made[o].state = "offered" => comparison'[made[o].flow] = o,
           UNCHANGED <<request, current, struck>>
    PROVE  Turned(o, to)
BY TurnRestates DEF Turned, TypeInv, UpTyped

-----------------------------------------------------------------------------
(* Handles.                                                                *)

\* o is a verification of that kind, of f.
Is(o, f, kind) == o \in DOMAIN made /\ made[o].flow = f /\ made[o].kind = kind

\* What is remembered of a flow, or about to be, is of that flow and of the
\* kind it is remembered as; and so is what it became, once anything was made.
Handles ==
    /\ \A f \in Flows :
        /\ comparison[f] # 0 => Is(comparison[f], f, "sas")
        /\ code[f] # 0 => Is(code[f], f, "code")
        /\ current[f] # 0 => made[current[f]].flow = f
    /\ \A c \in Callers :
          call[c].at = "remembering" => Is(call[c].handle, call[c].flow, call[c].kind)
    /\ \A o \in DOMAIN made : current[made[o].flow] # 0

BaseInv == TypeInv /\ Handles

\* So are the handles a call finds.
LEMMA HandlesFound ==
    ASSUME BaseInv, NEW f \in Flows
    PROVE  /\ ComparisonOf(f) \in Made /\ CodeOf(f) \in Made /\ HandleOf(f) \in Made
           /\ ComparisonOf(f) # 0 => Is(ComparisonOf(f), f, "sas")
           /\ CodeOf(f) # 0 => Is(CodeOf(f), f, "code")
           /\ current[f] # 0 => \E kind \in Kinds : Is(current[f], f, kind)
<1>1. /\ comparison[f] \in Made /\ code[f] \in Made /\ current[f] \in Made
      /\ current[f] # 0 => current[f] \in DOMAIN made /\ made[current[f]].kind \in Kinds
    BY CurrentIsMade DEF BaseInv, TypeInv, UpTyped, RecordTyped, Objects
<1>2. QED
    BY <1>1 DEF BaseInv, Handles, Is, ComparisonOf, CodeOf, HandleOf, Became

\* What the callers do in one trip.
LEMMA CallersElsewhere ==
    ASSUME BaseInv, NEW f \in Flows, NEW c \in Callers,
           \/ AcceptFlow(c, f) \/ FlowStage(c, f) \/ BeginComparison(c, f)
           \/ ConfirmFlow(c, f) \/ ReadCode(c, f) \/ ConfirmScan(c, f)
           \/ SubmitScannedCode(c, f) \/ CancelFlow(c, f)
    PROVE  Serene /\ Elsewhere
<1>t. TypeInv /\ UpTyped
    BY DEF BaseInv, TypeInv
<1>r. request[f] \in Entries /\ made \in Seq(Objects) /\ current[f] \in Made
      /\ f \in DOMAIN comparison
    BY <1>t DEF TypeInv, UpTyped, RecordTyped
<1>s. {"started", "confirmed"} \subseteq States
    BY DEF States
<1>1. CASE AcceptFlow(c, f)
    <2>1. Serene /\ UNCHANGED <<current, struck>> /\ Look(f)
        BY <1>1, <1>t, PassingIsSerene DEF AcceptFlow, Passes
    <2>2. CASE /\ request[f].state = "requested"
               /\ request' = [request EXCEPT ![f].state = "ready", ![f].ours = AnnouncedMethods,
                                             ![f].theirs = @ \ {"there"}]
               /\ UNCHANGED made
        <3> DEFINE entry == [request[f] EXCEPT !.state = "ready", !.ours = AnnouncedMethods,
                                               !.theirs = @ \ {"there"}]
        <3>1. Request(f, "ready")
            <4>1. entry \in Entries /\ entry.state = "ready"
                BY <1>r, <1>t DEF Entries, TypeInv, AnnouncedMethods
            <4>2. request' = [request EXCEPT ![f] = entry]
                BY <2>2
            <4> HIDE DEF entry
            <4>3. QED
                BY <1>t, <4>1, <4>2, RequestAlone
        <3>2. QED
            BY <2>1, <2>2, <3>1 DEF Elsewhere, Agrees
    <2>3. CASE /\ ComparisonOf(f) # 0 /\ made[ComparisonOf(f)].state = "offered"
               /\ made' = [made EXCEPT ![ComparisonOf(f)].state = "started"]
               /\ UNCHANGED request
        <3>1. Is(ComparisonOf(f), f, "sas")
            BY <2>3, HandlesFound
        <3>2. comparison'[f] = ComparisonOf(f)
            BY <1>r, <2>1 DEF Look
        <3>3. Turned(ComparisonOf(f), "started")
            BY <1>t, <1>s, <2>1, <2>3, <3>1, <3>2, TurningIs DEF Is, Turns
        <3>4. QED
            BY <1>s, <2>1, <3>1, <3>3 DEF Elsewhere, Is
    <2>4. QED
        BY <1>1, <2>2, <2>3 DEF AcceptFlow
<1>2. CASE FlowStage(c, f)
    BY <1>2, <1>t, PassingIsSerene DEF FlowStage, Elsewhere, upstream
<1>3. CASE BeginComparison(c, f)
    <2>1. [at |-> "starting", flow |-> f] \in Calls
        BY DEF Calls
    <2>2. QED
        BY <1>3, <1>t, <2>1, BeginningIsSerene DEF BeginComparison, Elsewhere, upstream
<1>4. CASE ConfirmFlow(c, f)
    <2>1. Serene /\ UNCHANGED <<current, struck>>
        BY <1>4, <1>t, PassingIsSerene DEF ConfirmFlow
    <2>2. Is(ComparisonOf(f), f, "sas")
        BY <1>4, HandlesFound DEF ConfirmFlow
    <2>3. Turned(ComparisonOf(f), "confirmed")
        BY <1>4, <1>t, <1>s, <2>1, <2>2, TurningIs DEF Is, Turns, ConfirmFlow
    <2>4. QED
        BY <1>s, <2>1, <2>2, <2>3 DEF Elsewhere, Is
<1>5. CASE ReadCode(c, f)
    <2>1. NegotiationOf(f) \in (SUBSET Halves) \cup {Unknown}
        BY <1>t DEF NegotiationOf, Halved, TypeInv, RecordTyped
    <2>2. [at |-> "generating", flow |-> f, remembered |-> NegotiationOf(f)] \in Calls
        BY <2>1 DEF Calls
    <2>3. QED
        BY <1>5, <1>t, <2>2, BeginningIsSerene DEF ReadCode, Elsewhere, upstream
<1>6. CASE ConfirmScan(c, f)
    <2>1. Serene /\ UNCHANGED <<current, struck>>
        BY <1>6, <1>t, PassingIsSerene DEF ConfirmScan
    <2>2. Is(CodeOf(f), f, "code")
        BY <1>6, HandlesFound DEF ConfirmScan
    <2>3. Turned(CodeOf(f), "confirmed")
        BY <1>6, <1>t, <1>s, <2>1, <2>2, TurningIs DEF Is, Turns, ConfirmScan
    <2>4. QED
        BY <1>s, <2>1, <2>2, <2>3 DEF Elsewhere, Is
<1>7. CASE SubmitScannedCode(c, f)
    <2>1. [at |-> "scanning", flow |-> f] \in Calls
        BY DEF Calls
    <2>2. QED
        BY <1>7, <1>t, <2>1, BeginningIsSerene DEF SubmitScannedCode, Elsewhere, upstream
<1>8. CASE CancelFlow(c, f)
    <2> DEFINE o == HandleOf(f)
               able == IF o # 0 THEN InForce(o) ELSE Pending(f)
    <2>1. /\ call[c] = Resting /\ Look(f) /\ UNCHANGED <<current, struck>>
          /\ UNCHANGED <<account, capabilities, call, shown>>
          /\ \/ ~able /\ UNCHANGED <<made, request>>
             \/ able /\ o # 0 /\ CancelThrough(f, o)
             \/ /\ able /\ o = 0 /\ UNCHANGED made
                /\ request' = [request EXCEPT ![f].state = "cancelled"]
        BY <1>8 DEF CancelFlow, HandleOf
    <2>2. Serene
        <3>1. \E d \in Callers : \E v \in {Silent} \cup Endings : said' = [said EXCEPT ![d] = v]
            <4>1. \E answer \in {"ok", "WrongStage"} : Says(c, "cancel_flow", f, answer)
                BY <1>8 DEF CancelFlow
            <4>2. "WrongStage" \in Answers \cap MachineErrors
                BY DEF Answers, MachineErrors, FlowErrors
            <4>3. QED
                BY <4>1, <4>2, EndingIsTyped
        <3>2. QED
            BY <1>t, <2>1, <3>1 DEF Serene, TypeInv
    <2>3. o \in Made
        BY HandlesFound
    <2> HIDE DEF o
    <2>4. CASE ~able /\ UNCHANGED <<made, request>>
        BY <2>1, <2>2, <2>4 DEF Elsewhere, upstream
    <2>5. CASE able /\ o # 0 /\ CancelThrough(f, o)
        <3>1. /\ Restated
              /\ \A i \in DOMAIN made :
                    made'[i].state = IF i = o /\ InForce(i) THEN "cancelled" ELSE made[i].state
            BY <1>r, <2>5, CancelledRestates DEF CancelThrough
        <3>2. /\ Request(f, IF Pending(f) THEN "cancelled" ELSE request[f].state)
              /\ request'[f].ours = request[f].ours /\ request'[f].theirs = request[f].theirs
            <4>1. CASE Pending(f)
                BY <1>t, <2>5, <4>1, RequestRestated DEF CancelThrough
            <4>2. CASE ~Pending(f)
                BY <1>t, <2>5, <4>2 DEF CancelThrough, Request, UpTyped
            <4>3. QED
                BY <4>1, <4>2
        <3>3. Cancels(f, o)
            BY <2>1, <3>1, <3>2 DEF Cancels, o
        <3>4. QED
            BY <2>2, <2>3, <3>3 DEF Elsewhere
    <2>6. CASE /\ able /\ o = 0 /\ UNCHANGED made
               /\ request' = [request EXCEPT ![f].state = "cancelled"]
        <3>1. /\ Restated
              /\ \A i \in DOMAIN made :
                    made'[i].state = IF i = o /\ InForce(i) THEN "cancelled" ELSE made[i].state
            BY <1>r, <1>t, <2>6, CurrentIsMade DEF Restated
        <3>2. /\ Request(f, IF Pending(f) THEN "cancelled" ELSE request[f].state)
              /\ request'[f].ours = request[f].ours /\ request'[f].theirs = request[f].theirs
            BY <1>t, <2>6, RequestRestated
        <3>3. Cancels(f, o)
            BY <2>1, <3>1, <3>2 DEF Cancels, o
        <3>4. QED
            BY <2>2, <2>3, <3>3 DEF Elsewhere
    <2>7. QED
        BY <2>1, <2>4, <2>5, <2>6
<1>9. QED
    BY <1>1, <1>2, <1>3, <1>4, <1>5, <1>6, <1>7, <1>8

\* What opens a flow, and what the far side does.
LEMMA SyncsElsewhere ==
    ASSUME BaseInv, NEW f \in Flows,
           \/ RequestFlow(f)
           \/ \E methods \in Announcements[f] : PeerInvites(f, methods) \/ PeerAccepts(f, methods)
           \/ PeerStarts(f) \/ PeerExchanges(f) \/ PeerScans(f)
           \/ PeerFinishes(f) \/ PeerCancels(f)
    PROVE  Serene /\ Elsewhere
<1>t. TypeInv /\ UpTyped /\ UpTyped
    BY DEF BaseInv, TypeInv
<1>r. /\ request[f] \in Entries /\ made \in Seq(Objects) /\ current[f] \in Made
      /\ current[f] # 0 => current[f] \in DOMAIN made /\ made[current[f]].flow = f
    BY <1>t, CurrentIsMade DEF UpTyped, BaseInv, Handles
<1>s. {"exchanged", "scanned", "done"} \subseteq States
    BY DEF States, Over
<1>u. UNCHANGED silent => Serene
    BY <1>t, SyncIsSerene
<1>1. CASE RequestFlow(f)
    <2> DEFINE entry == [state |-> "requested", ours |-> AnnouncedMethods, theirs |-> {}]
    <2>1. entry \in Entries
        BY <1>t DEF Entries, AnnouncedMethods, TypeInv
    <2>2. Opens(f, entry)
        BY <1>1 DEF RequestFlow, Opens
    <2>3. Serene
        BY <1>1, <1>t DEF RequestFlow, Serene, record, TypeInv
    <2>4. QED
        BY <2>1, <2>2, <2>3 DEF Elsewhere
<1>2. ASSUME NEW methods \in Announcements[f], PeerInvites(f, methods)
      PROVE  Serene /\ Elsewhere
    <2> DEFINE entry == [state |-> "requested", ours |-> {}, theirs |-> methods \cup {"there"}]
    <2>1. entry \in Entries
        BY CodeAssumption DEF Entries
    <2>2. Opens(f, entry)
        BY <1>2 DEF PeerInvites, Opens
    <2>3. Serene
        BY <1>2, <1>u DEF PeerInvites
    <2>4. QED
        BY <2>1, <2>2, <2>3 DEF Elsewhere
<1>3. ASSUME NEW methods \in Announcements[f], PeerAccepts(f, methods)
      PROVE  Serene /\ Elsewhere
    <2> DEFINE entry == [request[f] EXCEPT !.state = "ready", !.theirs = methods]
    <2>1. Request(f, "ready")
        <3>1. entry \in Entries /\ entry.state = "ready"
            BY <1>r, CodeAssumption DEF Entries
        <3>2. request' = [request EXCEPT ![f] = entry]
            BY <1>3 DEF PeerAccepts
        <3> HIDE DEF entry
        <3>3. QED
            BY <1>t, <3>1, <3>2, RequestAlone
    <2>2. Agrees(f) /\ Serene
        BY <1>3, <1>u, <2>1 DEF PeerAccepts, Agrees
    <2>3. QED
        BY <2>2 DEF Elsewhere
<1>4. CASE PeerStarts(f)
    BY <1>4, <1>u DEF PeerStarts, Elsewhere
<1>5. CASE PeerExchanges(f)
    <2>1. Turned(current[f], "exchanged") /\ Serene
        BY <1>5, <1>t, <1>r, <1>s, <1>u, TurningIs DEF PeerExchanges, Moves, Turns
    <2>2. QED
        BY <1>5, <1>r, <1>s, <2>1 DEF Elsewhere, PeerExchanges, Moves
<1>6. CASE PeerScans(f)
    <2>1. Turned(current[f], "scanned") /\ Serene
        BY <1>6, <1>t, <1>r, <1>s, <1>u, TurningIs DEF PeerScans, Moves, Turns
    <2>2. QED
        BY <1>6, <1>r, <1>s, <2>1 DEF Elsewhere, PeerScans, Moves
<1>7. CASE PeerFinishes(f)
    <2>1. /\ request[f].state = "transitioned" /\ UNCHANGED <<current, struck>> /\ Serene
          /\ Request(f, "done")
          /\ request'[f].ours = request[f].ours /\ request'[f].theirs = request[f].theirs
        BY <1>7, <1>t, <1>u, RequestRestated DEF PeerFinishes
    <2>2. CASE made[current[f]].state \in {"exchanged", "scanned"} /\ UNCHANGED made
        <3>1. Finished(f)
            BY <1>r, <2>1, <2>2 DEF Finished, Restated
        <3>2. QED
            BY <2>1, <3>1 DEF Elsewhere
    <2>3. CASE \E kind, from : Moves(f, kind, from, "done")
        <3>1. current[f] # 0 /\ made' = [made EXCEPT ![current[f]].state = "done"]
            BY <2>3 DEF Moves
        <3>2. /\ Restated
              /\ \A i \in DOMAIN made :
                    made'[i].state = IF i = current[f] THEN "done" ELSE made[i].state
            BY <1>r, <1>s, <3>1, TurnRestates
        <3>3. Finished(f)
            BY <1>r, <2>1, <3>1, <3>2 DEF Finished
        <3>4. QED
            BY <2>1, <3>3 DEF Elsewhere
    <2>4. QED
        BY <1>7, <2>2, <2>3 DEF PeerFinishes
<1>8. CASE PeerCancels(f)
    <2>1. /\ Pending(f) /\ UNCHANGED <<current, struck>> /\ Serene
          /\ made' = Cancelled({current[f]} \ {0})
          /\ Request(f, "cancelled")
          /\ request'[f].ours = request[f].ours /\ request'[f].theirs = request[f].theirs
        BY <1>8, <1>t, <1>u, RequestRestated DEF PeerCancels
    <2>2. Restated /\ \A i \in DOMAIN made :
              made'[i].state = IF i \in {current[f]} \ {0} /\ InForce(i)
                               THEN "cancelled" ELSE made[i].state
        BY <1>r, <2>1, CancelledRestates
    <2>3. 0 \notin DOMAIN made
        BY <1>t, CurrentIsMade
    <2>4. Cancels(f, current[f])
        BY <2>1, <2>2, <2>3 DEF Cancels
    <2>5. QED
        BY <1>r, <2>1, <2>4 DEF Elsewhere
<1>9. QED
    BY <1>1, <1>2, <1>3, <1>4, <1>5, <1>6, <1>7, <1>8

\* What a call's second trip does.
LEMMA TripsAre ==
    ASSUME BaseInv, NEW c \in Callers,
           \/ StartSas(c) \/ GenerateCode(c) \/ ScanCode(c)
           \/ \E error \in ScanFailures : RefuseScan(c, error)
    PROVE  \/ Serene /\ Elsewhere
           \/ \E f \in Flows, kind \in Kinds, state \in States : Makes(c, f, kind, state)
<1> DEFINE f == call[c].flow
<1>t. TypeInv
    BY DEF BaseInv
<1>k. {"sas", "code"} \subseteq Kinds /\ {"started", "reciprocated"} \subseteq States
    BY DEF Kinds, States
<1>f. call[c].at # "idle" => f \in Flows
    BY <1>t, CallHasFlow
<1>e. UNCHANGED upstream => Elsewhere
    BY DEF Elsewhere, upstream
<1>1. CASE StartSas(c)
    <2>1. CASE request[f].state \in {"ready", "transitioned"}
        <3>1. Makes(c, f, "sas", "started")
            BY <1>1, <2>1 DEF StartSas, Makes
        <3>2. QED
            BY <1>1, <1>f, <1>k, <3>1 DEF StartSas
    <2>2. CASE request[f].state \notin {"ready", "transitioned"}
        <3>1. Serene
            BY <1>1, <1>t, <2>2, RestingIsSerene DEF StartSas
        <3>2. QED
            BY <1>1, <1>e, <2>2, <3>1 DEF StartSas
    <2>3. QED
        BY <2>1, <2>2
<1>2. CASE GenerateCode(c)
    <2>1. CASE Buildable(f)
        <3>1. Makes(c, f, "code", "started")
            <4>1. f \in LongIds => f \notin Drawable
                BY DEF Drawable
            <4>2. QED
                BY <1>2, <2>1, <4>1 DEF GenerateCode, Makes, Buildable
        <3>2. QED
            BY <1>2, <1>f, <1>k, <3>1 DEF GenerateCode
    <2>2. CASE ~Buildable(f)
        <3>1. \E d \in Callers : \E v \in {Silent} \cup Endings : said' = [said EXCEPT ![d] = v]
            <4>1. Says(c, "read_code", f, WhyNoCode(f, call[c].remembered))
                BY <1>2, <2>2 DEF GenerateCode
            <4>2. f \in Flows
                BY <1>2, <1>f DEF GenerateCode
            <4>3. QED
                BY <4>1, <4>2, RefusalsAreErrors, EndingIsTyped
        <3>2. /\ call[c].at # "remembering" /\ call' = [call EXCEPT ![c] = Resting]
              /\ UNCHANGED <<account, capabilities, record, shown>> /\ UNCHANGED upstream
            BY <1>2, <2>2 DEF GenerateCode
        <3>3. QED
            BY <1>t, <1>e, <3>1, <3>2, RestingIsSerene
    <2>3. QED
        BY <2>1, <2>2
<1>3. CASE ScanCode(c)
    <2>1. CASE request[f].state = "ready"
        <3>1. Makes(c, f, "code", "reciprocated")
            BY <1>3, <2>1 DEF ScanCode, Makes
        <3>2. QED
            BY <1>3, <1>f, <1>k, <3>1 DEF ScanCode
    <2>2. CASE request[f].state # "ready"
        <3>1. Serene
            BY <1>3, <1>t, <2>2, RestingIsSerene DEF ScanCode
        <3>2. QED
            BY <1>3, <1>e, <2>2, <3>1 DEF ScanCode
    <2>3. QED
        BY <2>1, <2>2
<1>4. ASSUME NEW error \in ScanFailures, RefuseScan(c, error)
      PROVE  Serene /\ Elsewhere
    <2>1. \E d \in Callers : \E v \in {Silent} \cup Endings : said' = [said EXCEPT ![d] = v]
        <3>1. Says(c, "submit_scanned_code", f, ScanSays(error)) /\ f \in Flows
            BY <1>4, <1>f DEF RefuseScan
        <3>2. QED
            BY <3>1, RefusalsAreErrors, ScanAssumption, EndingIsTyped
    <2>2. /\ call[c].at # "remembering" /\ call' = [call EXCEPT ![c] = Resting]
          /\ UNCHANGED <<account, capabilities, record, shown>> /\ UNCHANGED upstream
        BY <1>4 DEF RefuseScan
    <2>3. QED
        BY <1>t, <1>e, <2>1, <2>2, RestingIsSerene
<1>5. QED
    BY <1>1, <1>2, <1>3, <1>4

\* Every step is of one of the kinds.
LEMMA StepIs ==
    ASSUME BaseInv, [Next]_vars
    PROVE  StepKinds
<1>1. ASSUME NEW halves \in Offers, OfferCodes(halves)
      PROVE  Serene /\ Elsewhere
    BY <1>1, CodeAssumption DEF OfferCodes, Serene, Elsewhere, record, upstream
<1>2. CASE UNCHANGED vars
    BY <1>2 DEF vars, StepKinds, Serene, Elsewhere, record, upstream, BaseInv, TypeInv
<1>s. CASE BeginSync \/ EndSync
    BY <1>s, SyncIsSerene DEF BeginSync, EndSync, StepKinds, Elsewhere, BaseInv
<1>3. QED
    BY <1>1, <1>2, <1>s, CallersElsewhere, SyncsElsewhere, TripsAre DEF Next, StepKinds

-----------------------------------------------------------------------------
(* What lasts.                                                             *)

\* What is made stays made, as what it is; a verification that is over stays
\* over, and so does a request, which then becomes nothing else.
Lasting ==
    /\ UpTyped' /\ Len(made) \in Nat /\ Len(made') \in Nat /\ Len(made') >= Len(made)
    /\ \A o \in DOMAIN made :
        /\ o \in DOMAIN made'
        /\ made'[o].flow = made[o].flow /\ made'[o].kind = made[o].kind
        /\ made[o].state \in Over => made'[o].state \in Over
    /\ \A o \in DOMAIN made' \ DOMAIN made : current'[made'[o].flow] = o
    /\ \A f \in Flows :
        \/ current'[f] = current[f]
        \/ current'[f] # 0 /\ current'[f] \notin DOMAIN made /\ made'[current'[f]].flow = f
    /\ \A f \in Flows : request[f].state \in Over =>
        request'[f].state \in Over /\ current'[f] = current[f]

\* What only restates the verifications lasts, if requests that are over stay so.
LEMMA RestatedLasts ==
    ASSUME UpTyped, Restated, current' = current, request' \in [Flows -> Entries],
           struck' \subseteq Flows,
           \A o \in DOMAIN made : made[o].state \in Over => made'[o].state \in Over,
           \A f \in Flows : request[f].state \in Over => request'[f].state \in Over
    PROVE  Lasting
<1>1. Len(made) \in Nat
    BY CurrentIsMade
<1>2. UpTyped'
    BY DEF UpTyped, Restated, Made
<1>3. QED
    BY <1>1, <1>2 DEF Lasting, Restated

\* What is made lasts whatever happens upstream,
LEMMA ElsewhereLasts ==
    ASSUME BaseInv, Elsewhere
    PROVE  Lasting
<1>t. UpTyped /\ request \in [Flows -> Entries] /\ struck \subseteq Flows
    BY DEF BaseInv, TypeInv, UpTyped
<1>u. made' = made => Restated
    BY <1>t DEF Restated, UpTyped
<1>o. ASSUME NEW f \in Flows, NEW state, Request(f, state),
             request[f].state \in Over => state \in Over
      PROVE  /\ request' \in [Flows -> Entries]
             /\ \A g \in Flows : request[g].state \in Over => request'[g].state \in Over
    BY <1>o DEF Request
<1>1. CASE UNCHANGED <<request, made, current, struck>>
    BY <1>1, <1>t, <1>u, RestatedLasts DEF upstream
<1>2. ASSUME NEW f \in Flows, Agrees(f)
      PROVE  Lasting
    <2>1. request[f].state \notin Over
        BY <1>2 DEF Agrees, Over
    <2>2. QED
        BY <1>2, <1>t, <1>u, <1>o, <2>1, RestatedLasts DEF Agrees
<1>3. ASSUME NEW f \in Flows, Finished(f)
      PROVE  Lasting
    <2>1. "done" \in Over
        BY DEF Over
    <2>2. \A i \in DOMAIN made : made[i].state \in Over => made'[i].state \in Over
        BY <1>3, <2>1 DEF Finished
    <2>3. QED
        BY <1>3, <1>t, <1>o, <2>1, <2>2, RestatedLasts DEF Finished
<1>4. ASSUME NEW f \in Flows, PeerStarts(f)
      PROVE  Lasting
    <2>1. /\ UpTyped' /\ Len(made') = Len(made) + 1
          /\ DOMAIN made' = DOMAIN made \cup {Len(made) + 1}
          /\ \A o \in DOMAIN made : made'[o] = made[o]
          /\ made'[Len(made) + 1].flow = f
          /\ Len(made) + 1 \notin DOMAIN made
          /\ current'[f] = Len(made) + 1
          /\ \A g \in Flows \ {f} : current'[g] = current[g] /\ request'[g] = request[g]
        BY <1>4, <1>t, StartingDoes
    <2>2. request[f].state \notin Over
        BY <1>4 DEF PeerStarts, Over, Became
    <2>3. /\ Len(made) \in Nat /\ Len(made) + 1 # 0
          /\ Len(made') \in Nat /\ Len(made') >= Len(made)
        BY <1>t, <2>1, CurrentIsMade
    <2>4. QED
        BY <2>1, <2>2, <2>3 DEF Lasting
<1>5. ASSUME NEW f \in Flows, NEW o \in Made, Cancels(f, o)
      PROVE  Lasting
    <2>1. "cancelled" \in Over /\ (Pending(f) => request[f].state \notin Over)
        BY DEF Over, Pending
    <2>2. request[f].state \in Over => (IF Pending(f) THEN "cancelled" ELSE request[f].state) \in Over
        BY <2>1
    <2>3. QED
        BY <1>5, <1>t, <1>o, <2>1, <2>2, RestatedLasts DEF Cancels
<1>6. ASSUME NEW f \in Flows, NEW entry \in Entries, Opens(f, entry)
      PROVE  Lasting
    <2>1. "cancelled" \in Over /\ "absent" \notin Over
        BY DEF Over
    <2>2. /\ UpTyped' /\ Restated /\ current' = current
          /\ \A o \in DOMAIN made : made[o].state \in Over => made'[o].state \in Over
          /\ \A g \in Flows : request[g].state \in Over => request'[g].state \in Over
        BY <1>6, <1>t, <2>1, OpeningDoes DEF Opens
    <2>3. request' \in [Flows -> Entries] /\ struck' \subseteq Flows
        BY <2>2 DEF UpTyped
    <2>4. QED
        BY <1>t, <2>2, <2>3, RestatedLasts
<1>7. ASSUME NEW o \in DOMAIN made, NEW to \in States, Turned(o, to)
      PROVE  Lasting
    <2>1. made[o].state \notin Over
        BY <1>7 DEF Turned, Turns, Over
    <2>2. QED
        BY <1>7, <1>t, <2>1, RestatedLasts DEF Turned
<1>8. QED
    BY <1>1, <1>2, <1>3, <1>4, <1>5, <1>6, <1>7 DEF Elsewhere

\* when a call makes something,
LEMMA MakesLasts ==
    ASSUME BaseInv, NEW c \in Callers, NEW f \in Flows, NEW kind \in Kinds,
           NEW state \in States, Makes(c, f, kind, state)
    PROVE  Lasting
<1>t. UpTyped /\ Insert(f, kind, state)
    BY DEF BaseInv, TypeInv, Makes
<1>1. "cancelled" \in Over /\ request[f].state \notin Over
    BY DEF Over, Makes
<1>2. UpTyped' /\ Len(made') = Len(made) + 1 /\ DOMAIN made' = DOMAIN made \cup {Len(made) + 1}
    BY <1>t, InsertDoes
<1>3. \A o \in DOMAIN made :
          /\ made'[o].flow = made[o].flow /\ made'[o].kind = made[o].kind
          /\ made[o].state \in Over => made'[o].state \in Over
    BY <1>t, <1>1, InsertDoes
<1>4. made'[Len(made) + 1].flow = f /\ current'[f] = Len(made) + 1
      /\ Len(made) + 1 \notin DOMAIN made
    BY <1>t, InsertDoes
<1>5. \A g \in Flows \ {f} :
          /\ current'[g] = current[g]
          /\ request[g].state \in Over => request'[g].state \in Over
    BY <1>t, <1>1, InsertDoes
<1>6. /\ Len(made) \in Nat /\ Len(made) + 1 # 0
      /\ Len(made') \in Nat /\ Len(made') >= Len(made)
    BY <1>t, <1>2, CurrentIsMade
<1>7. QED
    BY <1>1, <1>2, <1>3, <1>4, <1>5, <1>6 DEF Lasting

\* and when one remembers it.
LEMMA RememberLasts ==
    ASSUME BaseInv, NEW c \in Callers, Remember(c)
    PROVE  Lasting
<1>1. Elsewhere
    BY DEF Remember, Elsewhere, upstream
<1>2. QED
    BY <1>1, ElsewhereLasts

-----------------------------------------------------------------------------
(* Types and handles are kept.                                             *)

\* What Serene says of one flow and of one call.
LEMMA SereneKeeps ==
    ASSUME TypeInv, Serene
    PROVE  /\ \A f \in Flows : /\ comparison'[f] \in {comparison[f], ComparisonOf(f)}
                               /\ code'[f] \in {code[f], CodeOf(f)}
           /\ \A d \in Callers :
                \/ call'[d] = call[d]
                \/ /\ call[d].at # "remembering" /\ call'[d].at # "remembering"
                   /\ call'[d] \in {Resting} \cup Calls
<1>1. ASSUME NEW g \in Flows
      PROVE  comparison'[g] \in {comparison[g], ComparisonOf(g)} /\ code'[g] \in {code[g], CodeOf(g)}
    BY DEF Serene, Look, record, TypeInv, RecordTyped
<1>2. \A v \in {Resting} \cup Calls : v.at # "remembering"
    BY DEF Resting, Calls
<1>3. ASSUME NEW d \in Callers, call'[d] # call[d]
      PROVE  /\ call[d].at # "remembering" /\ call'[d].at # "remembering"
             /\ call'[d] \in {Resting} \cup Calls
    <2>1. PICK c \in Callers, v \in {Resting} \cup Calls :
             call[c].at # "remembering" /\ call' = [call EXCEPT ![c] = v]
        BY <1>3 DEF Serene
    <2>2. d = c /\ call'[d] = v
        BY <1>3, <2>1 DEF TypeInv, CallsTyped
    <2>3. QED
        BY <1>2, <2>1, <2>2
<1>4. QED
    BY <1>1, <1>3

\* o is one after the step. A handle stays one.
IsNext(o, f, kind) == o \in DOMAIN made' /\ made'[o].flow = f /\ made'[o].kind = kind

\* What a handle is of stays what it is of.
LEMMA IsLasts ==
    ASSUME Lasting, NEW o, NEW f, NEW kind, Is(o, f, kind)
    PROVE  IsNext(o, f, kind)
BY DEF Lasting, Is, IsNext

\* So is what a flow became; and a flow something was made of became something.
LEMMA CurrentLasts ==
    ASSUME BaseInv, Lasting
    PROVE  /\ \A f \in Flows : current'[f] # 0 => made'[current'[f]].flow = f
           /\ \A o \in DOMAIN made' : current'[made'[o].flow] # 0
<1>1. /\ \A f \in Flows : current[f] # 0 => current[f] \in DOMAIN made
      /\ \A o \in DOMAIN made : made[o].flow \in Flows
    BY CurrentIsMade DEF BaseInv, TypeInv, Objects
<1>2. ASSUME NEW f \in Flows, current'[f] # 0
      PROVE  made'[current'[f]].flow = f
    BY <1>1, <1>2 DEF Lasting, BaseInv, Handles
<1>3. ASSUME NEW o \in DOMAIN made
      PROVE  current'[made'[o].flow] # 0
    BY <1>1, <1>3 DEF Lasting, BaseInv, Handles
<1>4. 0 \notin DOMAIN made'
    <2>1. UpTyped'
        BY DEF Lasting
    <2>2. DOMAIN made' = 1 .. Len(made')
        BY <2>1, CurrentIsMade, LenProperties DEF UpTyped
    <2>3. QED
        BY <2>2
<1>5. ASSUME NEW o \in DOMAIN made' \ DOMAIN made
      PROVE  current'[made'[o].flow] # 0
    BY <1>4, <1>5 DEF Lasting
<1>6. QED
    BY <1>2, <1>3, <1>5

\* Each kind of step keeps types and handles.
LEMMA BaseStep ==
    ASSUME BaseInv, [Next]_vars
    PROVE  BaseInv'
<1>t. TypeInv /\ Handles
    BY DEF BaseInv
<1>1. CASE Serene /\ Elsewhere
    <2>1. Lasting
        BY <1>1, ElsewhereLasts
    <2>2. TypeInv'
        <3>1. RecordTyped'
            BY <1>1, <1>t, <2>1, RecordStaysTyped DEF Lasting, Serene
        <3>2. CallsTyped'
            BY <1>1, <1>t, <2>1, CallsStayTyped DEF Lasting, Serene
        <3>3. QED
            BY <1>1, <1>t, <2>1, <3>1, <3>2 DEF TypeInv, Lasting, Serene
    <2>3. ASSUME NEW f \in Flows
          PROVE  /\ comparison'[f] # 0 => IsNext(comparison'[f], f, "sas")
                 /\ code'[f] # 0 => IsNext(code'[f], f, "code")
        <3>1. /\ comparison'[f] \in {comparison[f], ComparisonOf(f)}
              /\ code'[f] \in {code[f], CodeOf(f)}
            BY <1>1, <1>t, SereneKeeps
        <3>2. /\ comparison'[f] # 0 => Is(comparison'[f], f, "sas")
              /\ code'[f] # 0 => Is(code'[f], f, "code")
            BY <1>t, <3>1, HandlesFound DEF Handles
        <3>3. QED
            BY <2>1, <3>2, IsLasts
    <2>4. ASSUME NEW d \in Callers, call'[d].at = "remembering"
          PROVE  IsNext(call'[d].handle, call'[d].flow, call'[d].kind)
        <3>1. call'[d] = call[d]
            BY <1>1, <1>t, <2>4, SereneKeeps
        <3>2. Is(call[d].handle, call[d].flow, call[d].kind)
            BY <1>t, <2>4, <3>1 DEF Handles
        <3>3. QED
            BY <2>1, <3>1, <3>2, IsLasts
    <2>5. QED
        BY <2>1, <2>2, <2>3, <2>4, CurrentLasts DEF BaseInv, Handles, Is, IsNext
<1>2. ASSUME NEW c \in Callers, Remember(c)
      PROVE  BaseInv'
    <2>1. Lasting /\ made' = made /\ current' = current
        BY <1>2, RememberLasts DEF Remember, upstream
    <2>2. /\ call[c] \in Rememberings /\ call[c].flow \in Flows
          /\ Is(call[c].handle, call[c].flow, call[c].kind)
        BY <1>2, <1>t, CallHasFlow DEF Remember, Handles, Rememberings
    <2>3. call[c].handle \in Made /\ call[c].kind \in Kinds
        BY <2>2 DEF Rememberings
    <2>4. RecordTyped'
        BY <1>2, <1>t, <2>1, <2>3 DEF Remember, TypeInv, RecordTyped, Made
    <2>5. CallsTyped'
        BY <1>2, <1>t, <2>1, CallsStayTyped DEF Remember, Lasting
    <2>6. TypeInv'
        BY <1>2, <1>t, <2>1, <2>4, <2>5 DEF TypeInv, Remember, Lasting
    <2>7. ASSUME NEW f \in Flows
          PROVE  /\ comparison'[f] # 0 => Is(comparison'[f], f, "sas")
                 /\ code'[f] # 0 => Is(code'[f], f, "code")
        <3>1. \/ comparison'[f] = comparison[f]
              \/ comparison'[f] = call[c].handle /\ f = call[c].flow /\ call[c].kind = "sas"
            BY <1>2, <1>t DEF Remember, TypeInv, RecordTyped
        <3>2. \/ code'[f] = code[f]
              \/ code'[f] = call[c].handle /\ f = call[c].flow /\ call[c].kind # "sas"
            BY <1>2, <1>t DEF Remember, TypeInv, RecordTyped
        <3>3. QED
            BY <1>t, <2>2, <2>3, <3>1, <3>2 DEF Handles, Kinds
    <2>8. ASSUME NEW d \in Callers, call'[d].at = "remembering"
          PROVE  Is(call'[d].handle, call'[d].flow, call'[d].kind)
        <3>1. call'[d] = call[d]
            BY <1>2, <1>t, <2>8 DEF Remember, Resting, TypeInv, CallsTyped
        <3>2. QED
            BY <1>t, <2>8, <3>1 DEF Handles
    <2>9. QED
        BY <2>1, <2>6, <2>7, <2>8, CurrentLasts DEF BaseInv, Handles, Is
<1>3. ASSUME NEW c \in Callers, NEW f \in Flows, NEW kind \in Kinds, NEW state \in States,
             Makes(c, f, kind, state)
      PROVE  BaseInv'
    <2> DEFINE new == Len(made) + 1
               v == [at |-> "remembering", flow |-> f, kind |-> kind, handle |-> new]
    <2>1. Lasting /\ UNCHANGED record /\ shown' = shown /\ said' = said
          /\ account' = account /\ capabilities' = capabilities
        BY <1>3, MakesLasts DEF Makes
    <2>2. IsNext(new, f, kind) /\ new \in Made'
        <3>1. /\ DOMAIN made' = DOMAIN made \cup {new} /\ made'[new].flow = f
              /\ made'[new].kind = kind /\ Len(made') = new /\ new \in Nat \ {0}
            BY <1>3, <1>t, InsertDoes DEF Makes, TypeInv
        <3>2. QED
            BY <3>1 DEF IsNext, Made
    <2>3. call' = [call EXCEPT ![c] = Resting] \/ call' = [call EXCEPT ![c] = v]
        BY <1>3 DEF Makes
    <2>4. v \in Rememberings'
        BY <2>2 DEF Rememberings
    <2> HIDE DEF new
    <2>5. TypeInv'
        <3>1. RecordTyped'
            BY <1>t, <2>1, RecordStaysTyped DEF Lasting
        <3>2. CallsTyped'
            <4> HIDE DEF v
            <4>1. QED
                BY <1>t, <2>1, <2>3, <2>4, CallsStayTyped DEF Lasting
        <3>3. QED
            BY <1>t, <2>1, <3>1, <3>2 DEF TypeInv, Lasting
    <2>6. ASSUME NEW g \in Flows
          PROVE  /\ comparison'[g] # 0 => IsNext(comparison'[g], g, "sas")
                 /\ code'[g] # 0 => IsNext(code'[g], g, "code")
        BY <1>t, <2>1, IsLasts DEF record, Handles
    <2>7. ASSUME NEW d \in Callers, call'[d].at = "remembering"
          PROVE  IsNext(call'[d].handle, call'[d].flow, call'[d].kind)
        <3>1. call'[d] = call[d] \/ call'[d] = v
            BY <1>t, <2>3, <2>7 DEF TypeInv, CallsTyped, Resting
        <3>2. CASE call'[d] = v
            BY <2>2, <3>2
        <3>3. CASE call'[d] = call[d]
            BY <1>t, <2>1, <2>7, <3>3, IsLasts DEF Handles
        <3>4. QED
            BY <3>1, <3>2, <3>3
    <2>8. QED
        BY <2>1, <2>5, <2>6, <2>7, CurrentLasts DEF BaseInv, Handles, Is, IsNext
<1>4. QED
    BY <1>1, <1>2, <1>3, StepIs DEF StepKinds

\* Nothing is made yet.
LEMMA BaseInit == Init => BaseInv
<1> SUFFICES ASSUME Init
             PROVE  BaseInv
    OBVIOUS
<1>1. made \in Seq(Objects) /\ Len(made) = 0 /\ DOMAIN made = {}
    BY EmptySeq DEF Init
<1>2. UpTyped /\ RecordTyped
    BY <1>1, CodeAssumption DEF Init, UpTyped, RecordTyped, Entries, Made
<1>3. CallsTyped
    BY DEF Init, CallsTyped
<1>4. Handles
    BY <1>1 DEF Init, Handles, Resting
<1>5. QED
    BY <1>2, <1>3, <1>4 DEF BaseInv, TypeInv, Init

LEMMA SyncInit == Init => SyncTyped
BY DEF Init, SyncTyped

\* Only flows are finished, and syncs begin and end.
LEMMA SyncStaysTyped ==
    ASSUME SyncTyped, [Next]_vars
    PROVE  SyncTyped'
<1>1. ASSUME NEW f \in Flows, PeerFinishes(f)
      PROVE  SyncTyped'
    BY <1>1 DEF PeerFinishes, SyncTyped
<1>2. CASE BeginSync \/ EndSync
    BY <1>2 DEF BeginSync, EndSync, SyncTyped
<1>3. CASE UNCHANGED sync
    BY <1>3 DEF sync, SyncTyped
<1>4. ASSUME NEW f \in Flows, NEW c \in Callers,
             \/ AcceptFlow(c, f) \/ FlowStage(c, f) \/ BeginComparison(c, f)
             \/ ConfirmFlow(c, f) \/ ReadCode(c, f) \/ ConfirmScan(c, f)
             \/ SubmitScannedCode(c, f) \/ CancelFlow(c, f)
      PROVE  UNCHANGED sync
    BY <1>4 DEF AcceptFlow, FlowStage, BeginComparison, ConfirmFlow, ReadCode, ConfirmScan,
                SubmitScannedCode, CancelFlow, Passes, upstream
<1>5. ASSUME NEW f \in Flows,
             \/ RequestFlow(f)
             \/ \E methods \in Announcements[f] : PeerInvites(f, methods) \/ PeerAccepts(f, methods)
             \/ PeerStarts(f) \/ PeerExchanges(f) \/ PeerScans(f) \/ PeerCancels(f)
      PROVE  UNCHANGED sync
    BY <1>5 DEF RequestFlow, InsertRequest, PeerInvites, PeerAccepts, PeerStarts,
                PeerExchanges, PeerScans, PeerCancels
<1>6. ASSUME NEW c \in Callers,
             \/ StartSas(c) \/ Remember(c) \/ GenerateCode(c) \/ ScanCode(c)
             \/ \E error \in ScanFailures : RefuseScan(c, error)
      PROVE  UNCHANGED sync
    BY <1>6 DEF StartSas, Remember, GenerateCode, ScanCode, RefuseScan, Insert, upstream
<1>7. ASSUME NEW halves \in Offers, OfferCodes(halves)
      PROVE  UNCHANGED sync
    BY <1>7 DEF OfferCodes, upstream
<1>8. UNCHANGED vars => UNCHANGED sync
    BY DEF vars, upstream
<1>9. QED
    BY <1>1, <1>2, <1>3, <1>4, <1>5, <1>6, <1>7, <1>8 DEF Next

\* Every variable has its type, and every handle is of the flow it is kept for
\* and of the kind it is kept as.
THEOREM TypeCorrect == Spec => [](TypeOK /\ Handles)
<1>1. BaseInv /\ SyncTyped => TypeOK /\ Handles
    BY TypesSuffice DEF BaseInv
<1>2. QED
    BY <1>1, SyncInit, BaseInit, BaseStep, SyncStaysTyped, PTL DEF Spec

-----------------------------------------------------------------------------
(* What a flow became, and what its record has of it.                      *)

\* Two calls for one flow may remember two codes in the other order than they
\* were made.  What follows is about a product that makes one call at a time.
OneCaller == \A c, d \in Callers : c = d

\* The flows no second verification cancelled anything of, and whose codes fit.
Sound == Drawable \ struck

\* The states a comparison and a code go through.
KindStates ==
    \A o \in DOMAIN made :
        /\ made[o].kind = "sas" =>
              made[o].state \in {"offered", "started", "exchanged", "confirmed"} \cup Over
        /\ made[o].kind = "code" =>
              made[o].state \in {"started", "scanned", "reciprocated", "confirmed"} \cup Over

\* A request becomes a verification when it transitions, not before.
Moved ==
    \A f \in Flows :
        /\ request[f].state \in {"absent", "requested", "ready"} => current[f] = 0
        /\ request[f].state = "transitioned" => current[f] # 0

\* The request and what it became are over together, but for a request the far
\* side is done with.
InStep(f) ==
    current[f] # 0 =>
        /\ request[f].state = "transitioned" => InForce(current[f])
        /\ InForce(current[f]) =>
              \/ request[f].state = "transitioned"
              \/ /\ request[f].state = "done"
                 /\ made[current[f]].state \in {"exchanged", "scanned", "confirmed"}

\* A comparison is the last thing made of a flow: the one that is cached, and the
\* one a call is about to cache.  A code may be replaced by a comparison.
LastMade(f) ==
    /\ comparison[f] \in {0, current[f]}
    /\ \A c \in Callers : call[c].at = "remembering" /\ call[c].flow = f =>
          \/ call[c].handle = current[f]
          \/ call[c].kind = "code" /\ current[f] # 0 /\ made[current[f]].kind = "sas"

Remembered(f, o) ==
    \E c \in Callers : call[c].at = "remembering" /\ call[c].flow = f /\ call[c].handle = o

\* What is in force is cached or about to be, but for a comparison the far side
\* offers; so is the last code.
Cached(f) ==
    /\ current[f] # 0 /\ InForce(current[f]) /\ made[current[f]].state # "offered" =>
          current[f] \in {comparison[f], code[f]} \/ Remembered(f, current[f])
    /\ current[f] # 0 /\ made[current[f]].kind = "code" =>
          code[f] = current[f] \/ Remembered(f, current[f])

FlowInv(f) == f \in Sound => InStep(f) /\ LastMade(f) /\ Cached(f)

CodeInv == BaseInv /\ KindStates /\ Moved /\ \A f \in Flows : FlowInv(f)

\* Where neither a call nor the record of a flow that goes on as it was is touched
\* but by a look, the record keeps what it has.
LEMMA SereneFlow ==
    ASSUME CodeInv, Serene, Lasting, NEW g \in Flows, g \in Sound, current'[g] = current[g],
           current[g] # 0 /\ made'[current[g]].state \notin Over \cup {"offered"} =>
              \/ made[current[g]].state \notin Over \cup {"offered"}
              \/ comparison'[g] = current[g]
    PROVE  LastMade(g)' /\ Cached(g)'
<1>t. BaseInv /\ TypeInv /\ LastMade(g) /\ Cached(g)
    BY DEF CodeInv, BaseInv, FlowInv
<1>1. \A d \in Callers :
         call[d].at = "remembering" \/ call'[d].at = "remembering" => call'[d] = call[d]
    BY <1>t, SereneKeeps
<1>2. comparison'[g] \in {comparison[g], ComparisonOf(g)} /\ code'[g] \in {code[g], CodeOf(g)}
    BY <1>t, SereneKeeps
<1>3. /\ comparison'[g] \in {0, current[g]}
      /\ comparison[g] = current[g] /\ current[g] # 0 => comparison'[g] = current[g]
      /\ code[g] = current[g] => code'[g] = current[g]
    BY <1>t, <1>2 DEF LastMade, ComparisonOf, CodeOf
<1>4. current[g] # 0 => /\ current[g] \in DOMAIN made
                        /\ made'[current[g]].kind = made[current[g]].kind
    BY <1>t, CurrentIsMade DEF TypeInv, Lasting
<1>5. Remembered(g, current[g]) => Remembered(g, current[g])'
    <2>1. ASSUME NEW d \in Callers, call[d].at = "remembering", call[d].flow = g,
                 call[d].handle = current[g]
          PROVE  call'[d].at = "remembering" /\ call'[d].flow = g /\ call'[d].handle = current'[g]
        BY <1>1, <2>1
    <2>2. QED
        BY <2>1 DEF Remembered
<1>6. LastMade(g)'
    <2>1. ASSUME NEW d \in Callers, call'[d].at = "remembering", call'[d].flow = g
          PROVE  \/ call'[d].handle = current'[g]
                 \/ call'[d].kind = "code" /\ current'[g] # 0 /\ made'[current'[g]].kind = "sas"
        BY <1>t, <1>1, <1>4, <2>1 DEF LastMade
    <2>2. QED
        BY <1>3, <2>1 DEF LastMade
<1>7. Cached(g)'
    <2>1. current[g] # 0 /\ made'[current[g]].state \notin Over \cup {"offered"} =>
             current[g] \in {comparison'[g], code'[g]} \/ Remembered(g, current[g])'
        BY <1>t, <1>3, <1>5 DEF Cached, InForce
    <2>2. current[g] # 0 /\ made'[current[g]].kind = "code" =>
             code'[g] = current[g] \/ Remembered(g, current[g])'
        BY <1>t, <1>3, <1>4, <1>5 DEF Cached
    <2>3. QED
        BY <2>1, <2>2 DEF Cached, InForce
<1>8. QED
    BY <1>6, <1>7

\* Comparisons and codes take the turns their kind has.
LEMMA KindStatesStep ==
    ASSUME CodeInv, [Next]_vars
    PROVE  KindStates'
<1>t. BaseInv /\ TypeInv /\ UpTyped /\ KindStates
    BY DEF CodeInv, BaseInv, TypeInv
<1>o. "cancelled" \in Over /\ "done" \in Over
    BY DEF Over
<1>k. Restated /\ (\A i \in DOMAIN made : made'[i].state \in {made[i].state} \cup Over) => KindStates'
    BY <1>t DEF KindStates, Restated
<1>1. ASSUME UNCHANGED made
      PROVE  KindStates'
    BY <1>1, <1>t DEF KindStates
<1>2. ASSUME NEW f \in Flows, Finished(f)
      PROVE  KindStates'
    BY <1>2, <1>k, <1>o DEF Finished
<1>3. ASSUME NEW f \in Flows, PeerStarts(f)
      PROVE  KindStates'
    BY <1>3, <1>t, StartingDoes DEF KindStates
<1>4. ASSUME NEW f \in Flows, NEW o \in Made, Cancels(f, o)
      PROVE  KindStates'
    BY <1>4, <1>k, <1>o DEF Cancels
<1>5. ASSUME NEW f \in Flows, NEW entry \in Entries, Opens(f, entry)
      PROVE  KindStates'
    <2>1. Restated /\ \A i \in DOMAIN made : made'[i].state \in {made[i].state, "cancelled"}
        BY <1>5, <1>t, OpeningDoes DEF Opens
    <2>2. QED
        BY <1>k, <1>o, <2>1
<1>6. ASSUME NEW o \in DOMAIN made, NEW to \in States, Turned(o, to)
      PROVE  KindStates'
    BY <1>6, <1>t DEF KindStates, Turned, Turns, Restated
<1>7. ASSUME NEW c \in Callers, NEW f \in Flows, NEW kind \in Kinds, NEW state \in States,
             Makes(c, f, kind, state)
      PROVE  KindStates'
    <2> DEFINE new == Len(made) + 1
    <2>1. <<kind, state>> \in {<<"sas", "started">>, <<"code", "started">>,
                               <<"code", "reciprocated">>}
        BY <1>7 DEF Makes
    <2>2. DOMAIN made' = DOMAIN made \cup {new} /\ made'[new].kind = kind
        BY <1>7, <1>t, InsertDoes DEF Makes
    <2>3. made'[new].state \in {state, "cancelled"}
        BY <1>7, <1>t, InsertDoes DEF Makes
    <2>4. \A i \in DOMAIN made :
             made'[i].kind = made[i].kind /\ made'[i].state \in {made[i].state, "cancelled"}
        BY <1>7, <1>t, InsertDoes DEF Makes
    <2> HIDE DEF new
    <2>5. QED
        BY <1>t, <1>o, <2>1, <2>2, <2>3, <2>4 DEF KindStates
<1>8. QED
    BY <1>t, <1>1, <1>2, <1>3, <1>4, <1>5, <1>6, <1>7, StepIs
       DEF StepKinds, Elsewhere, Agrees, Remember, upstream

\* Nothing is made of a flow without its request moving on.
LEMMA MovedStep ==
    ASSUME CodeInv, [Next]_vars
    PROVE  Moved'
<1>t. BaseInv /\ TypeInv /\ UpTyped /\ Moved
    BY DEF CodeInv, BaseInv, TypeInv
<1>s. current' = current =>
         ((\A g \in Flows : request'[g].state \in {request[g].state} \cup Over) => Moved')
    BY <1>t DEF Moved, Over
<1>o. "cancelled" \in Over /\ "done" \in Over
    BY DEF Over
<1>1. ASSUME UNCHANGED <<request, current>>
      PROVE  Moved'
    BY <1>1, <1>t DEF Moved
<1>2. ASSUME NEW f \in Flows, Agrees(f)
      PROVE  Moved'
    BY <1>2, <1>t DEF Agrees, Request, Moved
<1>3. ASSUME NEW f \in Flows, Finished(f)
      PROVE  Moved'
    BY <1>3, <1>s, <1>o DEF Finished, Request
<1>4. ASSUME NEW f \in Flows, PeerStarts(f)
      PROVE  Moved'
    <2>1. \A g \in Flows \ {f} : current'[g] = current[g] /\ request'[g] = request[g]
        BY <1>4, <1>t, StartingDoes
    <2>2. current'[f] # 0 /\ request'[f].state = "transitioned"
        BY <1>4, <1>t, StartingDoes
    <2>3. QED
        BY <1>t, <2>1, <2>2 DEF Moved
<1>5. ASSUME NEW f \in Flows, NEW o \in Made, Cancels(f, o)
      PROVE  Moved'
    BY <1>5, <1>s, <1>o DEF Cancels, Request
<1>6. ASSUME NEW f \in Flows, NEW entry \in Entries, Opens(f, entry)
      PROVE  Moved'
    <2>1. /\ current' = current /\ current[f] = 0
          /\ request'[f].state \in {"requested", "cancelled"}
          /\ \A g \in Flows \ {f} : request'[g].state \in {request[g].state, "cancelled"}
        BY <1>6, <1>t, OpeningDoes DEF Opens, Moved
    <2>2. QED
        BY <1>t, <2>1 DEF Moved
<1>7. ASSUME NEW c \in Callers, NEW f \in Flows, NEW kind \in Kinds, NEW state \in States,
             Makes(c, f, kind, state)
      PROVE  Moved'
    <2>1. \A g \in Flows \ {f} : /\ current'[g] = current[g]
                                 /\ request'[g].state \in {request[g].state, "cancelled"}
        BY <1>7, <1>t, InsertDoes DEF Makes
    <2>2. current'[f] # 0 /\ request'[f].state = "transitioned"
        BY <1>7, <1>t, InsertDoes DEF Makes
    <2>3. QED
        BY <1>t, <2>1, <2>2 DEF Moved
<1>8. UNCHANGED <<request, made, current, struck>> => Moved'
    BY <1>1 DEF upstream
<1>9. ASSUME NEW o \in DOMAIN made, NEW to \in States, Turned(o, to)
      PROVE  Moved'
    BY <1>1, <1>9 DEF Turned
<1>10. Elsewhere => Moved'
    BY <1>2, <1>3, <1>4, <1>5, <1>6, <1>8, <1>9 DEF Elsewhere
<1>11. QED
    BY <1>t, <1>7, <1>8, <1>10, StepIs DEF StepKinds, Remember, upstream

\* A caller that cancels a flow in force cancels what the flow became.
LEMMA CancelHits ==
    ASSUME CodeInv, OneCaller, NEW c \in Callers, call[c] = Resting, NEW f \in Flows,
           f \in Sound, Pending(f), current[f] # 0
    PROVE  HandleOf(f) = current[f]
<1>t. BaseInv /\ LastMade(f) /\ Cached(f)
    BY DEF CodeInv, FlowInv
<1>1. request[f].state = "transitioned"
    BY DEF CodeInv, Moved, Pending
<1>2. made[current[f]].kind \in {"sas", "code"}
    BY <1>t, HandlesFound DEF Is, Kinds
<1>3. CASE made[current[f]].kind = "sas"
    <2>1. ComparisonOf(f) = current[f]
        BY <1>t, <1>1, <1>3 DEF ComparisonOf, Became, LastMade
    <2>2. QED
        BY <2>1 DEF HandleOf
<1>4. CASE made[current[f]].kind = "code"
    <2>1. comparison[f] = 0
        BY <1>t, <1>4 DEF LastMade, BaseInv, Handles, Is
    <2>2. ComparisonOf(f) = 0
        BY <1>4, <2>1 DEF ComparisonOf, Became
    <2>3. ~Remembered(f, current[f])
        BY DEF OneCaller, Remembered, Resting
    <2>4. code[f] = current[f]
        BY <1>t, <1>4, <2>3 DEF Cached
    <2>5. QED
        BY <2>2, <2>4 DEF HandleOf, CodeOf
<1>5. QED
    BY <1>2, <1>3, <1>4

\* A verification in force that turns stays in force.
LEMMA TurnStaysInForce ==
    ASSUME NEW o \in DOMAIN made, NEW to, Turned(o, to)
    PROVE  /\ made[o].state \notin Over /\ made'[o].state \notin Over
           /\ made'[o].state \in {"exchanged", "scanned", "confirmed"} \/ made[o].state = "offered"
           /\ made'[o].state # "offered"
BY DEF Turned, Turns, Over

\* Whatever happens elsewhere, flows keep in step with their records.
LEMMA ElsewhereFlow ==
    ASSUME CodeInv, OneCaller, Serene, Elsewhere, NEW g \in Flows
    PROVE  FlowInv(g)'
<1> SUFFICES ASSUME g \notin struck', g \in Drawable
             PROVE  InStep(g)' /\ LastMade(g)' /\ Cached(g)'
    BY DEF FlowInv, Sound
<1>t. BaseInv /\ TypeInv /\ UpTyped /\ Moved /\ Lasting
    BY ElsewhereLasts DEF CodeInv, BaseInv, TypeInv
<1>o. "cancelled" \in Over /\ "done" \in Over /\ "offered" \notin Over
    BY DEF Over
<1>m. current[g] # 0 => current[g] \in DOMAIN made /\ made[current[g]].flow = g
    BY <1>t, CurrentIsMade DEF BaseInv, Handles
<1>f. g \notin struck => InStep(g) /\ LastMade(g) /\ Cached(g) /\ g \in Sound
    BY DEF CodeInv, FlowInv, Sound
\* What a flow became goes on as it was.
<1>s. ASSUME struck' = struck, current'[g] = current[g],
             current[g] # 0 => \/ made'[current[g]].state = made[current[g]].state
                               \/ made'[current[g]].state \in Over
      PROVE  LastMade(g)' /\ Cached(g)'
    <2>1. g \in Sound
        BY <1>s, <1>f
    <2>2. current[g] # 0 /\ made'[current[g]].state \notin Over \cup {"offered"} =>
              made[current[g]].state \notin Over \cup {"offered"}
        BY <1>s
    <2>3. QED
        BY <1>s, <1>t, <2>1, <2>2, SereneFlow
<1>u. ASSUME struck' = struck, current'[g] = current[g], request'[g].state = request[g].state,
             current[g] # 0 => made'[current[g]].state = made[current[g]].state
      PROVE  InStep(g)' /\ LastMade(g)' /\ Cached(g)'
    BY <1>s, <1>u, <1>f DEF InStep, InForce
<1>1. CASE UNCHANGED <<request, made, current, struck>>
    BY <1>1, <1>u DEF upstream
<1>2. ASSUME NEW f \in Flows, Agrees(f)
      PROVE  InStep(g)' /\ LastMade(g)' /\ Cached(g)'
    <2>1. CASE g = f
        <3>1. current'[g] = 0 /\ current[g] = 0
            BY <1>2, <1>t, <2>1 DEF Agrees, Moved
        <3>2. QED
            BY <1>2, <1>s, <3>1 DEF Agrees, InStep
    <2>2. CASE g # f
        BY <1>2, <1>u, <2>2 DEF Agrees, Request
    <2>3. QED
        BY <2>1, <2>2
<1>3. ASSUME NEW f \in Flows, Finished(f)
      PROVE  InStep(g)' /\ LastMade(g)' /\ Cached(g)'
    <2>1. CASE g = f
        <3>1. current[g] # 0 => \/ made'[current[g]].state = made[current[g]].state
                                   /\ made[current[g]].state \in {"exchanged", "scanned"}
                                \/ made'[current[g]].state \in Over
            BY <1>3, <1>o, <2>1 DEF Finished
        <3>2. struck' = struck /\ current'[g] = current[g] /\ request'[g].state = "done"
            BY <1>3, <2>1 DEF Finished, Request
        <3>3. InStep(g)'
            BY <3>1, <3>2 DEF InStep, InForce
        <3>4. QED
            BY <1>s, <3>1, <3>2, <3>3
    <2>2. CASE g # f
        <3>1. current[g] # 0 => current[g] # current[f] \/ current[f] = 0
            BY <1>m, <1>t, <2>2, CurrentIsMade DEF BaseInv, Handles
        <3>2. current[g] # 0 => made'[current[g]].state = made[current[g]].state
            BY <1>3, <1>m, <3>1 DEF Finished
        <3>3. QED
            BY <1>3, <1>u, <2>2, <3>2 DEF Finished, Request
    <2>3. QED
        BY <2>1, <2>2
<1>4. ASSUME NEW f \in Flows, PeerStarts(f)
      PROVE  InStep(g)' /\ LastMade(g)' /\ Cached(g)'
    <2>1. /\ struck' = struck
          /\ \A o \in DOMAIN made : made'[o] = made[o]
          /\ \A h \in Flows \ {f} : current'[h] = current[h] /\ request'[h] = request[h]
        BY <1>4, <1>t, StartingDoes
    <2>2. CASE g # f
        BY <1>m, <1>u, <2>1, <2>2
    <2>3. CASE g = f
        <3>1. /\ current'[g] # 0 /\ request'[g].state = "transitioned"
              /\ made'[current'[g]].kind = "sas" /\ made'[current'[g]].state = "offered"
            BY <1>4, <1>t, <2>3, StartingDoes
        <3>2. InStep(g) /\ LastMade(g) /\ Cached(g)
            BY <1>f, <2>1
        <3>3. InStep(g)'
            BY <1>o, <3>1 DEF InStep, InForce
        <3>4. Cached(g)'
            BY <3>1 DEF Cached, InForce
        <3>5. current[g] # 0 => made[current[g]].kind = "code"
            BY <1>4, <1>t, <2>3 DEF PeerStarts, Became, Moved
        <3>6. comparison[g] = 0
            BY <1>t, <3>2, <3>5 DEF LastMade, BaseInv, Handles, Is
        <3>7. record' = record /\ call' = call
            BY <1>4 DEF PeerStarts, silent
        <3>8. ASSUME NEW d \in Callers, call[d].at = "remembering", call[d].flow = g
              PROVE  call[d].kind = "code"
            <4>1. Is(call[d].handle, g, call[d].kind)
                BY <1>t, <3>8 DEF BaseInv, Handles
            <4>2. current[g] # 0
                BY <1>t, <4>1 DEF BaseInv, Handles, Is
            <4>3. QED
                BY <3>2, <3>5, <3>8, <4>1, <4>2 DEF LastMade, Is
        <3>9. LastMade(g)'
            BY <3>1, <3>6, <3>7, <3>8 DEF LastMade, record
        <3>10. QED
            BY <3>3, <3>4, <3>9
    <2>4. QED
        BY <2>2, <2>3
<1>5. ASSUME NEW f \in Flows, NEW o \in Made, Cancels(f, o)
      PROVE  InStep(g)' /\ LastMade(g)' /\ Cached(g)'
    <2>1. o # 0 => o \in DOMAIN made /\ made[o].flow = f
        BY <1>5, <1>t, HandlesFound DEF Cancels, HandleOf, Is
    <2>2. struck' = struck /\ current' = current
        BY <1>5 DEF Cancels
    <2>3. current[g] # 0 => made'[current[g]].state =
              IF current[g] = o /\ InForce(o) THEN "cancelled" ELSE made[current[g]].state
        BY <1>5, <1>m DEF Cancels
    <2>4. CASE g # f
        <3>1. current[g] # 0 => current[g] # o
            BY <1>m, <2>1, <2>4
        <3>2. QED
            BY <1>5, <1>u, <2>2, <2>3, <2>4, <3>1 DEF Cancels, Request
    <2>5. CASE g = f
        <3>1. LastMade(g)' /\ Cached(g)'
            BY <1>s, <1>o, <2>2, <2>3
        <3>2. CASE Pending(f)
            <4>1. request'[g].state = "cancelled"
                BY <1>5, <2>5, <3>2 DEF Cancels, Request
            <4>2. current[g] # 0 => current[g] = o
                <5>1. g \in Sound
                    BY <1>f, <2>2
                <5>2. QED
                    BY <1>5, <2>5, <3>2, <5>1, CancelHits DEF Cancels
            <4>3. QED
                BY <1>o, <2>2, <2>3, <3>1, <4>1, <4>2 DEF InStep, InForce
        <3>3. CASE ~Pending(f)
            <4>1. request'[g].state = request[g].state
                BY <1>5, <2>5, <3>3 DEF Cancels, Request
            <4>2. InStep(g)'
                BY <1>f, <1>o, <2>2, <2>3, <2>5, <3>3, <4>1 DEF InStep, InForce, Pending
            <4>3. QED
                BY <3>1, <4>2
        <3>4. QED
            BY <3>2, <3>3
    <2>6. QED
        BY <2>4, <2>5
<1>6. ASSUME NEW f \in Flows, NEW entry \in Entries, Opens(f, entry)
      PROVE  InStep(g)' /\ LastMade(g)' /\ Cached(g)'
    <2> DEFINE rivals == RequestsBeside(f)
    <2>1. /\ rivals \subseteq Flows /\ current' = current
          /\ \A h \in Flows \ (rivals \cup {f}) : request'[h] = request[h]
          /\ struck' = IF rivals = {} THEN struck ELSE struck \cup rivals \cup {f}
        BY <1>6, <1>t, OpeningDoes DEF Opens
    <2>2. \A o \in DOMAIN made : \/ made'[o].state = made[o].state
                                 \/ o \in {current[h] : h \in rivals}
        BY <1>6, <1>t, OpeningDoes DEF Opens
    <2>3. g \notin rivals /\ (g = f => rivals = {}) /\ g \notin struck
        BY <2>1
    <2>4. current[g] # 0 => made'[current[g]].state = made[current[g]].state
        <3>1. ASSUME NEW h \in rivals, current[g] # 0, current[g] = current[h]
              PROVE  FALSE
            BY <1>m, <1>t, <2>1, <2>3, <3>1 DEF BaseInv, Handles
        <3>2. QED
            BY <1>m, <2>2, <3>1
    <2>5. current[f] = 0
        BY <1>6, <1>t DEF Opens, Moved
    <2>6. LastMade(g)' /\ Cached(g)'
        <3>1. g \in Sound
            BY <1>f, <2>3
        <3>2. QED
            BY <1>t, <2>1, <2>4, <3>1, SereneFlow
    <2>7. CASE g = f
        BY <2>1, <2>5, <2>6, <2>7 DEF InStep
    <2>8. CASE g # f
        <3>1. request'[g] = request[g]
            BY <2>1, <2>3, <2>8
        <3>2. QED
            BY <1>f, <2>1, <2>3, <2>4, <2>6, <3>1 DEF InStep, InForce
    <2>9. QED
        BY <2>7, <2>8
<1>7. ASSUME NEW o \in DOMAIN made, NEW to \in States, Turned(o, to)
      PROVE  InStep(g)' /\ LastMade(g)' /\ Cached(g)'
    <2>1. struck' = struck /\ current' = current /\ request' = request
        BY <1>7 DEF Turned
    <2>2. CASE current[g] # 0 /\ current[g] = o
        <3>1. /\ made[o].state \notin Over /\ made'[o].state \notin Over
              /\ made'[o].state \in {"exchanged", "scanned", "confirmed"} \/ made[o].state = "offered"
              /\ made'[o].state # "offered"
            BY <1>7, TurnStaysInForce
        <3>2. InStep(g) /\ g \in Sound
            BY <1>f, <2>1
        <3>3. InStep(g)'
            BY <2>1, <2>2, <3>1, <3>2 DEF InStep, InForce
        <3>4. made[o].state = "offered" => comparison'[g] = o
            BY <1>7, <1>m, <2>2 DEF Turned
        <3>5. QED
            BY <1>t, <2>1, <2>2, <3>1, <3>2, <3>3, <3>4, SereneFlow
    <2>3. CASE ~(current[g] # 0 /\ current[g] = o)
        BY <1>7, <1>m, <1>u, <2>1, <2>3 DEF Turned
    <2>4. QED
        BY <2>2, <2>3
<1>8. QED
    BY <1>1, <1>2, <1>3, <1>4, <1>5, <1>6, <1>7 DEF Elsewhere

\* What a call makes is the last thing made of its flow, and what was made of
\* another flow goes on or is struck.
LEMMA MakesFlow ==
    ASSUME CodeInv, OneCaller, NEW c \in Callers, NEW f \in Flows, NEW kind \in Kinds,
           NEW state \in States, Makes(c, f, kind, state), NEW g \in Flows
    PROVE  FlowInv(g)'
<1> SUFFICES ASSUME g \notin struck', g \in Drawable
             PROVE  InStep(g)' /\ LastMade(g)' /\ Cached(g)'
    BY DEF FlowInv, Sound
<1> DEFINE rivals == Rivals(f, kind)
           new == Len(made) + 1
           v == [at |-> "remembering", flow |-> f, kind |-> kind, handle |-> new]
<1>t. BaseInv /\ TypeInv /\ UpTyped /\ Moved /\ Insert(f, kind, state)
    BY DEF CodeInv, BaseInv, TypeInv, Makes
<1>1. struck' = IF rivals = {} THEN struck ELSE struck \cup Behind(rivals) \cup {f}
    BY <1>t, InsertDoes
<1>2. g \in Sound /\ InStep(g) /\ LastMade(g) /\ Cached(g)
    BY <1>1 DEF CodeInv, FlowInv, Sound
<1>3. /\ current[g] # 0 => /\ current[g] \in DOMAIN made /\ made[current[g]].flow = g
                           /\ made[current[g]].kind \in Kinds
      /\ UNCHANGED record
    BY <1>t, CurrentIsMade DEF BaseInv, Handles, Makes, Objects
<1>4. call' = [call EXCEPT ![c] = Resting] \/ call' = [call EXCEPT ![c] = v]
    BY DEF Makes
<1>5. CASE g # f
    <2>1. current'[g] = current[g]
        BY <1>t, <1>5, InsertDoes
    <2>2. g \notin Behind(rivals)
        BY <1>1, <1>t, InsertDoes DEF Behind
    <2>3. request'[g].state = request[g].state
        BY <1>t, <1>5, <2>2, InsertDoes
    <2>4. current[g] # 0 => /\ made'[current[g]].kind = made[current[g]].kind
                            /\ made'[current[g]].state = made[current[g]].state
        <3>1. current[g] # 0 => current[g] \notin rivals
            BY <1>3, <2>2 DEF Behind
        <3>2. QED
            BY <1>t, <1>3, <3>1, InsertDoes
    <2>5. \A d \in Callers :
             /\ call'[d].at = "remembering" /\ call'[d].flow = g => call'[d] = call[d]
             /\ call[d].at = "remembering" => call'[d] = call[d]
        BY <1>4, <1>5, <1>t DEF TypeInv, CallsTyped, Resting, Makes
    <2> HIDE DEF rivals, new, v
    <2>6. InStep(g)'
        BY <1>2, <2>1, <2>3, <2>4 DEF InStep, InForce
    <2>7. LastMade(g)'
        BY <1>2, <1>3, <2>1, <2>4, <2>5 DEF LastMade, record
    <2>8. Remembered(g, current[g]) => Remembered(g, current[g])'
        BY <2>1, <2>5 DEF Remembered
    <2>9. Cached(g)'
        BY <1>2, <1>3, <2>1, <2>4, <2>8 DEF Cached, InForce, record
    <2>10. QED
        BY <2>6, <2>7, <2>9
<1>6. CASE g = f
    <2>1. rivals = {}
        BY <1>1, <1>6
    <2>2. <<kind, state>> \in {<<"sas", "started">>, <<"code", "started">>,
                               <<"code", "reciprocated">>}
        BY DEF Makes
    <2>3. /\ current'[g] = new /\ new # 0 /\ made'[new].kind = kind
          /\ request'[g].state = "transitioned"
        BY <1>t, <1>6, InsertDoes
    <2>4. made'[new].state = state
        BY <1>t, <2>1, InsertDoes
    <2>5. state \notin Over
        BY <2>2 DEF Over
    <2>6. call' = [call EXCEPT ![c] = v]
        BY <1>6 DEF Makes
    <2>7. \A d \in Callers : call'[d] = v
        BY <1>t, <2>6 DEF OneCaller, TypeInv, CallsTyped
    <2>8. comparison[g] = 0
        <3>1. current[g] # 0 => made[current[g]].kind = "code"
            <4> SUFFICES ASSUME current[g] # 0, made[current[g]].kind = "sas"
                         PROVE  FALSE
                BY <1>3 DEF Kinds
            <4>1. request[g].state = "transitioned"
                BY <1>t, <1>6 DEF Makes, Moved
            <4>2. InForce(current[g])
                BY <1>2, <4>1 DEF InStep
            <4>3. current[g] \in rivals
                BY <4>2 DEF Rivals
            <4>4. QED
                BY <2>1, <4>3
        <3>2. QED
            BY <1>t, <1>2, <3>1 DEF LastMade, BaseInv, Handles, Is
    <2> HIDE DEF new, rivals
    <2>9. InStep(g)'
        BY <2>3, <2>4, <2>5 DEF InStep, InForce
    <2>10. LastMade(g)'
        BY <1>3, <2>3, <2>7, <2>8 DEF LastMade, record
    <2>11. Remembered(g, current[g])'
        BY <1>6, <2>3, <2>7 DEF Remembered
    <2>12. QED
        BY <2>9, <2>10, <2>11 DEF Cached
<1>7. QED
    BY <1>5, <1>6

\* A call remembers the last code or comparison of its flow, or a code a
\* comparison has replaced.
LEMMA RememberFlow ==
    ASSUME CodeInv, OneCaller, NEW c \in Callers, Remember(c), NEW g \in Flows
    PROVE  FlowInv(g)'
<1> DEFINE f == call[c].flow
           h == call[c].handle
<1>t. BaseInv /\ TypeInv
    BY DEF CodeInv, BaseInv
<1>1. UNCHANGED <<request, made, current, struck>> /\ call[c].at = "remembering"
    BY DEF Remember, upstream
<1> SUFFICES ASSUME g \in Sound, InStep(g), LastMade(g), Cached(g)
             PROVE  InStep(g)' /\ LastMade(g)' /\ Cached(g)'
    BY <1>1 DEF FlowInv, CodeInv, Sound
<1>2. f \in Flows /\ Is(h, f, call[c].kind) /\ call[c].kind \in Kinds /\ h \in Made
    BY <1>1, <1>t, CallHasFlow DEF BaseInv, Handles, Rememberings
<1>3. InStep(g)'
    BY <1>1 DEF InStep, InForce
<1>4. \A d \in Callers : call'[d] = Resting
    BY <1>t DEF Remember, OneCaller, TypeInv, CallsTyped
<1>5. \A d \in Callers : call'[d].at # "remembering"
    BY <1>4 DEF Resting
<1>6. Remembered(g, current[g]) => g = f /\ h = current[g]
    BY DEF Remembered, OneCaller
<1>7. g = f => \/ h = current[g]
               \/ call[c].kind = "code" /\ current[g] # 0 /\ made[current[g]].kind = "sas"
    BY <1>1 DEF LastMade
<1>8. /\ comparison'[g] = IF g = f /\ call[c].kind = "sas" THEN h ELSE comparison[g]
      /\ code'[g] = IF g = f /\ call[c].kind # "sas" THEN h ELSE code[g]
    BY <1>t DEF Remember, TypeInv, RecordTyped
<1>k. current[g] # 0 => made[current[g]].kind \in Kinds
    BY <1>t, HandlesFound DEF Is
<1> HIDE DEF f, h
<1>9. comparison'[g] \in {0, current[g]}
    BY <1>7, <1>8 DEF LastMade
<1>10. LastMade(g)'
    BY <1>1, <1>5, <1>9 DEF LastMade
<1>11. current[g] \in {comparison[g], code[g]} \/ Remembered(g, current[g]) =>
          current[g] = 0 \/ current[g] \in {comparison'[g], code'[g]}
    <2>1. CASE Remembered(g, current[g])
        BY <1>2, <1>6, <1>8, <2>1 DEF Kinds
    <2>2. CASE comparison[g] = current[g]
        BY <1>7, <1>8, <2>2
    <2>3. CASE code[g] = current[g] /\ current[g] # 0
        <3>1. made[current[g]].kind = "code"
            BY <1>t, <2>3 DEF BaseInv, Handles, Is
        <3>2. QED
            BY <1>7, <1>8, <2>3, <3>1
    <2>4. QED
        BY <2>1, <2>2, <2>3
<1>12. current[g] # 0 /\ made[current[g]].kind = "code" => code'[g] = current[g]
    <2>1. SUFFICES ASSUME current[g] # 0, made[current[g]].kind = "code"
                   PROVE  code'[g] = current[g]
        OBVIOUS
    <2>2. CASE code[g] = current[g]
        BY <1>7, <1>8, <2>1, <2>2
    <2>3. CASE Remembered(g, current[g])
        BY <1>2, <1>6, <1>8, <2>1, <2>3 DEF Is
    <2>4. QED
        BY <2>1, <2>2, <2>3 DEF Cached
<1>13. Cached(g)'
    BY <1>1, <1>11, <1>12 DEF Cached, InForce
<1>14. QED
    BY <1>3, <1>10, <1>13

\* Each kind of step keeps the flows in step with their records.
LEMMA CodeStep ==
    ASSUME CodeInv, OneCaller, [Next]_vars
    PROVE  CodeInv'
<1>1. BaseInv' /\ KindStates' /\ Moved'
    BY BaseStep, KindStatesStep, MovedStep DEF CodeInv
<1>2. StepKinds
    BY StepIs DEF CodeInv
<1>3. ASSUME NEW g \in Flows
      PROVE  FlowInv(g)'
    BY <1>2, ElsewhereFlow, MakesFlow, RememberFlow DEF StepKinds
<1>4. QED
    BY <1>1, <1>3 DEF CodeInv

\* No flow is anything yet.
LEMMA CodeInit == Init => CodeInv
<1> SUFFICES ASSUME Init
             PROVE  CodeInv
    OBVIOUS
<1>1. BaseInv /\ DOMAIN made = {}
    BY BaseInit, EmptySeq DEF Init
<1>2. KindStates /\ Moved
    BY <1>1 DEF Init, KindStates, Moved
<1>3. ASSUME NEW f \in Flows
      PROVE  InStep(f) /\ LastMade(f) /\ Cached(f)
    BY DEF Init, InStep, LastMade, Cached, Resting
<1>4. QED
    BY <1>1, <1>2, <1>3 DEF CodeInv, FlowInv

-----------------------------------------------------------------------------
(* What a product reads.                                                   *)

\* Between calls, what a flow in force became is what its record says.
LEMMA RecordHasCurrent ==
    ASSUME CodeInv, NEW f \in Sound, f \in Flows, ~Remembered(f, current[f]),
           current[f] # 0, InForce(current[f])
    PROVE  IF made[current[f]].kind = "sas"
           THEN ComparisonOf(f) = current[f]
           ELSE ComparisonOf(f) = 0 /\ CodeOf(f) = current[f]
<1>t. BaseInv /\ InStep(f) /\ LastMade(f) /\ Cached(f) /\ KindStates
    BY DEF CodeInv, FlowInv
<1>1. Is(current[f], f, made[current[f]].kind) /\ made[current[f]].kind \in Kinds
    BY <1>t, HandlesFound DEF Is
<1>2. CASE made[current[f]].kind = "sas"
    <2>1. comparison[f] = current[f] \/ request[f].state = "transitioned"
        <3>1. CASE made[current[f]].state = "offered"
            BY <1>t, <3>1 DEF InStep
        <3>2. CASE made[current[f]].state # "offered"
            <4>1. current[f] \in {comparison[f], code[f]}
                BY <1>t, <3>2 DEF Cached
            <4>2. code[f] # current[f]
                BY <1>t, <1>2 DEF BaseInv, Handles, Is
            <4>3. QED
                BY <4>1, <4>2
        <3>3. QED
            BY <3>1, <3>2
    <2>2. QED
        BY <1>t, <1>2, <2>1 DEF ComparisonOf, Became, LastMade
<1>3. CASE made[current[f]].kind = "code"
    <2>1. comparison[f] = 0
        BY <1>t, <1>3 DEF LastMade, BaseInv, Handles, Is
    <2>2. code[f] = current[f]
        BY <1>t, <1>3 DEF Cached
    <2>3. QED
        BY <1>3, <2>1, <2>2 DEF ComparisonOf, CodeOf, Became
<1>4. QED
    BY <1>1, <1>2, <1>3 DEF Kinds

\* A flow nothing was made of has no handles.
LEMMA NothingMade ==
    ASSUME CodeInv, NEW f \in Flows, current[f] = 0
    PROVE  ComparisonOf(f) = 0 /\ CodeOf(f) = 0 /\ comparison[f] = 0 /\ code[f] = 0
<1>1. comparison[f] = 0 /\ code[f] = 0
    BY DEF CodeInv, BaseInv, Handles, Is
<1>2. QED
    BY <1>1 DEF ComparisonOf, CodeOf

\* What is told of the material.
LEMMA MaterialIs ==
    ASSUME NEW f \in Flows
    PROVE  LET o == ComparisonOf(f) IN
           /\ ReadMaterial(f) = "ok" <=>
                 o # 0 /\ made[o].state = "exchanged"
           /\ ReadMaterial(f) = "MaterialNotReady" =>
                 o # 0 /\ made[o].state \in {"offered", "started"}
<1>1. {"MaterialNotReady", "WrongStage"} \subseteq MachineErrors
    BY DEF MachineErrors, FlowErrors
<1>2. /\ Told("ok") = "ok" /\ Told("MaterialNotReady") = "MaterialNotReady"
      /\ Told("WrongStage") = "WrongStage"
    BY <1>1, ToldIsSaid
<1>3. QED
    BY <1>2 DEF ReadMaterial

\* The invariant the runs check.
LEMMA StageFollows ==
    ASSUME CodeInv, SyncTyped
    PROVE  StageTellsLive
<1>1. TypeOK
    BY TypesSuffice DEF CodeInv, BaseInv
<1>2. ASSUME NEW f \in Drawable \ struck, Idle(f), LiveStage(f) \notin Over \cup {"absent"}
      PROVE  /\ VerificationStageOf(f) = LiveStage(f)
             /\ (ReadMaterial(f) = "ok") = (LiveStage(f) = "exchanged")
             /\ ReadMaterial(f) = "MaterialNotReady" =>
                    made[current[f]].state \in {"offered", "started"}
    <2>0. f \in Sound /\ f \in Flows
        BY DEF Sound, Drawable
    <2>t. BaseInv /\ UpTyped /\ KindStates /\ Moved
        BY DEF CodeInv, BaseInv, TypeInv
    <2>1. ~Remembered(f, current[f])
        <3>1. Resting.at # "remembering"
            BY DEF Resting
        <3>2. \A c \in Callers : call[c] = Resting \/ call[c].flow # f
            BY <1>2 DEF Idle
        <3>3. QED
            BY <3>1, <3>2 DEF Remembered
    <2>2. CASE current[f] = 0
        <3>1. ComparisonOf(f) = 0 /\ CodeOf(f) = 0
            BY <2>0, <2>2, NothingMade
        <3>2. Stage(f) = request[f].state /\ LiveStage(f) = request[f].state
            BY <2>2, <3>1 DEF Stage, LiveStage
        <3>3. request[f].state \in {"requested", "ready"}
            BY <1>2, <2>0, <2>t, <2>2, <3>2 DEF UpTyped, Entries, Moved, Over
        <3>4. VerificationStageOf(f) = Stage(f)
            BY <3>2, <3>3, WordsCross DEF VerificationStageOf, FlowStages
        <3>5. ReadMaterial(f) # "ok" /\ ReadMaterial(f) # "MaterialNotReady"
            BY <2>0, <3>1, MaterialIs
        <3>6. QED
            BY <3>2, <3>3, <3>4, <3>5
    <2>3. CASE current[f] # 0 /\ made[current[f]].kind = "sas"
        <3>1. LiveStage(f) = StageOfComparison(current[f])
            BY <2>3 DEF LiveStage
        <3>2. InForce(current[f])
            BY <1>2, <3>1 DEF StageOfComparison, InForce, Over
        <3>3. ComparisonOf(f) = current[f]
            BY <2>0, <2>1, <2>3, <3>2, RecordHasCurrent
        <3>4. Stage(f) = LiveStage(f)
            BY <2>3, <3>1, <3>3 DEF Stage
        <3>5. made[current[f]].state \in {"offered", "started", "exchanged", "confirmed"}
            BY <2>0, <2>t, <2>3, <3>2, CurrentIsMade DEF KindStates, InForce
        <3>6. VerificationStageOf(f) = Stage(f)
            BY <3>1, <3>4, <3>5, WordsCross DEF VerificationStageOf, StageOfComparison, FlowStages
        <3>7. LiveStage(f) = "exchanged" <=> made[current[f]].state = "exchanged"
            BY <3>1, <3>5 DEF StageOfComparison
        <3>8. QED
            BY <2>0, <2>3, <3>3, <3>4, <3>6, <3>7, MaterialIs
    <2>4. CASE current[f] # 0 /\ made[current[f]].kind # "sas"
        <3>1. LiveStage(f) = StageOfCode(current[f])
            BY <2>4 DEF LiveStage
        <3>2. InForce(current[f])
            BY <1>2, <3>1 DEF StageOfCode, InForce, Over
        <3>3. ComparisonOf(f) = 0 /\ CodeOf(f) = current[f]
            BY <2>0, <2>1, <2>4, <3>2, RecordHasCurrent
        <3>4. Stage(f) = LiveStage(f)
            BY <2>4, <3>1, <3>3 DEF Stage
        <3>5. made[current[f]].kind = "code"
            BY <2>0, <2>t, <2>4, HandlesFound DEF Is, Kinds
        <3>6. made[current[f]].state \in {"started", "scanned", "reciprocated", "confirmed"}
            BY <2>0, <2>t, <2>4, <3>2, <3>5, CurrentIsMade DEF KindStates, InForce
        <3>7. VerificationStageOf(f) = Stage(f)
            BY <3>1, <3>4, <3>6, WordsCross DEF VerificationStageOf, StageOfCode, FlowStages
        <3>8. LiveStage(f) # "exchanged"
            BY <3>1, <3>6 DEF StageOfCode
        <3>9. ReadMaterial(f) # "ok" /\ ReadMaterial(f) # "MaterialNotReady"
            BY <2>0, <3>3, MaterialIs
        <3>10. QED
            BY <3>4, <3>7, <3>8, <3>9
    <2>5. QED
        BY <2>2, <2>3, <2>4
<1>3. QED
    BY <1>1, <1>2 DEF StageTellsLive

\* The handles a record caches never hide what a flow in force has become: between
\* calls flow_stage, and the string read_material shows, are of the verification
\* upstream has current, also where the far side replaced a code by a comparison.
\* For a product that makes one call at a time.
THEOREM StageTellsLiveHolds ==
    ASSUME OneCaller
    PROVE  Spec => []StageTellsLive
<1>1. CodeInv /\ [Next]_vars => CodeInv'
    BY CodeStep
<1>2. QED
    BY <1>1, CodeInit, SyncInit, SyncStaysTyped, StageFollows, PTL DEF Spec

-----------------------------------------------------------------------------
(* Cancelling.                                                             *)

\* What cancel_flow said still holds: a flow it cancelled has nothing in force,
\* one it refused to cancel reads as over; and no call of its caller is in
\* progress.
CancelSettled ==
    \A c \in Callers : said[c].call = "cancel_flow" =>
        /\ call[c] = Resting
        /\ said[c].flow \in Sound =>
            /\ request[said[c].flow].state \in Over
            /\ IF said[c].answer = "ok"
               THEN current[said[c].flow] # 0 => ~InForce(current[said[c].flow])
               ELSE Stage(said[c].flow) \in Over

\* A flow that was struck stays so.
LEMMA StruckGrows ==
    ASSUME BaseInv, [Next]_vars
    PROVE  struck \subseteq struck'
<1>t. UpTyped
    BY DEF BaseInv, TypeInv
<1>1. ASSUME NEW f \in Flows, PeerStarts(f)
      PROVE  struck' = struck
    BY <1>1 DEF PeerStarts
<1>2. ASSUME NEW f \in Flows, NEW entry \in Entries, Opens(f, entry)
      PROVE  struck \subseteq struck'
    BY <1>2, <1>t, OpeningDoes DEF Opens
<1>3. Elsewhere => struck \subseteq struck'
    BY <1>1, <1>2 DEF Elsewhere, upstream, Agrees, Finished, Cancels, Turned
<1>4. ASSUME NEW c \in Callers, NEW f \in Flows, NEW kind \in Kinds, NEW state \in States,
             Makes(c, f, kind, state)
      PROVE  struck \subseteq struck'
    BY <1>4, <1>t, InsertDoes DEF Makes
<1>5. QED
    BY <1>3, <1>4, StepIs DEF StepKinds, Remember, upstream

\* A caller that was told how its cancelling went makes no other call without
\* forgetting it.
LEMMA ToldStays ==
    ASSUME BaseInv, CancelSettled, [Next]_vars, NEW c \in Callers,
           said'[c].call = "cancel_flow",
           ~\E f \in Flows : CancelFlow(c, f)
    PROVE  said'[c] = said[c] /\ call[c] = Resting /\ call'[c] = Resting
<1>t. /\ call \in [Callers -> {Resting} \cup Calls \cup Rememberings]
      /\ DOMAIN said = Callers
    BY DEF BaseInv, TypeInv, CallsTyped
<1>s. Silent.call # "cancel_flow"
    BY DEF Silent
<1>r. Resting.at = "idle" /\ (said[c].call = "cancel_flow" => call[c] = Resting)
    BY DEF Resting, CancelSettled
<1>1. ASSUME NEW d \in Callers, said' = [said EXCEPT ![d] = Silent],
             call' = call \/ \E v : call' = [call EXCEPT ![d] = v]
      PROVE  said'[c] = said[c] /\ call[c] = Resting /\ call'[c] = Resting
    <2>1. c # d
        BY <1>1, <1>s, <1>t
    <2>2. said'[c] = said[c] /\ call'[c] = call[c]
        BY <1>1, <1>t, <2>1
    <2>3. QED
        BY <1>r, <2>2
<1>2. ASSUME said' = said, call' = call
      PROVE  said'[c] = said[c] /\ call[c] = Resting /\ call'[c] = Resting
    BY <1>2, <1>r
<1>3. ASSUME NEW d \in Callers, NEW v, call[d].at # "idle", call' = [call EXCEPT ![d] = v],
             \/ said' = said
             \/ \E f, answer : \E name \in {"read_code", "submit_scanned_code"} :
                   Says(d, name, f, answer)
      PROVE  said'[c] = said[c] /\ call[c] = Resting /\ call'[c] = Resting
    <2>1. said'[c] = said[c]
        BY <1>3, <1>t DEF Says
    <2>2. d # c
        BY <1>3, <1>r, <2>1
    <2>3. QED
        BY <1>3, <1>r, <1>t, <2>1, <2>2
<1>4. ASSUME NEW f \in Flows, NEW d \in Callers,
             \/ AcceptFlow(d, f) \/ FlowStage(d, f) \/ ConfirmFlow(d, f) \/ ConfirmScan(d, f)
      PROVE  said' = [said EXCEPT ![d] = Silent] /\ call' = call
    BY <1>4 DEF AcceptFlow, FlowStage, ConfirmFlow, ConfirmScan, Passes
<1>5. ASSUME NEW f \in Flows, NEW d \in Callers,
             BeginComparison(d, f) \/ ReadCode(d, f) \/ SubmitScannedCode(d, f)
      PROVE  /\ said' = [said EXCEPT ![d] = Silent]
             /\ \E v : call' = [call EXCEPT ![d] = v]
    BY <1>5 DEF BeginComparison, ReadCode, SubmitScannedCode
<1>6. ASSUME NEW f \in Flows, NEW d \in Callers, CancelFlow(d, f)
      PROVE  said'[c] = said[c] /\ call[c] = Resting /\ call'[c] = Resting
    <2>1. d # c
        BY <1>6
    <2>2. said'[c] = said[c] /\ call' = call
        BY <1>6, <1>t, <2>1 DEF CancelFlow, Says
    <2>3. QED
        BY <1>r, <2>2
<1>7. ASSUME NEW d \in Callers,
             \/ StartSas(d) \/ Remember(d) \/ GenerateCode(d) \/ ScanCode(d)
             \/ \E error \in ScanFailures : RefuseScan(d, error)
      PROVE  said'[c] = said[c] /\ call[c] = Resting /\ call'[c] = Resting
    <2>1. CASE StartSas(d)
        BY <2>1, <1>3 DEF StartSas
    <2>2. CASE Remember(d)
        BY <2>2, <1>3 DEF Remember
    <2>3. CASE GenerateCode(d)
        BY <2>3, <1>3 DEF GenerateCode
    <2>4. CASE ScanCode(d)
        BY <2>4, <1>3 DEF ScanCode
    <2>5. ASSUME NEW error \in ScanFailures, RefuseScan(d, error)
          PROVE  said'[c] = said[c] /\ call[c] = Resting /\ call'[c] = Resting
        BY <2>5, <1>3 DEF RefuseScan
    <2>6. QED
        BY <1>7, <2>1, <2>2, <2>3, <2>4, <2>5
<1>8. ASSUME UNCHANGED silent \/ (UNCHANGED <<call, said>>)
      PROVE  said' = said /\ call' = call
    BY <1>8 DEF silent
<1>9. CASE UNCHANGED vars
    BY <1>2, <1>9 DEF vars
<1>10. ASSUME NEW f \in Flows,
              \/ RequestFlow(f)
              \/ \E methods \in Announcements[f] : PeerInvites(f, methods) \/ PeerAccepts(f, methods)
              \/ PeerStarts(f) \/ PeerExchanges(f) \/ PeerScans(f)
              \/ PeerFinishes(f) \/ PeerCancels(f)
       PROVE  said' = said /\ call' = call
    BY <1>8, <1>10 DEF RequestFlow, PeerInvites, PeerAccepts, PeerStarts, PeerExchanges,
                       PeerScans, PeerFinishes, PeerCancels
<1>11. ASSUME NEW halves \in Offers, OfferCodes(halves)
       PROVE  said' = said /\ call' = call
    BY <1>11 DEF OfferCodes
<1>12. BeginSync \/ EndSync => said' = said /\ call' = call
    BY <1>8 DEF BeginSync, EndSync
<1>13. QED
    BY <1>1, <1>2, <1>4, <1>5, <1>6, <1>7, <1>9, <1>10, <1>11, <1>12 DEF Next

\* Only a call for a flow cancels what its record reads.
LEMMA OverStaysRead ==
    ASSUME BaseInv, Serene, Lasting, NEW f \in Flows, request[f].state \in Over,
           Stage(f) \in Over
    PROVE  Stage(f)' \in Over
<1>t. TypeInv /\ "transitioned" \notin Over
    BY DEF BaseInv, Over
<1>1. ComparisonOf(f) = comparison[f] /\ CodeOf(f) = code[f]
    BY <1>t DEF ComparisonOf, CodeOf, Became
<1>2. comparison'[f] = comparison[f] /\ code'[f] = code[f]
    BY <1>t, <1>1, SereneKeeps
<1>3. request'[f].state \in Over
    BY DEF Lasting
<1>4. ComparisonOf(f)' = comparison[f] /\ CodeOf(f)' = code[f]
    BY <1>t, <1>2, <1>3 DEF ComparisonOf, CodeOf, Became
<1>5. /\ comparison[f] # 0 => comparison[f] \in DOMAIN made
      /\ code[f] # 0 => code[f] \in DOMAIN made
    BY DEF BaseInv, Handles, Is
<1>6. CASE comparison[f] # 0
    <2>1. made[comparison[f]].state \in Over
        BY <1>1, <1>6 DEF Stage, StageOfComparison, Over
    <2>2. made'[comparison[f]].state \in Over
        BY <1>5, <1>6, <2>1 DEF Lasting
    <2>3. QED
        BY <1>4, <1>6, <2>2 DEF Stage, StageOfComparison, Over
<1>7. CASE comparison[f] = 0 /\ code[f] # 0
    <2>1. made[code[f]].state \in Over
        BY <1>1, <1>7 DEF Stage, StageOfCode, Over
    <2>2. made'[code[f]].state \in Over
        BY <1>5, <1>7, <2>1 DEF Lasting
    <2>3. QED
        BY <1>4, <1>7, <2>2 DEF Stage, StageOfCode, Over
<1>8. CASE comparison[f] = 0 /\ code[f] = 0
    BY <1>3, <1>4, <1>8 DEF Stage
<1>9. QED
    BY <1>6, <1>7, <1>8

\* What cancel_flow leaves behind.
LEMMA CancelSettles ==
    ASSUME CodeInv, OneCaller, NEW c \in Callers, NEW f \in Flows, CancelFlow(c, f)
    PROVE  /\ call'[c] = Resting /\ said'[c].flow = f /\ struck' = struck
           /\ f \in Sound =>
                /\ request'[f].state \in Over
                /\ IF said'[c].answer = "ok"
                   THEN current'[f] # 0 => ~InForce(current[f])'
                   ELSE Stage(f)' \in Over
<1> DEFINE o == HandleOf(f)
           able == IF o # 0 THEN InForce(o) ELSE Pending(f)
<1>t. BaseInv /\ TypeInv /\ UpTyped /\ RecordTyped /\ CallsTyped
    BY DEF CodeInv, BaseInv, TypeInv
<1>1. /\ request[f].state # "absent" /\ call[c] = Resting /\ Look(f)
      /\ Says(c, "cancel_flow", f, IF able THEN "ok" ELSE "WrongStage")
      /\ current' = current /\ struck' = struck /\ call' = call
    BY DEF CancelFlow, HandleOf
<1>2. /\ ~able => made' = made /\ request' = request
      /\ able /\ o # 0 => CancelThrough(f, o)
      /\ able /\ o = 0 => made' = made /\ request' = [request EXCEPT ![f].state = "cancelled"]
    BY DEF CancelFlow, HandleOf
<1>3. said'[c].flow = f /\ (said'[c].answer = "ok" <=> able)
    <2>1. Told("ok") = "ok" /\ Told("WrongStage") = "WrongStage"
        BY ToldIsSaid DEF MachineErrors, FlowErrors
    <2>2. said'[c] = [call |-> "cancel_flow", flow |-> f,
                      answer |-> Told(IF able THEN "ok" ELSE "WrongStage")]
        BY <1>1, <1>t DEF Says, CallsTyped
    <2>3. QED
        BY <2>1, <2>2
<1>4. ~Remembered(f, current[f])
    BY <1>1 DEF OneCaller, Remembered, Resting
<1>5. ASSUME f \in Sound, current[f] # 0, InForce(current[f])
      PROVE  o = current[f]
    BY <1>4, <1>5, RecordHasCurrent DEF HandleOf
<1>6. ~Pending(f) => request[f].state \in Over
    BY <1>1, <1>t DEF UpTyped, Entries, Pending
<1>7. o # 0 => o \in DOMAIN made
    BY <1>t, HandlesFound DEF HandleOf, Is
<1>8. current[f] # 0 => current[f] \in DOMAIN made
    BY <1>t, CurrentIsMade
<1>o. "cancelled" \in Over /\ "transitioned" \notin Over
    BY DEF Over
<1> HIDE DEF o
<1>9. ASSUME able, o # 0, f \in Sound
      PROVE  request'[f].state \in Over /\ (current'[f] # 0 => ~InForce(current[f])')
    <2>1. CancelThrough(f, o)
        BY <1>2, <1>9
    <2>2. request'[f].state \in Over
        BY <2>1, <1>6, <1>o, <1>t DEF CancelThrough, UpTyped
    <2>3. \A i \in DOMAIN made :
             made'[i].state = IF i = o THEN "cancelled" ELSE made[i].state
        BY <2>1, <1>7, <1>9, <1>t, CurrentIsMade DEF CancelThrough, Cancelled, Objects
    <2>4. current[f] # 0 => made'[current[f]].state \in Over
        BY <1>5, <1>8, <1>9, <1>o, <2>3 DEF InForce
    <2>5. QED
        BY <1>1, <2>2, <2>4 DEF InForce
<1>10. ASSUME able, o = 0, f \in Sound
       PROVE  request'[f].state \in Over /\ (current'[f] # 0 => ~InForce(current[f])')
    <2>1. made' = made /\ request'[f].state = "cancelled"
        BY <1>2, <1>10, <1>t, RequestRestated DEF Request
    <2>2. QED
        BY <1>1, <1>5, <1>10, <1>o, <2>1 DEF InForce
<1>11. ASSUME ~able, f \in Sound
       PROVE  request'[f].state \in Over /\ Stage(f)' \in Over
    <2>1. made' = made /\ request' = request
        BY <1>2, <1>11
    <2>2. ~Pending(f)
        <3>1. SUFFICES ASSUME Pending(f)
                       PROVE  FALSE
            OBVIOUS
        <3>2. o # 0
            BY <1>11, <3>1
        <3>3. current[f] # 0
            BY <3>2, NothingMade DEF o, HandleOf
        <3>4. request[f].state = "transitioned" /\ InStep(f)
            BY <1>11, <3>1, <3>3 DEF CodeInv, Moved, Pending, FlowInv
        <3>5. InForce(current[f])
            BY <3>3, <3>4 DEF InStep
        <3>6. QED
            BY <1>5, <1>11, <3>2, <3>3, <3>5
    <2>3. request[f].state \in Over
        BY <1>6, <2>2
    <2>4. comparison'[f] = ComparisonOf(f) /\ code'[f] = CodeOf(f)
        BY <1>1, <1>t DEF Look, RecordTyped
    <2>5. ComparisonOf(f)' = comparison'[f] /\ CodeOf(f)' = code'[f]
        BY <1>o, <2>1, <2>3 DEF ComparisonOf, CodeOf, Became
    <2>6. /\ comparison'[f] # 0 => made'[comparison'[f]].state \in Over
          /\ comparison'[f] = 0 /\ code'[f] # 0 => made'[code'[f]].state \in Over
        BY <1>11, <2>1, <2>4 DEF o, HandleOf, InForce
    <2>7. CASE comparison'[f] # 0
        BY <2>3, <2>1, <2>5, <2>6, <2>7 DEF Stage, StageOfComparison, Over
    <2>8. CASE comparison'[f] = 0 /\ code'[f] # 0
        BY <2>3, <2>1, <2>5, <2>6, <2>8 DEF Stage, StageOfCode, Over
    <2>9. CASE comparison'[f] = 0 /\ code'[f] = 0
        BY <2>1, <2>3, <2>5, <2>9 DEF Stage
    <2>10. QED
        BY <2>1, <2>3, <2>7, <2>8, <2>9
<1>12. QED
    BY <1>1, <1>3, <1>9, <1>10, <1>11

\* Other steps leave a flow that is over as it reads.
LEMMA CancelSettledStep ==
    ASSUME CodeInv, OneCaller, CancelSettled, [Next]_vars
    PROVE  CancelSettled'
<1>t. BaseInv /\ TypeInv /\ UpTyped /\ CallsTyped
    BY DEF CodeInv, BaseInv, TypeInv
<1>1. ASSUME NEW c \in Callers, NEW f \in Flows, CancelFlow(c, f)
      PROVE  /\ call'[c] = Resting
             /\ said'[c].flow \in Sound' =>
                  /\ request'[said'[c].flow].state \in Over
                  /\ IF said'[c].answer = "ok"
                     THEN current'[said'[c].flow] # 0 => ~InForce(current[said[c].flow])'
                     ELSE Stage(said[c].flow)' \in Over
    <2>1. /\ call'[c] = Resting /\ said'[c].flow = f /\ struck' = struck
          /\ f \in Sound =>
               /\ request'[f].state \in Over
               /\ IF said'[c].answer = "ok"
                  THEN current'[f] # 0 => ~InForce(current[f])'
                  ELSE Stage(f)' \in Over
        BY <1>1, CancelSettles
    <2>2. f \in Sound' => f \in Sound
        BY <2>1 DEF Sound
    <2>3. Stage(said[c].flow)' = Stage(f)'
        BY <2>1 DEF Stage, ComparisonOf, CodeOf, Became
    <2>4. QED
        BY <2>1, <2>2, <2>3 DEF InForce
<1>2. ASSUME NEW c \in Callers, said'[c].call = "cancel_flow",
             ~\E f \in Flows : CancelFlow(c, f)
      PROVE  /\ call'[c] = Resting
             /\ said'[c].flow \in Sound' =>
                  /\ request'[said'[c].flow].state \in Over
                  /\ IF said'[c].answer = "ok"
                     THEN current'[said'[c].flow] # 0 => ~InForce(current[said[c].flow])'
                     ELSE Stage(said[c].flow)' \in Over
    <2>1. said'[c] = said[c] /\ call[c] = Resting /\ call'[c] = Resting
        BY <1>t, <1>2, ToldStays
    <2>p. said[c].flow \in Flows /\ said[c].call = "cancel_flow"
        BY <1>t, <1>2, <2>1 DEF CallsTyped, Endings, Silent
    <2>2. PICK f \in Flows : f = said[c].flow
        BY <2>p
    <2>3. SUFFICES ASSUME f \in Sound'
                   PROVE  /\ request'[f].state \in Over
                          /\ IF said[c].answer = "ok"
                             THEN current'[f] # 0 => ~InForce(current[f])'
                             ELSE Stage(f)' \in Over
        <3>1. said'[c].flow = f /\ said'[c].answer = said[c].answer
            BY <2>1, <2>2
        <3>2. Stage(said[c].flow)' = Stage(f)'
            BY <3>1 DEF Stage, ComparisonOf, CodeOf, Became
        <3>3. QED
            BY <2>1, <3>1, <3>2 DEF InForce
    <2>4. f \in Sound
        BY <1>t, <2>3, StruckGrows DEF Sound
    <2>5. /\ request[f].state \in Over
          /\ IF said[c].answer = "ok" THEN current[f] # 0 => ~InForce(current[f])
                                      ELSE Stage(f) \in Over
        BY <2>p, <2>2, <2>4 DEF CancelSettled
    <2>6. \A d \in Callers : call[d].at = "idle"
        BY <2>1 DEF OneCaller, Resting
    <2>7. Serene /\ Elsewhere
        BY <1>t, <2>6, StepIs DEF StepKinds, Remember, Makes
    <2>8. Lasting
        BY <1>t, <2>7, ElsewhereLasts
    <2>9. request'[f].state \in Over /\ current'[f] = current[f]
        BY <2>2, <2>5, <2>8 DEF Lasting
    <2>10. CASE said[c].answer = "ok"
        <3>1. current[f] # 0 => made[current[f]].state \in Over /\ current[f] \in DOMAIN made
            BY <1>t, <2>2, <2>5, <2>10, CurrentIsMade DEF InForce
        <3>2. current[f] # 0 => made'[current[f]].state \in Over
            BY <2>8, <3>1 DEF Lasting
        <3>3. QED
            BY <2>9, <2>10, <3>2 DEF InForce
    <2>11. CASE said[c].answer # "ok"
        BY <1>t, <2>2, <2>5, <2>7, <2>8, <2>9, <2>11, OverStaysRead
    <2>12. QED
        BY <2>10, <2>11
<1>3. QED
    BY <1>1, <1>2 DEF CancelSettled

\* What is over is told as it is.
LEMMA CancelFollows ==
    ASSUME CodeInv, CancelSettled
    PROVE  CancelHonest
<1> SUFFICES ASSUME NEW c \in Callers, said[c].call = "cancel_flow",
                    said[c].flow \in Drawable \ struck
             PROVE  IF said[c].answer = "ok"
                    THEN /\ ~Pending(said[c].flow)
                         /\ current[said[c].flow] # 0 => ~InForce(current[said[c].flow])
                    ELSE VerificationStageOf(said[c].flow) \in Over
    BY DEF CancelHonest
<1>1. /\ request[said[c].flow].state \in Over
      /\ IF said[c].answer = "ok"
         THEN current[said[c].flow] # 0 => ~InForce(current[said[c].flow])
         ELSE Stage(said[c].flow) \in Over
    BY DEF CancelSettled, Sound
<1>2. Over \subseteq FlowStages
    BY DEF Over, FlowStages
<1>3. \A w \in Over : StageRead[w] = w
    BY <1>2, WordsCross
<1>4. ~Pending(said[c].flow)
    BY <1>1 DEF Pending, Over
<1>5. QED
    BY <1>1, <1>3, <1>4 DEF VerificationStageOf

\* cancel_flow says what happened: accepted, it leaves nothing of the flow live
\* upstream; refused, the flow read as over already, and still does.  For a product
\* that makes one call at a time.
THEOREM CancelHonestHolds ==
    ASSUME OneCaller
    PROVE  Spec => []CancelHonest
<1>1. Init => CancelSettled
    BY DEF Init, CancelSettled, Silent
<1>2. CodeInv /\ CancelSettled /\ [Next]_vars => CodeInv' /\ CancelSettled'
    BY CodeStep, CancelSettledStep
<1>3. CodeInv /\ CancelSettled => CancelHonest
    BY CancelFollows
<1>4. QED
    BY <1>1, <1>2, <1>3, CodeInit, PTL DEF Spec

-----------------------------------------------------------------------------
(* Why there is no code.                                                   *)

\* What both sides said they can do is settled with the acceptance.
Settled(f) == request[f].state \notin {"absent", "requested"}

\* From then on neither side's methods change.
LEMMA MethodsLast ==
    ASSUME BaseInv, [Next]_vars, NEW f \in Flows, Settled(f)
    PROVE  /\ Settled(f)' /\ request'[f].ours = request[f].ours
           /\ request'[f].theirs = request[f].theirs
<1>t. TypeInv /\ UpTyped
    BY DEF BaseInv, TypeInv
<1>1. CASE UNCHANGED request
    BY <1>1 DEF Settled
<1>2. ASSUME NEW g \in Flows, Agrees(g)
      PROVE  request'[f] = request[f]
    BY <1>2 DEF Agrees, Request, Settled
<1>3. ASSUME NEW g \in Flows, Finished(g)
      PROVE  /\ request'[f].state \in {request[f].state, "done"}
             /\ request'[f].ours = request[f].ours /\ request'[f].theirs = request[f].theirs
    BY <1>3 DEF Finished, Request
<1>4. ASSUME NEW g \in Flows, PeerStarts(g)
      PROVE  /\ request'[f].state \in {request[f].state, "transitioned"}
             /\ request'[f].ours = request[f].ours /\ request'[f].theirs = request[f].theirs
    <2>1. /\ request'[g].state = "transitioned"
          /\ \A h \in Flows \ {g} : request'[h] = request[h]
          /\ \A h \in Flows : request'[h].ours = request[h].ours
                              /\ request'[h].theirs = request[h].theirs
        BY <1>4, <1>t, StartingDoes
    <2>2. QED
        BY <2>1
<1>5. ASSUME NEW g \in Flows, NEW o \in Made, Cancels(g, o)
      PROVE  /\ request'[f].state \in {request[f].state, "cancelled"}
             /\ request'[f].ours = request[f].ours /\ request'[f].theirs = request[f].theirs
    BY <1>5 DEF Cancels, Request
<1>6. ASSUME NEW g \in Flows, NEW entry \in Entries, Opens(g, entry)
      PROVE  /\ request'[f].state \in {request[f].state, "cancelled"}
             /\ request'[f].ours = request[f].ours /\ request'[f].theirs = request[f].theirs
    <2>1. g # f
        BY <1>6 DEF Opens, Settled
    <2>2. request'[f].ours = request[f].ours /\ request'[f].theirs = request[f].theirs
        BY <1>6, <1>t, <2>1, OpeningDoes DEF Opens
    <2>3. /\ \A h \in RequestsBeside(g) : request'[h].state \in {request[h].state, "cancelled"}
          /\ \A h \in Flows \ (RequestsBeside(g) \cup {g}) : request'[h] = request[h]
        BY <1>6, <1>t, OpeningDoes DEF Opens
    <2>4. QED
        BY <2>1, <2>2, <2>3
<1>7. ASSUME NEW c \in Callers, NEW g \in Flows, NEW kind \in Kinds, NEW state \in States,
             Makes(c, g, kind, state)
      PROVE  /\ request'[f].state \in {request[f].state, "cancelled", "transitioned"}
             /\ request'[f].ours = request[f].ours /\ request'[f].theirs = request[f].theirs
    <2>1. Insert(g, kind, state)
        BY <1>7 DEF Makes
    <2>2. request'[f].ours = request[f].ours /\ request'[f].theirs = request[f].theirs
        BY <1>t, <2>1, InsertDoes
    <2>3. /\ request'[g].state = "transitioned"
          /\ \A h \in Flows \ {g} : request'[h].state \in {request[h].state, "cancelled"}
        BY <1>t, <2>1, InsertDoes
    <2>4. QED
        BY <2>2, <2>3
<1>8. ASSUME NEW o \in DOMAIN made, NEW to \in States, Turned(o, to)
      PROVE  UNCHANGED request
    BY <1>8 DEF Turned
<1>9. Elsewhere => /\ Settled(f)' /\ request'[f].ours = request[f].ours
                   /\ request'[f].theirs = request[f].theirs
    BY <1>1, <1>2, <1>3, <1>4, <1>5, <1>6, <1>8 DEF Elsewhere, upstream, Settled
<1>10. QED
    BY <1>1, <1>7, <1>9, StepIs DEF StepKinds, Remember, upstream, Settled

\* What is remembered of a negotiation is what was settled; a flow that was looked
\* at while it was ready is remembered; and the call for a code took along what is.
Negotiated ==
    /\ \A f \in Flows : negotiation[f] # Unknown => Settled(f) /\ negotiation[f] = Halved(f)
    /\ \A f \in looked : negotiation[f] # Unknown
    /\ \A c \in Callers :
          call[c].at = "generating" => call[c].remembered = negotiation[call[c].flow]

\* A look remembers the settled.
LEMMA LookNegotiates ==
    ASSUME BaseInv, Negotiated, NEW f \in Flows, Look(f)
    PROVE  /\ \A g \in Flows \ {f} : negotiation'[g] = negotiation[g]
           /\ negotiation'[f] = NegotiationOf(f)
           /\ NegotiationOf(f) = negotiation[f] \/ negotiation[f] = Unknown
           /\ NegotiationOf(f) # Unknown => Settled(f) /\ NegotiationOf(f) = Halved(f)
           /\ \A g \in looked' : negotiation'[g] # Unknown
<1>1. negotiation \in [Flows -> (SUBSET Halves) \cup {Unknown}] /\ looked \subseteq Flows
    BY DEF BaseInv, TypeInv, RecordTyped
<1>2. /\ \A g \in Flows \ {f} : negotiation'[g] = negotiation[g]
      /\ negotiation'[f] = NegotiationOf(f)
      /\ looked' = IF request[f].state = "ready" THEN looked \cup {f} ELSE looked
    BY <1>1 DEF Look
<1>3. Halved(f) # Unknown
    BY DEF Halved, Halves, Unknown
<1>4. NegotiationOf(f) = negotiation[f] \/ negotiation[f] = Unknown
    BY DEF NegotiationOf
<1>5. NegotiationOf(f) # Unknown => Settled(f) /\ NegotiationOf(f) = Halved(f)
    BY DEF NegotiationOf, Negotiated, Settled
<1>6. /\ request[f].state = "ready" => NegotiationOf(f) # Unknown
      /\ negotiation[f] # Unknown => NegotiationOf(f) # Unknown
    BY <1>3 DEF NegotiationOf
<1>7. \A g \in looked' : negotiation'[g] # Unknown
    BY <1>1, <1>2, <1>6 DEF Negotiated
<1>8. QED
    BY <1>2, <1>4, <1>5, <1>7

\* Only a call that begins looks; one that goes on begins nothing.
LEMMA LookingIs ==
    ASSUME BaseInv, [Next]_vars
    PROVE  \/ /\ negotiation' = negotiation /\ looked' = looked
              /\ \A c \in Callers : call'[c].at = "generating" => call'[c] = call[c]
           \/ \E c \in Callers, f \in Flows :
                /\ call[c] = Resting /\ Look(f)
                /\ call'[c].at = "generating" =>
                      call'[c].flow = f /\ call'[c].remembered = NegotiationOf(f)
<1> DEFINE Stays == /\ negotiation' = negotiation /\ looked' = looked
                    /\ \A c \in Callers : call'[c].at = "generating" => call'[c] = call[c]
           Begins(c, f) == /\ call[c] = Resting /\ Look(f)
                           /\ call'[c].at = "generating" =>
                                 call'[c].flow = f /\ call'[c].remembered = NegotiationOf(f)
<1>t. call \in [Callers -> {Resting} \cup Calls \cup Rememberings]
    BY DEF BaseInv, TypeInv, CallsTyped
<1>r. Resting.at = "idle"
    BY DEF Resting
<1>1. CASE UNCHANGED <<record, call>>
    BY <1>1 DEF record
<1>2. ASSUME NEW f \in Flows, NEW c \in Callers,
             \/ AcceptFlow(c, f) \/ FlowStage(c, f) \/ ConfirmFlow(c, f) \/ ConfirmScan(c, f)
      PROVE  Begins(c, f)
    <2>1. Passes(c, f)
        BY <1>2 DEF AcceptFlow, FlowStage, ConfirmFlow, ConfirmScan
    <2>2. call[c] = Resting /\ Look(f) /\ call' = call
        BY <2>1 DEF Passes
    <2>3. QED
        BY <1>r, <2>2
<1>3. ASSUME NEW f \in Flows, NEW c \in Callers, BeginComparison(c, f)
      PROVE  Begins(c, f)
    BY <1>3, <1>t DEF BeginComparison
<1>4. ASSUME NEW f \in Flows, NEW c \in Callers, SubmitScannedCode(c, f)
      PROVE  Begins(c, f)
    BY <1>4, <1>t DEF SubmitScannedCode
<1>5. ASSUME NEW f \in Flows, NEW c \in Callers, ReadCode(c, f)
      PROVE  Begins(c, f)
    BY <1>5, <1>t DEF ReadCode
<1>6. ASSUME NEW f \in Flows, NEW c \in Callers, CancelFlow(c, f)
      PROVE  Begins(c, f)
    <2>1. call[c] = Resting /\ Look(f) /\ call' = call
        BY <1>6 DEF CancelFlow
    <2>2. QED
        BY <1>r, <2>1
<1>7. ASSUME NEW c \in Callers, NEW v, v.at # "generating", call' = [call EXCEPT ![c] = v],
             UNCHANGED <<negotiation, looked>>
      PROVE  Stays
    BY <1>7, <1>t
<1>8. ASSUME NEW c \in Callers,
             \/ StartSas(c) \/ Remember(c) \/ GenerateCode(c) \/ ScanCode(c)
             \/ \E error \in ScanFailures : RefuseScan(c, error)
      PROVE  Stays
    <2>1. CASE StartSas(c)
        BY <2>1, <1>7, <1>r DEF StartSas, record
    <2>2. CASE Remember(c)
        BY <2>2, <1>7, <1>r DEF Remember
    <2>3. CASE GenerateCode(c)
        BY <2>3, <1>7, <1>r DEF GenerateCode, record
    <2>4. CASE ScanCode(c)
        BY <2>4, <1>7, <1>r DEF ScanCode, record
    <2>5. ASSUME NEW error \in ScanFailures, RefuseScan(c, error)
          PROVE  Stays
        BY <2>5, <1>7, <1>r DEF RefuseScan, record
    <2>6. QED
        BY <1>8, <2>1, <2>2, <2>3, <2>4, <2>5
<1>9. ASSUME NEW f \in Flows,
             \/ RequestFlow(f)
             \/ \E methods \in Announcements[f] : PeerInvites(f, methods) \/ PeerAccepts(f, methods)
             \/ PeerStarts(f) \/ PeerExchanges(f) \/ PeerScans(f)
             \/ PeerFinishes(f) \/ PeerCancels(f)
      PROVE  UNCHANGED <<record, call>>
    BY <1>9 DEF RequestFlow, PeerInvites, PeerAccepts, PeerStarts, PeerExchanges,
                PeerScans, PeerFinishes, PeerCancels, silent
<1>10. ASSUME NEW halves \in Offers, OfferCodes(halves)
       PROVE  UNCHANGED <<record, call>>
    BY <1>10 DEF OfferCodes
<1>11. CASE UNCHANGED vars
    BY <1>1, <1>11 DEF vars
<1>s. CASE BeginSync \/ EndSync
    BY <1>1, <1>s DEF BeginSync, EndSync, silent
<1>12. Stays \/ \E c \in Callers, f \in Flows : Begins(c, f)
    BY <1>1, <1>2, <1>3, <1>4, <1>5, <1>6, <1>8, <1>9, <1>10, <1>11, <1>s DEF Next
<1>13. QED
    BY <1>12

\* What is remembered of negotiations is kept.
LEMMA NegotiatedStep ==
    ASSUME BaseInv, OneCaller, Negotiated, [Next]_vars
    PROVE  Negotiated'
<1>1. ASSUME NEW g \in Flows, Settled(g)
      PROVE  Settled(g)' /\ Halved(g)' = Halved(g)
    BY <1>1, MethodsLast DEF Halved
<1>2. CASE /\ negotiation' = negotiation /\ looked' = looked
           /\ \A c \in Callers : call'[c].at = "generating" => call'[c] = call[c]
    <2>1. \A f \in Flows : negotiation'[f] # Unknown => Settled(f)' /\ negotiation'[f] = Halved(f)'
        BY <1>1, <1>2 DEF Negotiated
    <2>2. \A c \in Callers :
             call'[c].at = "generating" => call'[c].remembered = negotiation'[call'[c].flow]
        BY <1>2 DEF Negotiated
    <2>3. QED
        BY <1>2, <2>1, <2>2 DEF Negotiated
<1>3. ASSUME NEW c \in Callers, NEW f \in Flows, call[c] = Resting, Look(f),
             call'[c].at = "generating" =>
                call'[c].flow = f /\ call'[c].remembered = NegotiationOf(f)
      PROVE  Negotiated'
    <2>1. /\ \A g \in Flows \ {f} : negotiation'[g] = negotiation[g]
          /\ negotiation'[f] = NegotiationOf(f)
          /\ NegotiationOf(f) # Unknown => Settled(f) /\ NegotiationOf(f) = Halved(f)
          /\ \A g \in looked' : negotiation'[g] # Unknown
        BY <1>3, LookNegotiates
    <2>2. \A g \in Flows : negotiation'[g] # Unknown => Settled(g)' /\ negotiation'[g] = Halved(g)'
        BY <1>1, <2>1 DEF Negotiated
    <2>3. \A d \in Callers :
             call'[d].at = "generating" => call'[d].remembered = negotiation'[call'[d].flow]
        BY <1>3, <2>1 DEF OneCaller
    <2>4. QED
        BY <2>1, <2>2, <2>3 DEF Negotiated
<1>4. QED
    BY <1>2, <1>3, LookingIs

\* Asked of what was settled, upstream's questions have the answer they have when
\* everything is known.
LEMMA CauseIs ==
    ASSUME Negotiated, NEW f \in Flows,
           f \in looked \/ request[f].state # "transitioned"
    PROVE  WhyNoCode(f, negotiation[f]) = Cause(f)
<1>1. Halves # Unknown /\ Halved(f) # Unknown /\ "show" \in Halves /\ "scan" \in Halves
    BY DEF Halves, Unknown, Halved
<1>2. /\ "show" \in Halved(f) <=> "show" \in request[f].ours
      /\ "scan" \in Halved(f) <=> "scan" \in request[f].theirs
    BY DEF Halves, Halved
<1>3. CASE request[f].state \notin {"ready", "transitioned"}
    BY <1>3 DEF WhyNoCode, Cause
<1>4. CASE request[f].state \in {"ready", "transitioned"}
    <2>1. request[f].state = "ready" \/ negotiation[f] = Halved(f)
        BY <1>4 DEF Negotiated
    <2>2. CASE "show" \notin Halved(f)
        BY <1>1, <1>2, <1>4, <2>1, <2>2 DEF WhyNoCode, Cause
    <2>3. CASE "show" \in Halved(f) /\ "scan" \notin Halved(f)
        BY <1>1, <1>2, <1>4, <2>1, <2>3 DEF WhyNoCode, Cause
    <2>4. CASE "show" \in Halved(f) /\ "scan" \in Halved(f)
        BY <1>1, <1>2, <1>4, <2>1, <2>4 DEF WhyNoCode, Cause
    <2>5. QED
        BY <2>2, <2>3, <2>4
<1>5. QED
    BY <1>3, <1>4

\* Only upstream, asked for a code it does not build, has read_code refused.
LEMMA RefusalIs ==
    ASSUME BaseInv, [Next]_vars, NEW c \in Callers, said'[c] # said[c],
           said'[c].call = "read_code"
    PROVE  /\ call[c].at = "generating"
           /\ Says(c, "read_code", call[c].flow, WhyNoCode(call[c].flow, call[c].remembered))
<1>t. DOMAIN said = Callers
    BY DEF BaseInv, TypeInv, CallsTyped
<1>s. Silent.call # "read_code"
    BY DEF Silent
<1>1. ASSUME NEW d \in Callers, said' = [said EXCEPT ![d] = Silent]
      PROVE  FALSE
    BY <1>1, <1>s, <1>t
<1>2. ASSUME NEW d \in Callers, NEW f, NEW answer, NEW name, Says(d, name, f, answer)
      PROVE  name = "read_code" /\ d = c
    BY <1>2, <1>t DEF Says
<1>3. ASSUME NEW f \in Flows, NEW d \in Callers
      PROVE  /\ ~AcceptFlow(d, f) /\ ~FlowStage(d, f) /\ ~ConfirmFlow(d, f)
             /\ ~ConfirmScan(d, f) /\ ~BeginComparison(d, f) /\ ~ReadCode(d, f)
             /\ ~SubmitScannedCode(d, f)
    BY <1>1 DEF AcceptFlow, FlowStage, ConfirmFlow, ConfirmScan, Passes, BeginComparison,
                ReadCode, SubmitScannedCode
<1>4. ASSUME NEW f \in Flows, NEW d \in Callers
      PROVE  ~CancelFlow(d, f)
    BY <1>2 DEF CancelFlow
<1>5. ASSUME NEW d \in Callers
      PROVE  /\ ~StartSas(d) /\ ~Remember(d) /\ ~ScanCode(d)
             /\ \A error \in ScanFailures : ~RefuseScan(d, error)
    BY <1>2 DEF StartSas, Remember, ScanCode, RefuseScan
<1>6. ASSUME NEW f \in Flows
      PROVE  /\ ~RequestFlow(f) /\ ~PeerStarts(f) /\ ~PeerExchanges(f) /\ ~PeerScans(f)
             /\ ~PeerFinishes(f) /\ ~PeerCancels(f)
             /\ \A methods \in Announcements[f] : ~PeerInvites(f, methods) /\ ~PeerAccepts(f, methods)
    BY DEF RequestFlow, PeerInvites, PeerAccepts, PeerStarts, PeerExchanges,
           PeerScans, PeerFinishes, PeerCancels, silent
<1>7. ~BeginSync /\ ~EndSync /\ \A halves \in Offers : ~OfferCodes(halves)
    BY DEF OfferCodes, BeginSync, EndSync, silent
<1>8. ~UNCHANGED vars
    BY DEF vars
<1>9. PICK d \in Callers : GenerateCode(d)
    BY <1>3, <1>4, <1>5, <1>6, <1>7, <1>8 DEF Next
<1>10. ~Buildable(call[d].flow)
    BY <1>9 DEF GenerateCode
<1>11. /\ call[d].at = "generating"
       /\ Says(d, "read_code", call[d].flow, WhyNoCode(call[d].flow, call[d].remembered))
    BY <1>9, <1>10 DEF GenerateCode
<1>12. d = c
    BY <1>2, <1>11
<1>13. QED
    BY <1>11, <1>12

\* The answer it gives is the cause.
LEMMA RefusalStep ==
    ASSUME BaseInv, Negotiated, [Next]_vars, NEW c \in Callers, said'[c] # said[c],
           said'[c].call = "read_code",
           said'[c].flow \in looked \/ request[said'[c].flow].state # "transitioned"
    PROVE  said'[c].answer = Cause(said'[c].flow)
<1> DEFINE f == call[c].flow
           why == WhyNoCode(f, call[c].remembered)
<1>1. call[c].at = "generating" /\ Says(c, "read_code", f, why)
    BY RefusalIs
<1>2. f \in Flows
    BY <1>1, CallHasFlow DEF BaseInv
<1>3. Told(why) = why
    BY RefusalsAreErrors, ToldIsSaid
<1> HIDE DEF why
<1>4. said'[c].flow = f /\ said'[c].answer = why
    BY <1>1, <1>3 DEF Says, BaseInv, TypeInv, CallsTyped
<1>5. why = WhyNoCode(f, negotiation[f])
    BY <1>1 DEF why, Negotiated
<1>6. WhyNoCode(f, negotiation[f]) = Cause(f)
    BY <1>2, <1>4, CauseIs
<1>7. QED
    BY <1>4, <1>5, <1>6

\* read_code names what really stands in the way, whatever the flow became between
\* the moment some call saw it ready and the moment upstream is asked: what was
\* remembered then is still what both sides said.  For a product that makes one
\* call at a time: between the trips of one, another may be the first to look.
THEOREM RefusalNamesCauseHolds ==
    ASSUME OneCaller
    PROVE  Spec => RefusalNamesCause
<1>1. Init => Negotiated
    BY DEF Init, Negotiated, Resting
<1>2. BaseInv /\ Negotiated /\ [Next]_vars => BaseInv' /\ Negotiated'
    BY BaseStep, NegotiatedStep
<1>3. BaseInv /\ Negotiated /\ [Next]_vars =>
        [\A c \in Callers :
            LET last == said'[c] IN
            last # said[c] /\ last.call = "read_code" /\
            (last.flow \in looked \/ request[last.flow].state # "transitioned")
                => last.answer = Cause(last.flow)]_vars
    BY RefusalStep
<1>4. QED
    BY <1>1, <1>2, <1>3, BaseInit, PTL DEF Spec, RefusalNamesCause

-----------------------------------------------------------------------------
(* What dies on arrival.                                                   *)

\* While what a flow became is a code, the one its record has is in force, be it
\* an earlier one.
OldCode(g) ==
    g \in Sound /\ request[g].state = "transitioned" /\ made[current[g]].kind = "code"
        /\ code[g] # 0 => InForce(code[g])

\* A second code does not follow a first that is over: the request is over with it.
LEMMA OldCodeStep ==
    ASSUME CodeInv, OneCaller, [Next]_vars, NEW g \in Flows, OldCode(g)
    PROVE  OldCode(g)'
<1>t. BaseInv /\ TypeInv /\ UpTyped /\ Moved
    BY DEF CodeInv, BaseInv, TypeInv
<1>1. SUFFICES ASSUME g \in Drawable, g \notin struck', request'[g].state = "transitioned",
                      made'[current'[g]].kind = "code", code'[g] # 0
               PROVE  made'[code'[g]].state \notin Over
    BY DEF OldCode, Sound, InForce
<1>2. made'[current'[g]].state \notin Over
    <2>1. CodeInv'
        BY CodeStep
    <2>2. current'[g] # 0 /\ InStep(g)'
        BY <1>1, <2>1 DEF CodeInv, Moved, FlowInv, Sound
    <2>3. QED
        BY <1>1, <2>2 DEF InStep, InForce
<1>3. SUFFICES ASSUME code'[g] # current'[g]
               PROVE  made'[code'[g]].state \notin Over
    BY <1>2
<1>4. g \in Sound /\ InStep(g) /\ LastMade(g)
    BY <1>1, <1>t, StruckGrows DEF CodeInv, FlowInv, Sound
<1>5. code[g] # 0 => /\ code[g] \in DOMAIN made /\ made[code[g]].flow = g
                     /\ made[code[g]].kind = "code"
    BY <1>t DEF BaseInv, Handles, Is
<1>6. \A h \in Flows : current[h] # 0 => /\ current[h] \in DOMAIN made
                                         /\ made[current[h]].flow = h
    BY <1>t, CurrentIsMade DEF BaseInv, Handles
\* A flow that goes on as it was, with the code its record had.
<1>7. ASSUME code'[g] = code[g], request[g].state = "transitioned",
             current'[g] = current[g], Lasting,
             made'[code[g]].state = made[code[g]].state \/ made'[code[g]].state \notin Over
      PROVE  made'[code'[g]].state \notin Over
    <2>1. made[current[g]].kind = "code"
        BY <1>1, <1>6, <1>7, <1>t DEF Lasting, Moved
    <2>2. QED
        BY <1>1, <1>4, <1>7, <2>1 DEF OldCode, InForce
<1>8. CASE Serene /\ Elsewhere
    <2>l. Lasting
        BY <1>8, <1>t, ElsewhereLasts
    <2>1. ASSUME current'[g] = current[g]
          PROVE  code'[g] = code[g]
        <3>1. code'[g] \in {code[g], CodeOf(g)} /\ CodeOf(g) \in {code[g], current[g]}
            BY <1>8, <1>t, SereneKeeps DEF CodeOf
        <3>2. QED
            BY <1>3, <2>1, <3>1
    <2>2. CASE UNCHANGED <<request, made, current, struck>>
        BY <1>1, <1>7, <2>l, <2>1, <2>2 DEF upstream
    <2>3. ASSUME NEW f \in Flows, Agrees(f)
          PROVE  made'[code'[g]].state \notin Over
        BY <1>1, <1>7, <2>l, <2>1, <2>3 DEF Agrees, Request
    <2>4. ASSUME NEW f \in Flows, Finished(f)
          PROVE  made'[code'[g]].state \notin Over
        <3>1. g # f /\ request'[g] = request[g] /\ current' = current
            BY <1>1, <2>4 DEF Finished, Request
        <3>2. code[g] # 0 /\ code[g] # current[f]
            BY <1>1, <1>5, <1>6, <2>1, <3>1
        <3>3. QED
            BY <1>1, <1>5, <1>7, <2>l, <2>1, <2>4, <3>1, <3>2 DEF Finished
    <2>5. ASSUME NEW f \in Flows, PeerStarts(f)
          PROVE  made'[code'[g]].state \notin Over
        <3>1. /\ \A o \in DOMAIN made : made'[o] = made[o]
              /\ \A h \in Flows \ {f} : current'[h] = current[h] /\ request'[h] = request[h]
            BY <2>5, <1>t, StartingDoes
        <3>2. made'[current'[f]].kind = "sas"
            BY <2>5, <1>t, StartingDoes
        <3>3. g # f
            BY <1>1, <3>2
        <3>4. QED
            BY <1>1, <1>5, <1>7, <2>l, <2>1, <3>1, <3>3
    <2>6. ASSUME NEW f \in Flows, NEW o \in Made, Cancels(f, o)
          PROVE  made'[code'[g]].state \notin Over
        <3>1. o # 0 => o \in DOMAIN made /\ made[o].flow = f
            BY <2>6, <1>t, HandlesFound DEF Cancels, HandleOf, Is
        <3>2. g # f /\ request'[g] = request[g] /\ current' = current
            BY <1>1, <2>6 DEF Cancels, Request, Pending
        <3>3. code[g] # 0 /\ code[g] # o
            BY <1>1, <1>5, <2>1, <3>1, <3>2
        <3>4. QED
            BY <1>1, <1>5, <1>7, <2>l, <2>1, <2>6, <3>2, <3>3 DEF Cancels
    <2>7. ASSUME NEW f \in Flows, NEW entry \in Entries, Opens(f, entry)
          PROVE  made'[code'[g]].state \notin Over
        <3>1. /\ RequestsBeside(f) \subseteq Flows /\ current' = current
              /\ \A h \in RequestsBeside(f) : ~Pending(h) => request'[h].state = request[h].state
              /\ \A h \in RequestsBeside(f) : Pending(h) => request'[h].state = "cancelled"
              /\ \A h \in Flows \ (RequestsBeside(f) \cup {f}) : request'[h] = request[h]
              /\ request'[f].state \in {"requested", "cancelled"}
            BY <2>7, <1>t, OpeningDoes DEF Opens
        <3>2. \A o \in DOMAIN made : \/ made'[o].state = made[o].state
                                     \/ o \in {current[h] : h \in RequestsBeside(f)}
            BY <2>7, <1>t, OpeningDoes DEF Opens
        <3>3. g # f /\ g \notin RequestsBeside(f)
            BY <1>1, <3>1 DEF Pending
        <3>4. request'[g] = request[g] /\ code'[g] = code[g] /\ code[g] # 0
            BY <1>1, <2>1, <3>1, <3>3
        <3>5. code[g] \notin {current[h] : h \in RequestsBeside(f)}
            BY <1>5, <1>6, <3>1, <3>3, <3>4
        <3>6. QED
            BY <1>1, <1>5, <1>7, <2>l, <3>1, <3>2, <3>4, <3>5
    <2>8. ASSUME NEW o \in DOMAIN made, NEW to \in States, Turned(o, to)
          PROVE  made'[code'[g]].state \notin Over
        <3>1. request' = request /\ current' = current /\ code'[g] = code[g]
            BY <2>1, <2>8 DEF Turned
        <3>2. made'[o].state \notin Over
            BY <2>8, TurnStaysInForce
        <3>3. made'[code[g]].state = made[code[g]].state \/ code[g] = o
            BY <1>1, <1>5, <2>8, <3>1 DEF Turned
        <3>4. QED
            BY <1>1, <1>7, <2>l, <3>1, <3>2, <3>3
    <2>9. QED
        BY <1>8, <2>2, <2>3, <2>4, <2>5, <2>6, <2>7, <2>8 DEF Elsewhere
<1>9. ASSUME NEW c \in Callers, Remember(c)
      PROVE  made'[code'[g]].state \notin Over
    <2>1. UNCHANGED <<request, made, current, struck>> /\ call[c].at = "remembering"
        BY <1>9 DEF Remember, upstream
    <2>2. code'[g] = code[g] \/ (call[c].flow = g /\ call[c].kind # "sas"
                                 /\ code'[g] = call[c].handle)
        BY <1>9, <1>t DEF Remember, TypeInv, RecordTyped
    <2>3. code'[g] = code[g]
        BY <1>1, <1>3, <1>4, <2>1, <2>2 DEF LastMade
    <2>4. Lasting
        BY <1>9, <1>t, RememberLasts
    <2>5. QED
        BY <1>1, <1>7, <2>1, <2>3, <2>4
<1>10. ASSUME NEW c \in Callers, NEW f \in Flows, NEW kind \in Kinds, NEW state \in States,
              Makes(c, f, kind, state)
       PROVE  made'[code'[g]].state \notin Over
    <2> DEFINE rivals == Rivals(f, kind)
    <2>1. Insert(f, kind, state) /\ code' = code /\ Lasting
        BY <1>10, <1>t, MakesLasts DEF Makes, record
    <2>2. struck' = IF rivals = {} THEN struck ELSE struck \cup Behind(rivals) \cup {f}
        BY <1>t, <2>1, InsertDoes
    <2>3. code[g] # 0 /\ g \notin Behind(rivals)
        BY <1>1, <2>1, <2>2 DEF Behind
    <2>4. made'[code[g]].state = made[code[g]].state
        <3>1. code[g] \notin rivals
            BY <1>5, <2>3 DEF Behind
        <3>2. QED
            BY <1>5, <1>t, <2>1, <2>3, <3>1, InsertDoes
    <2>5. CASE g # f
        <3>1. current'[g] = current[g] /\ request'[g].state = request[g].state
            BY <1>t, <2>1, <2>3, <2>5, InsertDoes
        <3>2. QED
            BY <1>1, <1>7, <2>1, <2>4, <3>1
    <2>6. CASE g = f
        <3>1. current[g] # 0
            BY <2>3, NothingMade
        <3>2. request[g].state = "transitioned"
            BY <1>10, <1>t, <2>6, <3>1 DEF Makes, Moved
        <3>3. InForce(current[g])
            BY <1>4, <3>1, <3>2 DEF InStep
        <3>4. current[g] \notin rivals
            BY <1>1, <2>2, <2>6
        <3>5. made[current[g]].kind = "code"
            BY <3>1, <3>3, <3>4 DEF Rivals
        <3>6. InForce(code[g])
            BY <1>4, <2>3, <3>2, <3>5 DEF OldCode
        <3>7. QED
            BY <2>1, <2>4, <3>6 DEF InForce
    <2>7. QED
        BY <2>5, <2>6
<1>11. QED
    BY <1>8, <1>9, <1>10, <1>t, StepIs DEF StepKinds

\* What is live of a flow is not read as over.
LEMMA LiveIsTold ==
    ASSUME CodeInv, NEW g \in Flows, g \in Sound, Live(g), OldCode(g),
           Pending(g) \/ ~Remembered(g, current[g])
    PROVE  Stage(g) \notin Over \cup {"absent"}
<1>t. BaseInv /\ TypeInv /\ UpTyped /\ Moved /\ KindStates /\ InStep(g) /\ LastMade(g)
    BY DEF CodeInv, BaseInv, TypeInv, FlowInv
\* Any handle in force will do.
<1>s. ASSUME NEW o \in DOMAIN made, InForce(o)
      PROVE  /\ StageOfComparison(o) \notin Over \cup {"absent"}
             /\ StageOfCode(o) \notin Over \cup {"absent"}
    <2>1. made[o].state \in States \ Over
        BY <1>s, <1>t, CurrentIsMade DEF InForce, Objects
    <2>2. QED
        BY <2>1 DEF StageOfComparison, StageOfCode, States, Over
<1>1. CASE current[g] = 0
    <2>1. ComparisonOf(g) = 0 /\ CodeOf(g) = 0
        BY <1>1, NothingMade
    <2>2. Stage(g) = request[g].state
        BY <2>1 DEF Stage
    <2>3. Pending(g)
        BY <1>1 DEF Live
    <2>4. QED
        BY <2>2, <2>3 DEF Pending, Over
<1>2. CASE current[g] # 0
    <2>1. current[g] \in DOMAIN made /\ made[current[g]].kind \in {"sas", "code"}
        BY <1>2, <1>t, HandlesFound DEF Is, Kinds
    <2>2. InForce(current[g])
        BY <1>2, <1>t DEF Live, Pending, Moved, InStep
    <2>3. CASE ~Remembered(g, current[g])
        <3>1. IF made[current[g]].kind = "sas"
              THEN ComparisonOf(g) = current[g]
              ELSE ComparisonOf(g) = 0 /\ CodeOf(g) = current[g]
            BY <1>2, <2>2, <2>3, RecordHasCurrent
        <3>2. QED
            BY <1>2, <1>s, <2>1, <2>2, <3>1 DEF Stage
    <2>4. CASE Pending(g)
        <3>1. request[g].state = "transitioned"
            BY <1>2, <1>t, <2>4 DEF Pending, Moved
        <3>2. CASE made[current[g]].kind = "sas"
            <4>1. ComparisonOf(g) = current[g]
                BY <1>t, <3>1, <3>2 DEF ComparisonOf, Became, LastMade
            <4>2. QED
                BY <1>2, <1>s, <2>1, <2>2, <4>1 DEF Stage
        <3>3. CASE made[current[g]].kind = "code"
            <4>1. ComparisonOf(g) = 0
                BY <1>t, <3>3 DEF ComparisonOf, Became, LastMade, BaseInv, Handles, Is
            <4>2. CodeOf(g) = IF code[g] = 0 THEN current[g] ELSE code[g]
                BY <3>1, <3>3 DEF CodeOf, Became
            <4>3. CodeOf(g) # 0 /\ CodeOf(g) \in DOMAIN made /\ InForce(CodeOf(g))
                BY <1>2, <1>t, <2>1, <2>2, <3>1, <3>3, <4>2 DEF OldCode, BaseInv, Handles, Is
            <4>4. QED
                BY <1>s, <4>1, <4>3 DEF Stage
        <3>4. QED
            BY <2>1, <3>2, <3>3
    <2>5. QED
        BY <2>3, <2>4
<1>3. QED
    BY <1>1, <1>2

\* What dies on arrival is a flow that opens, or what a call makes.
LEMMA ArrivalIs ==
    ASSUME BaseInv, [Next]_vars, NEW f \in Flows, DiesOnArrival(f)
    PROVE  \/ \E g \in Flows \ {f} : Pending(g) \/ g \in unswept
           \/ \E g \in unswept \cap Flows : current[g] # 0
           \/ /\ \E c \in Callers : call[c].at \in {"starting", "generating", "scanning"}
              /\ \E g \in Flows : current[g] # 0 /\ InForce(current[g])
<1>t. TypeInv /\ UpTyped
    BY DEF BaseInv, TypeInv
<1>1. ASSUME request' = request, current' = current
      PROVE  FALSE
    BY <1>1 DEF DiesOnArrival
<1>2. ASSUME NEW g \in Flows, Agrees(g) \/ Finished(g) \/ \E o \in Made : Cancels(g, o)
      PROVE  FALSE
    <2>1. current' = current
        BY <1>2 DEF Agrees, Finished, Cancels
    <2>2. request[f].state = "absent" => request'[f].state # "cancelled"
        BY <1>2 DEF Agrees, Finished, Cancels, Request, Pending
    <2>3. QED
        BY <2>1, <2>2 DEF DiesOnArrival
<1>3. ASSUME NEW g \in Flows, PeerStarts(g)
      PROVE  FALSE
    <2>1. /\ made'[current'[g]].state = "offered" /\ request'[g].state = "transitioned"
          /\ \A h \in Flows \ {g} : current'[h] = current[h] /\ request'[h] = request[h]
        BY <1>3, <1>t, StartingDoes
    <2>2. QED
        BY <2>1 DEF DiesOnArrival
<1>4. ASSUME NEW g \in Flows, NEW entry \in Entries, Opens(g, entry)
      PROVE  \E h \in Flows \ {f} : Pending(h) \/ h \in unswept
    <2>1. /\ RequestsBeside(g) \subseteq Flows /\ current' = current
          /\ request'[g].state = IF RequestsBeside(g) = {} THEN entry.state ELSE "cancelled"
          /\ \A h \in Flows \ (RequestsBeside(g) \cup {g}) : request'[h] = request[h]
        BY <1>4, <1>t, OpeningDoes DEF Opens
    <2>2. request[f].state = "absent" /\ request'[f].state = "cancelled"
        BY <2>1 DEF DiesOnArrival
    <2>3. f \in RequestsBeside(g) => request'[f].state = request[f].state
        BY <1>4, <1>t, <2>2, OpeningDoes DEF Opens, Pending
    <2>4. f = g /\ RequestsBeside(g) # {}
        BY <1>4, <2>1, <2>2, <2>3 DEF Opens
    <2>5. QED
        BY <2>4 DEF RequestsBeside
<1>5. ASSUME NEW c \in Callers, NEW g \in Flows, NEW kind \in Kinds, NEW state \in States,
             Makes(c, g, kind, state)
      PROVE  \E h \in Flows : current[h] # 0 /\ (InForce(current[h]) \/ h \in unswept)
    <2>1. /\ request'[g].state = "transitioned"
          /\ made'[current'[g]].state = IF Rivals(g, kind) = {} THEN state ELSE "cancelled"
        BY <1>5, <1>t, InsertDoes DEF Makes
    <2>2. \A h \in Flows \ {g} :
             /\ current'[h] = current[h]
             /\ request[h].state = "absent" => request'[h].state = "absent"
        <3>1. /\ \A h \in Flows \ {g} : current'[h] = current[h]
              /\ \A h \in Flows \ {g} :
                    request'[h].state = IF h \in Behind(Rivals(g, kind)) /\ Pending(h)
                                        THEN "cancelled" ELSE request[h].state
            BY <1>5, <1>t, InsertDoes DEF Makes
        <3>2. QED
            BY <3>1 DEF Pending
    <2>3. f = g
        BY <2>2 DEF DiesOnArrival
    <2>4. made'[current'[g]].state = "cancelled"
        BY <2>1, <2>3 DEF DiesOnArrival
    <2>5. state # "cancelled"
        BY <1>5 DEF Makes
    <2>6. Rivals(g, kind) # {}
        BY <2>1, <2>4, <2>5
    <2>7. QED
        BY <2>6 DEF Rivals, BaseInv, Handles
<1>6. ASSUME NEW o \in DOMAIN made, NEW to \in States, Turned(o, to)
      PROVE  FALSE
    BY <1>1, <1>6 DEF Turned
<1>7. Elsewhere => \E h \in Flows \ {f} : Pending(h) \/ h \in unswept
    BY <1>1, <1>2, <1>3, <1>4, <1>6 DEF Elsewhere, upstream
<1>8. ASSUME NEW c \in Callers, Remember(c)
      PROVE  FALSE
    BY <1>1, <1>8 DEF Remember, upstream
<1>9. QED
    BY <1>5, <1>7, <1>8, StepIs DEF StepKinds, Makes

\* So it has a witness the product was told of.
LEMMA CasualtyStep ==
    ASSUME CodeInv, OneCaller, \A g \in Flows : OldCode(g), [Next]_vars,
           NEW f \in Flows, DiesOnArrival(f)
    PROVE  \E g \in Flows :
              /\ g # f \/ current[f] # 0
              /\ \/ g \in unswept
                 \/ /\ Live(g)
                    /\ g \in Drawable \ struck => Stage(g) \notin Over \cup {"absent"}
<1>1. ASSUME NEW g \in Flows \ {f}, Pending(g)
      PROVE  Live(g) /\ (g \in Drawable \ struck => Stage(g) \notin Over \cup {"absent"})
    BY <1>1, LiveIsTold DEF Live, Sound
<1>2. ASSUME NEW c \in Callers, call[c].at \in {"starting", "generating", "scanning"},
             NEW g \in Flows, current[g] # 0, InForce(current[g])
      PROVE  /\ Live(g) /\ (g = f => current[f] # 0)
             /\ g \in Drawable \ struck => Stage(g) \notin Over \cup {"absent"}
    <2>1. ~Remembered(g, current[g])
        BY <1>2 DEF OneCaller, Remembered
    <2>2. Live(g)
        BY <1>2 DEF Live
    <2>3. QED
        BY <1>2, <2>1, <2>2, LiveIsTold DEF Sound
<1>3. BaseInv
    BY DEF CodeInv
<1>4. QED
    BY <1>1, <1>2, <1>3, ArrivalIs

\* A flow or a verification is cancelled on arrival only beside something live that
\* flow_stage does not call over, which the product could have cancelled first, or
\* beside a flow that was done with no sync begun since.  For a product that makes
\* one call at a time.
THEOREM CasualtiesAreVisibleHolds ==
    ASSUME OneCaller
    PROVE  Spec => CasualtiesAreVisible
<1> DEFINE OldCodes == \A g \in Flows : OldCode(g)
<1>1. Init => OldCodes
    BY DEF Init, OldCode
<1>2. CodeInv /\ OldCodes /\ [Next]_vars => CodeInv' /\ OldCodes'
    BY CodeStep, OldCodeStep
<1>3. CodeInv /\ OldCodes /\ [Next]_vars =>
        [\A f \in Flows : DiesOnArrival(f) =>
           \E g \in Flows :
              /\ g # f \/ current[f] # 0
              /\ \/ g \in unswept
                 \/ /\ Live(g)
                    /\ g \in Drawable \ struck => Stage(g) \notin Over \cup {"absent"}]_vars
    BY CasualtyStep
<1> HIDE DEF OldCodes
<1>4. QED
    BY <1>1, <1>2, <1>3, CodeInit, PTL DEF Spec, CasualtiesAreVisible
=============================================================================
