------------------------ MODULE SigningIdentityProofs ------------------------
(***************************************************************************)
(* Proofs about SigningIdentity, for any number of identities, restarts    *)
(* and any selection of calls, answers and faults a theorem does not       *)
(* exclude by name.                                                        *)
(***************************************************************************)
EXTENDS SigningIdentity, FiniteSetTheorems, TLAPS

-----------------------------------------------------------------------------
(* What the gate's two rules open on.                                      *)

\* may_publish serves an identity that is held, private keys and all, and not
\* waiting for an answer.
LEMMA PublishOpens ==
    MayPublish => stored # None /\ ~Pending /\ private # None
<1>1. ReadStatus.identity_known = (stored # None)
    BY DEF ReadStatus
<1>2. ReadStatus.identity_publication_pending = Pending
    BY DEF ReadStatus
<1>3. ReadStatus.private_keys_held = (private # None)
    BY DEF ReadStatus
<1>4. QED
    BY <1>1, <1>2, <1>3 DEF MayPublish, may_publish

\* may_create serves an answered account with no identity, or with one that
\* waits for an answer.
LEMMA CreateOpens ==
    MayCreate => account_keys_answered /\ (stored = None \/ Pending)
<1>1. ReadStatus.account_keys_fetched = account_keys_answered
    BY DEF ReadStatus
<1>2. ReadStatus.identity_known = (stored # None)
    BY DEF ReadStatus
<1>3. ReadStatus.identity_publication_pending = Pending
    BY DEF ReadStatus
<1>4. QED
    BY <1>1, <1>2, <1>3 DEF MayCreate, may_create

-----------------------------------------------------------------------------
(* Type correctness.                                                       *)

\* Numbers a counter passed stay passed.
LEMMA CounterGrows ==
    ASSUME TypeOK, minted' \in {minted, minted + 1}
    PROVE  /\ 0 .. minted \subseteq 0 .. minted'
           /\ 1 .. minted \subseteq 1 .. minted'
BY DEF TypeOK, AccountOK

\* A step keeps the types: every identity in sight is one the counter passed.
LEMMA TypeStep ==
    ASSUME TypeOK, [Next]_vars
    PROVE  TypeOK'
<1> USE IdentityAssumption DEF None
<1> USE DEF store, flags, process, account, ghosts
<1>0. ASSUME UNCHANGED <<store, minted>>
      PROVE  StoreOK'
    BY <1>0 DEF TypeOK, StoreOK
<1>a. ASSUME UNCHANGED <<account, minted>>
      PROVE  AccountOK'
    BY <1>a DEF TypeOK, AccountOK
<1>g. ASSUME UNCHANGED <<ghosts, minted>>
      PROVE  GhostsOK'
    BY <1>g DEF TypeOK, GhostsOK
<1>r. ASSUME NEW refusal, Refuse(refusal)
      PROVE  TypeOK'
    <2>1. ProcessOK'
        BY <1>r DEF TypeOK, ProcessOK, Refuse
    <2>2. QED
        BY <1>0, <1>a, <1>g, <1>r, <2>1 DEF TypeOK, Refuse
<1>u. ASSUME NEW id \in 0 .. minted, Use(id),
             UNCHANGED <<minted, sawNone, confirmed, mintedHere,
                         lastLook>>
      PROVE  GhostsOK'
    BY <1>u DEF TypeOK, GhostsOK, Use
<1>1. CASE BootstrapIdentity
    <2>1. CASE MayPublish
        <3>1. stored \in 0 .. minted /\ Use(stored)
            BY <1>1, <2>1 DEF BootstrapIdentity, Refuse, TypeOK, StoreOK
        <3>2. /\ QueueRepublication(stored)
              /\ UNCHANGED <<store, flags, asking, minting, judged, checked,
                             PRIVATE_KEYS_HELD, account, minted, sawNone,
                             confirmed, mintedHere, lastLook>>
            BY <1>1, <2>1 DEF BootstrapIdentity
        <3>3. GhostsOK'
            BY <1>u, <3>1, <3>2
        <3>4. ProcessOK'
            BY <3>2 DEF QueueRepublication, TypeOK, ProcessOK
        <3>5. QED
            BY <1>0, <1>a, <3>2, <3>3, <3>4 DEF TypeOK
    <2>2. QED
        BY <1>1, <1>r, <2>1 DEF BootstrapIdentity
<1>2. CASE CreateIdentity
    <2>1. CASE /\ minted < MaxIdentities
               /\ minted' = minted + 1
               /\ stored' = minted'
               /\ private' = minted'
               /\ minting' = minted'
               /\ mintedHere' = mintedHere \cup {minted'}
               /\ UNCHANGED <<record, flags, asking, uploads, judged, checked,
                              PRIVATE_KEYS_HELD, account, sawNone, confirmed,
                              strayUses, lastLook>>
        <3>1. minted' \in 1 .. MaxIdentities /\ minted' \in 0 .. minted'
            BY <2>1 DEF TypeOK, AccountOK
        <3>2. StoreOK' /\ ProcessOK'
            BY <2>1, <3>1, CounterGrows DEF TypeOK, StoreOK, ProcessOK
        <3>3. AccountOK'
            BY <2>1, <3>1, CounterGrows DEF TypeOK, AccountOK
        <3>4. /\ 0 .. minted \subseteq 0 .. minted' /\ 1 .. minted \subseteq 1 .. minted'
              /\ minted' \in 1 .. minted'
            BY <2>1, <3>1, CounterGrows
        <3>5. GhostsOK'
            <4>1. mintedHere' \subseteq 1 .. minted'
                BY <2>1, <3>4 DEF TypeOK, GhostsOK
            <4>2. strayUses' \subseteq 0 .. minted'
                BY <2>1, <3>4 DEF TypeOK, GhostsOK
            <4>3. QED
                BY <2>1, <3>4, <4>1, <4>2 DEF TypeOK, GhostsOK
        <3>6. QED
            BY <3>2, <3>3, <3>5 DEF TypeOK
    <2>2. CASE /\ minting' = private
               /\ UNCHANGED <<store, flags, asking, uploads, judged, checked,
                              PRIVATE_KEYS_HELD, account, minted, ghosts>>
        <3>1. ProcessOK'
            BY <2>2 DEF TypeOK, ProcessOK
        <3>2. QED
            BY <1>0, <1>a, <1>g, <2>2, <3>1 DEF TypeOK
    <2>3. QED
        BY <1>2, <1>r, <2>1, <2>2 DEF CreateIdentity
<1>3. CASE RecordAndPublish
    <2>1. StoreOK'
        BY <1>3 DEF RecordAndPublish, NoteIdentityMinted, TypeOK, StoreOK
    <2>2. minting \in 1 .. minted
        BY <1>3 DEF RecordAndPublish, TypeOK, StoreOK, ProcessOK, AccountOK
    <2>3. ProcessOK'
        BY <1>3, <2>2 DEF RecordAndPublish, QueuePublication, TypeOK, ProcessOK
    <2>4. QED
        BY <1>3, <1>a, <1>g, <2>1, <2>3 DEF RecordAndPublish, TypeOK
<1>4. CASE CreateRecovery
    <2>1. CASE /\ recovery' = private
               /\ Use(private)
               /\ UNCHANGED <<store, flags, process, server, published, shown,
                              theirs, answers, restarts, minted, sawNone,
                              confirmed, mintedHere, lastLook>>
        <3>1. private \in 0 .. minted
            BY DEF TypeOK, StoreOK, AccountOK
        <3>2. GhostsOK'
            BY <1>u, <2>1, <3>1
        <3>3. AccountOK'
            BY <2>1, <3>1 DEF TypeOK, AccountOK
        <3>4. ProcessOK'
            BY <2>1 DEF TypeOK, ProcessOK
        <3>5. QED
            BY <1>0, <2>1, <3>2, <3>3, <3>4 DEF TypeOK
    <2>2. QED
        BY <1>4, <1>r, <2>1 DEF CreateRecovery
<1>5. CASE RecoverIdentity
    <2>1. CASE /\ MachineFree
               /\ private' = stored
               /\ UNCHANGED <<stored, record, flags, process, account, minted,
                              ghosts>>
        <3>1. StoreOK' /\ ProcessOK'
            BY <2>1 DEF TypeOK, StoreOK, ProcessOK, MachineFree
        <3>2. QED
            BY <1>a, <1>g, <2>1, <3>1 DEF TypeOK
    <2>2. QED
        BY <1>5, <1>r, <2>1 DEF RecoverIdentity
<1>6. CASE CheckSelfFlow
    <2>1. CASE /\ checked' = TRUE
               /\ UNCHANGED <<store, flags, asking, uploads, minting, judged,
                              PRIVATE_KEYS_HELD, account, minted, ghosts>>
        <3>1. ProcessOK'
            BY <2>1 DEF TypeOK, ProcessOK
        <3>2. QED
            BY <1>0, <1>a, <1>g, <2>1, <3>1 DEF TypeOK
    <2>2. QED
        BY <1>6, <1>r, <2>1 DEF CheckSelfFlow
<1>7. CASE RequestSelfFlow
    <2>1. ProcessOK'
        BY <1>7 DEF RequestSelfFlow, TypeOK, ProcessOK
    <2>2. QED
        BY <1>0, <1>7, <1>a, <1>g, <2>1 DEF RequestSelfFlow, TypeOK
<1>8. ASSUME NEW a \in answers, Consume(a)
      PROVE  TypeOK'
    <2>1. a.id \in 0 .. minted
        BY DEF TypeOK, AccountOK
    <2>2. Learned(a) \in 0 .. minted
        BY <2>1 DEF TypeOK, StoreOK, Learned
    <2>3. Verdict(a) \in {"Settled", "Unsettled"}
        BY DEF Verdict, Claims
    <2>4. StoreOK'
        BY <1>8, <2>2 DEF TypeOK, StoreOK, AccountOK, Consume,
            NoteIdentityPublished
    <2>5. ProcessOK'
        BY <1>8, <2>3 DEF TypeOK, ProcessOK, Consume, MachineFree
    <2>6. AccountOK'
        BY <1>8 DEF TypeOK, AccountOK, Consume
    <2>7. GhostsOK'
        BY <1>8, <2>1 DEF TypeOK, GhostsOK, Consume
    <2>8. QED
        BY <2>4, <2>5, <2>6, <2>7 DEF TypeOK
<1>9. ASSUME NEW verdict \in judged, SetFlag(verdict)
      PROVE  TypeOK'
    <2>1. ProcessOK'
        BY <1>9 DEF TypeOK, ProcessOK, SetFlag
    <2>2. QED
        BY <1>0, <1>9, <1>a, <1>g, <2>1 DEF TypeOK, SetFlag
<1>10. ASSUME NEW id \in uploads, ReportUpload(id)
       PROVE  TypeOK'
    <2>1. ProcessOK'
        BY <1>10 DEF TypeOK, ProcessOK, ReportUpload
    <2>2. QED
        BY <1>0, <1>10, <1>a, <1>g, <2>1 DEF TypeOK, ReportUpload
<1>11. ASSUME NEW id \in uploads, ServerAccepts(id) \/ ServerRefuses(id)
       PROVE  TypeOK'
    <2>1. id \in 1 .. minted /\ id \in 0 .. minted
        BY DEF TypeOK, ProcessOK, AccountOK
    <2>2. AccountOK'
        BY <1>11, <2>1 DEF TypeOK, AccountOK, ServerAccepts, ServerRefuses
    <2>3. ProcessOK'
        BY <1>11 DEF TypeOK, ProcessOK, ServerAccepts, ServerRefuses
    <2>4. QED
        BY <1>0, <1>11, <1>g, <2>2, <2>3 DEF TypeOK, ServerAccepts, ServerRefuses
<1>12. CASE Look
    <2>1. ProcessOK' /\ GhostsOK'
        BY <1>12 DEF TypeOK, ProcessOK, GhostsOK, Look
    <2>2. QED
        BY <1>0, <1>12, <1>a, <2>1 DEF TypeOK, Look
<1>13. CASE Restart
    <2>1. ProcessOK' /\ GhostsOK'
        BY <1>13 DEF TypeOK, ProcessOK, GhostsOK, Restart, Seed
    <2>2. AccountOK'
        BY <1>13 DEF TypeOK, AccountOK, Restart
    <2>3. QED
        BY <1>0, <1>13, <2>1, <2>2 DEF TypeOK, Restart
<1>14. ASSUME NEW kind \in AnswerKinds, ServerAnswers(kind)
       PROVE  TypeOK'
    <2>0. /\ kind \in AllAnswerKinds
          /\ minted \in Nat /\ server \in 0 .. minted /\ shown \subseteq 0 .. minted
        BY DEF TypeOK, AccountOK
    <2>1. ServerAnswer(kind) \subseteq [kind : AllAnswerKinds, id : 0 .. minted]
        <3>1. CASE kind = "full"
            BY <2>0, <3>1 DEF ServerAnswer
        <3>2. CASE kind = "nokeys"
            BY <2>0, <3>2 DEF ServerAnswer
        <3>3. CASE kind = "omitted"
            BY <2>0, <3>3 DEF ServerAnswer
        <3>4. CASE kind = "partial"
            BY <2>0, <3>4 DEF ServerAnswer
        <3>5. QED
            BY <2>0, <3>1, <3>2, <3>3, <3>4 DEF AllAnswerKinds
    <2>2. AccountOK'
        BY <1>14, <2>1 DEF TypeOK, AccountOK, ServerAnswers
    <2>3. ProcessOK'
        BY <1>14 DEF TypeOK, ProcessOK, ServerAnswers
    <2>4. QED
        BY <1>0, <1>14, <1>g, <2>2, <2>3 DEF TypeOK, ServerAnswers
<1>15. CASE OthersPublish
    <2>1. minted' \in 1 .. MaxIdentities /\ minted' \in 0 .. minted'
        BY <1>15 DEF TypeOK, AccountOK, OthersPublish
    <2>2. minted' = minted + 1
        BY <1>15 DEF OthersPublish
    <2>3. StoreOK' /\ ProcessOK'
        BY <1>15, <2>2, CounterGrows DEF TypeOK, StoreOK, ProcessOK, OthersPublish
    <2>4. AccountOK'
        BY <1>15, <2>1, <2>2, CounterGrows DEF TypeOK, AccountOK, OthersPublish
    <2>5. GhostsOK'
        BY <1>15, <2>2, CounterGrows DEF TypeOK, GhostsOK, OthersPublish
    <2>6. QED
        BY <2>3, <2>4, <2>5 DEF TypeOK
<1>16. CASE Volunteer
    <2>1. ProcessOK'
        BY <1>16 DEF TypeOK, ProcessOK, Volunteer
    <2>2. QED
        BY <1>0, <1>16, <1>a, <1>g, <2>1 DEF TypeOK, Volunteer
<1>17. CASE SecretsArrive
    <2>1. StoreOK' /\ ProcessOK'
        BY <1>17 DEF TypeOK, StoreOK, ProcessOK, SecretsArrive, MachineFree
    <2>2. QED
        BY <1>17, <1>a, <1>g, <2>1 DEF TypeOK, SecretsArrive
<1>18. CASE UNCHANGED vars
    <2>1. ProcessOK'
        BY <1>18 DEF TypeOK, ProcessOK, vars
    <2>2. QED
        BY <1>0, <1>18, <1>a, <1>g, <2>1 DEF TypeOK, vars
<1>19. QED
    BY <1>1, <1>2, <1>3, <1>4, <1>5, <1>6, <1>7, <1>8, <1>9, <1>10, <1>11, <1>12,
       <1>13, <1>14, <1>15, <1>16, <1>17, <1>18 DEF Next

\* The initial state has its types.
LEMMA TypeInit ==
    ASSUME Init
    PROVE  TypeOK
<1>1. MaxIdentities \in Nat /\ MaxRestarts \in Nat
    BY IdentityAssumption
<1>2. StoreOK
    BY DEF Init, StoreOK, None
<1>3. ProcessOK
    BY DEF Init, ProcessOK, None
<1>4. AccountOK
    BY <1>1 DEF Init, AccountOK, None
<1>5. GhostsOK
    BY DEF Init, GhostsOK
<1>6. QED
    BY <1>2, <1>3, <1>4, <1>5 DEF TypeOK

\* Every value of the store, the process and the account is one its field may
\* hold, for any number of identities and restarts.
THEOREM TypeCorrect == Spec => []TypeOK
BY TypeInit, TypeStep, PTL DEF Spec

-----------------------------------------------------------------------------
(* What an identity in the store may be.                                   *)

\* A record names the identity held, with its private keys, and no answer has
\* confirmed what it names.
RecordHeld == record # None => record = stored /\ private = stored
RecordUnconfirmed ==
    /\ record # None => record \notin confirmed
    /\ minting # None => minting \notin confirmed

\* An answer that carries an identity names one.
AnswersNameOne == \A a \in answers : a.kind \in {"full", "partial"} => a.id # None

\* The gate opened on "none", or on an identity the store then took.
GateExplained ==
    account_keys_answered \/ "Settled" \in judged => sawNone \/ stored # None

\* A store that minted once holds an identity from then on, and mints no more.
MintedOnce ==
    /\ stored = None => mintedHere = {}
    /\ mintedHere = {} \/ \E id \in mintedHere : mintedHere = {id}

MintInv == /\ TypeOK
           /\ RecordHeld /\ RecordUnconfirmed
           /\ AnswersNameOne /\ GateExplained /\ MintedOnce

\* What the homeserver says it holds it accepted.
ServerHonest ==
    /\ server # None => server \in published
    /\ \A a \in answers : a.kind = "full" => a.id \in published

\* The two failures between a mint and its record do not happen.
RecordIsWritten == "mid_mint" \notin Faults /\ "record_lost" \notin Faults

AcceptedInv == TypeOK /\ ServerHonest /\ UnacceptedIsPending

-----------------------------------------------------------------------------
(* Mints, records and confirmations.                                       *)

\* Every step keeps MintInv.
LEMMA MintStep ==
    ASSUME MintInv, [Next]_vars
    PROVE  MintInv'
<1> USE DEF None
<1> USE DEF store, flags, process, account, ghosts
<1>t. TypeOK'
    BY TypeStep DEF MintInv
<1>u. ASSUME UNCHANGED <<stored, private, record, account_keys_answered, minting,
                         judged, answers, sawNone, confirmed, mintedHere>>
      PROVE  MintInv'
    BY <1>t, <1>u DEF MintInv, RecordHeld, RecordUnconfirmed, AnswersNameOne,
                      GateExplained, MintedOnce
<1>r. ASSUME NEW refusal, Refuse(refusal)
      PROVE  MintInv'
    BY <1>r, <1>u DEF Refuse
<1>1. CASE BootstrapIdentity
    BY <1>1, <1>r, <1>u DEF BootstrapIdentity
<1>2. CASE CreateIdentity
    <2>1. CASE /\ MayCreate
               /\ private = None
               /\ minted' = minted + 1
               /\ stored' = minted'
               /\ private' = minted'
               /\ minting' = minted'
               /\ mintedHere' = mintedHere \cup {minted'}
               /\ UNCHANGED <<record, flags, judged, account, sawNone, confirmed>>
        <3>1. minted' # None /\ minted' \notin confirmed
            BY <2>1 DEF MintInv, TypeOK, AccountOK, GhostsOK
        <3>2. record = None /\ stored = None
            BY <2>1, CreateOpens DEF MintInv, RecordHeld, Pending
        <3>3. RecordHeld' /\ RecordUnconfirmed'
            BY <2>1, <3>1, <3>2 DEF RecordHeld, RecordUnconfirmed
        <3>4. AnswersNameOne' /\ GateExplained'
            BY <2>1, <3>1 DEF MintInv, AnswersNameOne, GateExplained
        <3>5. MintedOnce'
            BY <2>1, <3>1, <3>2 DEF MintInv, MintedOnce
        <3>6. QED
            BY <1>t, <3>3, <3>4, <3>5 DEF MintInv
    <2>2. CASE /\ MayCreate
               /\ private # None
               /\ minting' = private
               /\ UNCHANGED <<store, flags, judged, account, minted, ghosts>>
        <3>1. record = private /\ record # None
            BY <2>2, CreateOpens DEF MintInv, TypeOK, StoreOK, Pending
        <3>2. RecordUnconfirmed'
            BY <2>2, <3>1 DEF MintInv, RecordUnconfirmed
        <3>3. RecordHeld' /\ AnswersNameOne' /\ GateExplained' /\ MintedOnce'
            BY <2>2 DEF MintInv, RecordHeld, AnswersNameOne, GateExplained,
                        MintedOnce
        <3>4. QED
            BY <1>t, <3>2, <3>3 DEF MintInv
    <2>3. QED
        BY <1>2, <1>r, <2>1, <2>2 DEF CreateIdentity, Mints
<1>3. CASE RecordAndPublish
    <2>1. minting = private /\ private = stored /\ minting # None
        BY <1>3 DEF RecordAndPublish, NoteIdentityMinted, MintInv, TypeOK, StoreOK, ProcessOK
    <2>2. RecordHeld' /\ RecordUnconfirmed'
        BY <1>3, <2>1 DEF RecordAndPublish, NoteIdentityMinted, MintInv, RecordHeld, RecordUnconfirmed
    <2>3. AnswersNameOne' /\ GateExplained' /\ MintedOnce'
        BY <1>3 DEF RecordAndPublish, MintInv, AnswersNameOne, GateExplained,
                    MintedOnce
    <2>4. QED
        BY <1>t, <2>2, <2>3 DEF MintInv
<1>4. CASE CreateRecovery
    BY <1>4, <1>r, <1>u DEF CreateRecovery
<1>5. CASE RecoverIdentity
    <2>1. CASE /\ private' = stored
               /\ UNCHANGED <<stored, record, flags, process, account, minted,
                              ghosts>>
        <3>1. RecordHeld'
            BY <2>1 DEF MintInv, RecordHeld
        <3>2. RecordUnconfirmed' /\ AnswersNameOne' /\ GateExplained' /\ MintedOnce'
            BY <2>1 DEF MintInv, RecordUnconfirmed, AnswersNameOne, GateExplained,
                        MintedOnce
        <3>3. QED
            BY <1>t, <3>1, <3>2 DEF MintInv
    <2>2. QED
        BY <1>5, <1>r, <2>1 DEF RecoverIdentity
<1>6. CASE CheckSelfFlow
    BY <1>6, <1>r, <1>u DEF CheckSelfFlow
<1>7. CASE RequestSelfFlow
    BY <1>7, <1>u DEF RequestSelfFlow
<1>8. ASSUME NEW a \in answers, Consume(a)
      PROVE  MintInv'
    <2>1. a.kind \in AllAnswerKinds /\ (a.kind \in {"full", "partial"} => a.id # None)
        BY DEF MintInv, TypeOK, AccountOK, AnswersNameOne
    <2>2. CASE a.kind = "full"
        <3>1. Learned(a) = a.id /\ Confirms(a) /\ a.id # None
            BY <2>1, <2>2 DEF Learned, Confirms
        <3>2. stored' = a.id /\ record' = None /\ minting' = None
            BY <1>8, <3>1 DEF Consume, NoteIdentityPublished, MachineFree
        <3>3. RecordHeld' /\ RecordUnconfirmed' /\ GateExplained'
            BY <3>1, <3>2 DEF RecordHeld, RecordUnconfirmed, GateExplained
        <3>4. AnswersNameOne' /\ MintedOnce'
            BY <1>8, <3>1, <3>2 DEF MintInv, Consume, AnswersNameOne, MintedOnce
        <3>5. QED
            BY <1>t, <3>3, <3>4 DEF MintInv
    <2>3. CASE a.kind # "full"
        <3>1. Learned(a) = stored /\ ~Confirms(a)
            BY <2>3 DEF Learned, Confirms
        <3>2. /\ UNCHANGED <<stored, private, record, minting, confirmed, mintedHere,
                              account_keys_answered>>
              /\ judged' = judged \cup {Verdict(a)}
              /\ sawNone' = (sawNone \/ a.kind = "nokeys")
              /\ answers' \subseteq answers
            BY <1>8, <2>3, <3>1 DEF Consume, MintInv, TypeOK, StoreOK
        <3>3. RecordHeld' /\ RecordUnconfirmed' /\ AnswersNameOne' /\ MintedOnce'
            BY <3>2 DEF MintInv, RecordHeld, RecordUnconfirmed, AnswersNameOne,
                        MintedOnce
        <3>4. Verdict(a) = "Settled" => a.kind = "nokeys" \/ stored # None
            BY <2>1, <3>1 DEF Verdict, Claims, AllAnswerKinds
        <3>5. GateExplained'
            BY <3>2, <3>4 DEF MintInv, GateExplained
        <3>6. QED
            BY <1>t, <3>3, <3>5 DEF MintInv
    <2>4. QED
        BY <2>2, <2>3
<1>9. ASSUME NEW verdict \in judged, SetFlag(verdict)
      PROVE  MintInv'
    <2>1. RecordHeld' /\ RecordUnconfirmed' /\ AnswersNameOne' /\ MintedOnce'
        BY <1>9 DEF SetFlag, MintInv, RecordHeld, RecordUnconfirmed, AnswersNameOne,
                    MintedOnce
    <2>2. GateExplained'
        BY <1>9 DEF SetFlag, MintInv, GateExplained
    <2>3. QED
        BY <1>t, <2>1, <2>2 DEF MintInv
<1>10. ASSUME NEW id \in uploads,
              ReportUpload(id) \/ ServerAccepts(id) \/ ServerRefuses(id)
       PROVE  MintInv'
    BY <1>10, <1>u DEF ReportUpload, ServerAccepts, ServerRefuses
<1>11. CASE Look
    BY <1>11, <1>u DEF Look
<1>12. CASE Restart
    <2>1. RecordHeld' /\ RecordUnconfirmed' /\ MintedOnce'
        BY <1>12 DEF Restart, MintInv, RecordHeld, RecordUnconfirmed, MintedOnce
    <2>2. AnswersNameOne' /\ GateExplained'
        BY <1>12 DEF Restart, AnswersNameOne, GateExplained
    <2>3. QED
        BY <1>t, <2>1, <2>2 DEF MintInv
<1>13. ASSUME NEW kind \in AnswerKinds, ServerAnswers(kind)
       PROVE  MintInv'
    <2>1. PICK b \in ServerAnswer(kind) : answers' = answers \cup {b}
        BY <1>13 DEF ServerAnswers
    <2>2. kind \in AllAnswerKinds /\ shown \subseteq 1 .. minted
        BY IdentityAssumption DEF MintInv, TypeOK, AccountOK
    <2>3. b.kind \in {"full", "partial"} => b.id # None
        <3>1. CASE kind = "full"
            BY <2>1, <3>1 DEF ServerAnswer
        <3>2. CASE kind = "partial"
            BY <2>1, <2>2, <3>2 DEF ServerAnswer, MintInv, TypeOK, AccountOK
        <3>3. CASE kind = "nokeys"
            BY <2>1, <3>3 DEF ServerAnswer
        <3>4. CASE kind = "omitted"
            BY <2>1, <3>4 DEF ServerAnswer
        <3>5. QED
            BY <2>2, <3>1, <3>2, <3>3, <3>4 DEF AllAnswerKinds
    <2>4. AnswersNameOne'
        BY <2>1, <2>3 DEF MintInv, AnswersNameOne
    <2>5. RecordHeld' /\ RecordUnconfirmed' /\ GateExplained' /\ MintedOnce'
        BY <1>13 DEF ServerAnswers, MintInv, RecordHeld, RecordUnconfirmed,
                     GateExplained, MintedOnce
    <2>6. QED
        BY <1>t, <2>4, <2>5 DEF MintInv
<1>14. CASE OthersPublish \/ Volunteer
    BY <1>14, <1>u DEF OthersPublish, Volunteer
<1>15. CASE SecretsArrive
    <2>1. RecordHeld' /\ RecordUnconfirmed'
        BY <1>15 DEF SecretsArrive, MintInv, RecordHeld, RecordUnconfirmed
    <2>2. AnswersNameOne' /\ GateExplained' /\ MintedOnce'
        BY <1>15 DEF SecretsArrive, MintInv, AnswersNameOne, GateExplained, MintedOnce
    <2>3. QED
        BY <1>t, <2>1, <2>2 DEF MintInv
<1>16. CASE UNCHANGED vars
    BY <1>16, <1>u DEF vars
<1>17. QED
    BY <1>1, <1>2, <1>3, <1>4, <1>5, <1>6, <1>7, <1>8, <1>9, <1>10, <1>11, <1>12,
       <1>13, <1>14, <1>15, <1>16 DEF Next

\* MintInv holds in every reachable state.
LEMMA MintInvHolds == Spec => []MintInv
<1>1. ASSUME Init
      PROVE  MintInv
    <2>1. TypeOK
        BY <1>1, TypeInit
    <2>2. QED
        BY <1>1, <2>1 DEF Init, MintInv, RecordHeld, RecordUnconfirmed,
                          AnswersNameOne, GateExplained, MintedOnce, None
<1>2. QED
    BY <1>1, MintStep, PTL DEF Spec

\* A mint needs the word of an answer to this very process that the account
\* has no identity (signing.rs, may_create), for any interleaving of answers,
\* calls, restarts and other clients.
THEOREM MintNeedsNone == Spec => MintsOnlyAfterNone
<1>1. ASSUME MintInv, [Next]_vars, mintedHere' # mintedHere
      PROVE  sawNone
    <2> USE DEF None
    <2> USE DEF store, flags, process, account, ghosts
    <2>1. MayCreate /\ private = None
        BY <1>1 DEF Next, vars, BootstrapIdentity, CreateIdentity, Mints,
                    RecordAndPublish,
                    CreateRecovery, RecoverIdentity, CheckSelfFlow, RequestSelfFlow,
                    Consume, SetFlag, ReportUpload, ServerAccepts, ServerRefuses,
                    Look, Restart, ServerAnswers, OthersPublish, Volunteer,
                    SecretsArrive, Refuse
    <2>2. stored = None
        BY <1>1, <2>1, CreateOpens DEF MintInv, RecordHeld, Pending
    <2>3. QED
        BY <1>1, <2>1, <2>2, CreateOpens DEF MintInv, GateExplained
<1>2. MintInv /\ [Next]_vars => [mintedHere' # mintedHere => sawNone]_vars
    BY <1>1
<1>3. QED
    BY <1>2, MintInvHolds, PTL DEF MintsOnlyAfterNone, Spec

\* One store mints at most one identity (create_identity minting only where
\* the store is empty, and the record never outliving what it names).
THEOREM OneMintHolds == Spec => []OneMint
<1>1. ASSUME MintInv
      PROVE  OneMint
    <2>1. CASE mintedHere = {}
        BY <2>1, FS_EmptySet DEF OneMint
    <2>2. CASE \E id \in mintedHere : mintedHere = {id}
        <3>1. PICK id \in mintedHere : mintedHere = {id}
            BY <2>2
        <3>2. Cardinality(mintedHere) = 1
            BY <3>1, FS_Singleton
        <3>3. QED
            BY <3>2 DEF OneMint
    <2>3. QED
        BY <1>1, <2>1, <2>2 DEF MintInv, MintedOnce
<1>2. QED
    BY <1>1, MintInvHolds, PTL

\* The signing keys of an identity an answer has confirmed are never queued
\* again (queue_republication against queue_publication).
THEOREM ConfirmedStays == Spec => ConfirmedNeverRequeued
<1>1. ASSUME MintInv, [Next]_vars
      PROVE  \A id \in uploads' \ uploads : id \notin confirmed
    <2> USE DEF store, flags, process, account, ghosts
    <2>1. CASE RecordAndPublish
        BY <1>1, <2>1 DEF MintInv, RecordUnconfirmed, RecordAndPublish, QueuePublication
    <2>2. CASE ~RecordAndPublish
        <3>1. uploads' \subseteq uploads
            BY <1>1, <2>2 DEF Next, vars, BootstrapIdentity, QueueRepublication,
                    CreateIdentity, CreateRecovery, RecoverIdentity, CheckSelfFlow,
                    RequestSelfFlow, Consume, SetFlag, ReportUpload, ServerAccepts,
                    ServerRefuses, Look, Restart, ServerAnswers, OthersPublish,
                    Volunteer, SecretsArrive, Refuse
        <3>2. QED
            BY <3>1
    <2>3. QED
        BY <2>1, <2>2
<1>2. MintInv /\ [Next]_vars
        => [\A id \in uploads' \ uploads : id \notin confirmed]_vars
    BY <1>1
<1>3. QED
    BY <1>2, MintInvHolds, PTL DEF ConfirmedNeverRequeued, Spec

-----------------------------------------------------------------------------
(* What the homeserver accepted.                                           *)

\* Nothing but an acceptance puts an identity in the server's answers.
LEMMA HonestInit ==
    ASSUME Init
    PROVE  ServerHonest
BY DEF Init, ServerHonest

LEMMA HonestStep ==
    ASSUME TypeOK, ServerHonest, [Next]_vars
    PROVE  ServerHonest'
<1> USE DEF None
<1> USE DEF store, flags, process, account, ghosts
<1>1. published \subseteq published'
    BY DEF Next, vars, BootstrapIdentity, CreateIdentity, RecordAndPublish,
           CreateRecovery, RecoverIdentity, CheckSelfFlow, RequestSelfFlow, Consume,
           SetFlag, ReportUpload, ServerAccepts, ServerRefuses, Look, Restart,
           ServerAnswers, OthersPublish, Volunteer, SecretsArrive, Refuse
<1>2. server' # None => server' \in published'
    BY <1>1 DEF Next, vars, BootstrapIdentity, CreateIdentity, RecordAndPublish,
           CreateRecovery, RecoverIdentity, CheckSelfFlow, RequestSelfFlow, Consume,
           SetFlag, ReportUpload, ServerAccepts, ServerRefuses, Look, Restart,
           ServerAnswers, OthersPublish, Volunteer, SecretsArrive, Refuse,
           ServerHonest
<1>3. CASE \E kind \in AnswerKinds : ServerAnswers(kind)
    <2>1. PICK kind \in AnswerKinds : ServerAnswers(kind)
        BY <1>3
    <2>2. PICK b \in ServerAnswer(kind) : answers' = answers \cup {b}
        BY <2>1 DEF ServerAnswers
    <2>3. b.kind = "full" => b.id = server /\ server # None
        <3>1. kind \in {"full", "nokeys", "omitted", "partial"}
            BY IdentityAssumption DEF AllAnswerKinds
        <3>2. CASE kind = "full"
            BY <2>2, <3>2 DEF ServerAnswer
        <3>3. CASE kind = "nokeys"
            BY <2>2, <3>3 DEF ServerAnswer
        <3>4. CASE kind = "omitted"
            BY <2>2, <3>4 DEF ServerAnswer
        <3>5. CASE kind = "partial"
            BY <2>2, <3>5 DEF ServerAnswer
        <3>6. QED
            BY <3>1, <3>2, <3>3, <3>4, <3>5
    <2>4. QED
        BY <1>1, <1>2, <2>2, <2>3 DEF ServerHonest
<1>4. CASE ~\E kind \in AnswerKinds : ServerAnswers(kind)
    <2>1. answers' \subseteq answers
        BY <1>4 DEF Next, vars, BootstrapIdentity, CreateIdentity, RecordAndPublish,
           CreateRecovery, RecoverIdentity, CheckSelfFlow, RequestSelfFlow, Consume,
           SetFlag, ReportUpload, ServerAccepts, ServerRefuses, Look, Restart,
           OthersPublish, Volunteer, SecretsArrive, Refuse
    <2>2. QED
        BY <1>1, <1>2, <2>1 DEF ServerHonest
<1>5. QED
    BY <1>3, <1>4

\* A step keeps every unaccepted identity on record, where the mint's record
\* is always written.
LEMMA AcceptedStep ==
    ASSUME RecordIsWritten, AcceptedInv, [Next]_vars
    PROVE  AcceptedInv'
<1> USE DEF None
<1> USE DEF store, flags, process, account, ghosts
<1>h. TypeOK' /\ ServerHonest'
    BY TypeStep, HonestStep DEF AcceptedInv
<1> SUFFICES UnacceptedIsPending'
    BY <1>h DEF AcceptedInv
<1>p. published \subseteq published'
    BY DEF Next, vars, BootstrapIdentity, CreateIdentity, RecordAndPublish,
           CreateRecovery, RecoverIdentity, CheckSelfFlow, RequestSelfFlow, Consume,
           SetFlag, ReportUpload, ServerAccepts, ServerRefuses, Look, Restart,
           ServerAnswers, OthersPublish, Volunteer, SecretsArrive, Refuse
<1>u. ASSUME UNCHANGED <<stored, record, minting>>
      PROVE  UnacceptedIsPending'
    BY <1>p, <1>u DEF AcceptedInv, UnacceptedIsPending, Pending, MachineFree
<1>1. CASE CreateIdentity
    <2>1. CASE minting' # None
        BY <2>1 DEF UnacceptedIsPending, MachineFree
    <2>2. CASE minting' = None
        <3>1. UNCHANGED <<stored, record, minting>>
            BY <1>1, <2>2 DEF CreateIdentity, Mints, Refuse, AcceptedInv,
                        TypeOK, AccountOK
        <3>2. QED
            BY <1>u, <3>1
    <2>3. QED
        BY <2>1, <2>2
<1>2. CASE RecordAndPublish
    <2>1. record' = stored'
        BY <1>2 DEF RecordAndPublish, NoteIdentityMinted, RecordIsWritten
    <2>2. QED
        BY <2>1 DEF UnacceptedIsPending, Pending
<1>3. ASSUME NEW a \in answers, Consume(a)
      PROVE  UnacceptedIsPending'
    <2>1. CASE a.kind = "full"
        <3>1. stored' = a.id /\ a.id \in published
            BY <1>3, <2>1 DEF Consume, Learned, AcceptedInv, ServerHonest
        <3>2. QED
            BY <1>p, <3>1 DEF UnacceptedIsPending
    <2>2. CASE a.kind # "full"
        BY <1>3, <1>u, <2>2 DEF Consume, Learned, Confirms
    <2>3. QED
        BY <2>1, <2>2
<1>4. CASE Restart
    <2>1. UNCHANGED <<stored, record, minting>>
        BY <1>4 DEF Restart, RecordIsWritten
    <2>2. QED
        BY <1>u, <2>1
<1>5. CASE /\ ~CreateIdentity /\ ~RecordAndPublish /\ ~Restart
           /\ ~\E a \in answers : Consume(a)
    <2>1. UNCHANGED <<stored, record, minting>>
        BY <1>5 DEF Next, vars, BootstrapIdentity, CreateRecovery, RecoverIdentity,
           CheckSelfFlow, RequestSelfFlow, SetFlag, ReportUpload, ServerAccepts,
           ServerRefuses, Look, ServerAnswers, OthersPublish, Volunteer,
           SecretsArrive, Refuse
    <2>2. QED
        BY <1>u, <2>1
<1>6. QED
    BY <1>1, <1>2, <1>3, <1>4, <1>5

LEMMA AcceptedInit ==
    ASSUME Init
    PROVE  AcceptedInv
BY TypeInit, HonestInit DEF AcceptedInv, Init, UnacceptedIsPending

\* Where the record is always written, the store never holds an identity that
\* no homeserver accepted without a record of it: signing.rs, "True from
\* create_identity until a homeserver's own answer carries that identity back".
THEOREM UnacceptedStaysPending ==
    ASSUME RecordIsWritten
    PROVE  Spec => []UnacceptedIsPending
<1>1. Init => AcceptedInv
    BY AcceptedInit
<1>2. AcceptedInv /\ [Next]_vars => AcceptedInv'
    BY AcceptedStep
<1>3. AcceptedInv => UnacceptedIsPending
    BY DEF AcceptedInv
<1>4. QED
    BY <1>1, <1>2, <1>3, PTL DEF Spec

\* And neither the launch call nor create_recovery acts under such an identity
\* (may_publish, and the gate of recovery.rs).
THEOREM UsesAreAccepted ==
    ASSUME RecordIsWritten
    PROVE  Spec => []UsesAccepted
<1> USE DEF None
<1> USE DEF store, flags, process, account, ghosts
<1> DEFINE I == AcceptedInv /\ UsesAccepted
<1>1. Init => I
    BY AcceptedInit DEF Init, UsesAccepted
<1>2. ASSUME I, [Next]_vars
      PROVE  I'
    <2>1. AcceptedInv'
        BY <1>2, AcceptedStep
    <2> SUFFICES UsesAccepted'
        BY <2>1
    <2>2. ASSUME Use(stored), MachineFree, stored # None, ~Pending
          PROVE  UsesAccepted'
        <3>1. stored \in published
            BY <1>2, <2>2 DEF AcceptedInv, UnacceptedIsPending
        <3>2. QED
            BY <1>2, <2>2, <3>1 DEF Use, UsesAccepted
    <2>3. CASE UNCHANGED strayUses
        BY <1>2, <2>3 DEF UsesAccepted
    <2>4. CASE BootstrapIdentity
        BY <2>2, <2>3, <2>4, PublishOpens DEF BootstrapIdentity, Refuse
    <2>5. CASE CreateRecovery
        <3>1. CASE MayUse /\ private # None /\ Use(private)
            <4>1. private = stored
                BY <1>2, <3>1 DEF AcceptedInv, TypeOK, StoreOK
            <4>2. QED
                BY <2>2, <2>5, <3>1, <4>1 DEF CreateRecovery, MayUse
        <3>2. QED
            BY <2>3, <2>5, <3>1 DEF CreateRecovery, Refuse
    <2>6. CASE ~BootstrapIdentity /\ ~CreateRecovery
        <3>1. UNCHANGED strayUses
            BY <1>2, <2>6 DEF Next, vars, CreateIdentity, RecordAndPublish,
               RecoverIdentity, CheckSelfFlow, RequestSelfFlow, Consume, SetFlag,
               ReportUpload, ServerAccepts, ServerRefuses, Look, Restart,
               ServerAnswers, OthersPublish, Volunteer, SecretsArrive, Refuse
        <3>2. QED
            BY <2>3, <3>1
    <2>7. QED
        BY <2>4, <2>5, <2>6
<1>3. I => UsesAccepted
    OBVIOUS
<1>4. QED
    BY <1>1, <1>2, <1>3, PTL DEF Spec

\* A record is only ever cleared by an answer that carries what it names, or
\* together with the identity it names: no report about an upload does it.
THEOREM NoFalseConfirmationHolds == Spec => NoFalseConfirmation
<1> USE DEF None
<1> USE DEF store, flags, process, account, ghosts
<1>1. ASSUME MintInv, ServerHonest, [Next]_vars, record # None, record' = None,
             stored' = stored
      PROVE  record \in published
    <2>1. record = stored \/ record' # None
        BY <1>1 DEF MintInv, RecordHeld, Next, vars, BootstrapIdentity,
           CreateIdentity, RecordAndPublish, NoteIdentityMinted, CreateRecovery, RecoverIdentity,
           CheckSelfFlow, RequestSelfFlow, Consume, SetFlag, ReportUpload,
           ServerAccepts, ServerRefuses, Look, Restart, ServerAnswers,
           OthersPublish, Volunteer, SecretsArrive, Refuse, MachineFree
    <2>2. \E a \in answers : Consume(a) /\ Confirms(a)
        BY <1>1, <2>1 DEF Next, vars, BootstrapIdentity, CreateIdentity,
           RecordAndPublish, NoteIdentityMinted, CreateRecovery, RecoverIdentity, CheckSelfFlow,
           RequestSelfFlow, Consume, SetFlag, ReportUpload, ServerAccepts,
           ServerRefuses, Look, Restart, ServerAnswers, OthersPublish, Volunteer,
           SecretsArrive, Refuse
    <2>3. QED
        BY <1>1, <2>1, <2>2 DEF Consume, Confirms, ServerHonest
<1>2. MintInv /\ ServerHonest /\ [Next]_vars
        => [record # None /\ record' = None
              => record \in published \/ stored' # stored]_vars
    BY <1>1
<1>3. MintInv => TypeOK
    BY DEF MintInv
<1>4. TypeOK /\ ServerHonest /\ [Next]_vars => ServerHonest'
    BY HonestStep
<1>5. Init => ServerHonest
    BY HonestInit
<1>6. QED
    BY <1>2, <1>3, <1>4, <1>5, MintInvHolds, PTL DEF Spec, NoFalseConfirmation

-----------------------------------------------------------------------------
(* Arrivals of the private keys.                                           *)

\* Keys that the last look found, or that the store was opened with, are latched:
\* the latch is seeded with the store and never reset within a process.
Latched == lastLook # "absent" => PRIVATE_KEYS_HELD

\* A look announces the private keys only where the look before it, in the same
\* process, found none: not again where it found them, nor where the process opened
\* its store with them (note_private_keys_held and the seed in machine::build). That
\* every arrival is announced is not part of it.
THEOREM AnnouncedOnlyOnArrivalHolds == Spec => AnnouncedOnlyOnArrival
<1> USE DEF store, flags, process, account, ghosts
<1>1. Init => Latched
    BY DEF Init, Latched
<1>2. ASSUME Latched, [Next]_vars
      PROVE  /\ Latched'
             /\ lastLook' = "announced" /\ lastLook # "absent" => UNCHANGED lastLook
    <2>1. CASE Look
        BY <1>2, <2>1 DEF Look, Announces, Latched
    <2>2. CASE Restart
        BY <1>2, <2>2 DEF Restart, Seed, Latched
    <2>3. CASE ~Look /\ ~Restart
        <3>1. UNCHANGED <<lastLook, PRIVATE_KEYS_HELD>>
            BY <1>2, <2>3 DEF Next, vars, BootstrapIdentity, QueueRepublication,
                    CreateIdentity, RecordAndPublish, NoteIdentityMinted, QueuePublication,
                    CreateRecovery, RecoverIdentity, CheckSelfFlow,
                    RequestSelfFlow, Consume, SetFlag, ReportUpload, ServerAccepts,
                    ServerRefuses, ServerAnswers, OthersPublish,
                    Volunteer, SecretsArrive, Refuse
        <3>2. QED
            BY <1>2, <3>1 DEF Latched
    <2>4. QED
        BY <2>1, <2>2, <2>3
<1>3. Latched /\ [Next]_vars => Latched'
    BY <1>2
<1>4. Latched /\ [Next]_vars
        => [lastLook' = "announced" /\ lastLook # "absent" => UNCHANGED lastLook]_vars
    BY <1>2
<1>5. QED
    BY <1>1, <1>3, <1>4, PTL DEF Spec, AnnouncedOnlyOnArrival
=============================================================================
