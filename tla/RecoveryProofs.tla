--------------------------- MODULE RecoveryProofs ---------------------------
(***************************************************************************)
(* Proofs about Recovery, for any secrets, devices, keys, ways past        *)
(* RecoveryAlreadyExists and number of identities and relaunches.          *)
(***************************************************************************)
EXTENDS Recovery, SequenceTheorems, TLAPS

-----------------------------------------------------------------------------
(* Types.                                                                  *)

Ciphertexts == [AllKeys -> 0 .. MaxIdentities]

AccountData == [pointer     : AllKeys \cup {NoKey, Cleared},
                description : [AllKeys -> {"absent", "intact", "cleared"}],
                sealed      : [Names -> Ciphertexts]]

KeyEntries == [type : {"description", "cleared_description", "default_key"}, key : AllKeys]
SecretEntries == [type : {"secret"}, name : Names, encrypted : Ciphertexts]
Entries == KeyEntries \cup SecretEntries

Setups == [entries : Seq(Entries), route : Routes \cup {"none"},
           identity : 0 .. MaxIdentities]

DeviceStates == [fetched : BOOLEAN, knows : 0 .. MaxIdentities,
                 seeds : 0 .. MaxIdentities, pending : BOOLEAN]

\* The types, in full: what the products hold is account data and entries of it.
Shape ==
    /\ account \in 0 .. MaxIdentities /\ minted \in 0 .. MaxIdentities
    /\ accepted \subseteq 0 .. MaxIdentities
    /\ device \in [Devices -> DeviceStates]
    /\ data \in AccountData
    /\ list \in [Devices -> AccountData]
    /\ writing \in [Devices -> Setups]
    /\ relaunches \in 0 .. MaxRelaunches
    /\ current \subseteq Devices
    /\ outdated \in [Devices -> SUBSET (0 .. MaxIdentities)]

-----------------------------------------------------------------------------
(* What is behind the two action properties.                               *)

\* The entries of one setup that are still to be written past the account data held,
\* under key k and for identity g: merged with what it has, the pointer last, and what
\* of the setup is not among them is there.
Underway(held, entries, k, g) ==
    /\ \A i \in DOMAIN entries :
          LET entry == entries[i] IN
          \/ entry = DescriptionEntry(k)
          \/ entry = PointerEntry(k) /\ i = Len(entries)
          \/ /\ entry.type = "secret"
             /\ entry.encrypted = [held.sealed[entry.name] EXCEPT ![k] = g]
    /\ \/ held.description[k] = "intact"
       \/ \E i \in DOMAIN entries : entries[i] = DescriptionEntry(k)
    /\ \A n \in Names :
          \/ held.sealed[n][k] = g
          \/ \E i \in DOMAIN entries : entries[i].type = "secret" /\ entries[i].name = n

\* A device that is current holds the account data, or a setup made of it.
CurrentInv ==
    \A d \in current :
        /\ writing[d] = Idle => list[d] = data
        /\ writing[d] # Idle /\ writing[d].route \notin {"nothing", "revoke"} =>
              \E k \in KeyIds : Underway(data, writing[d].entries, k, writing[d].identity)

\* What a device knows of the account and holds of its keys was accepted, unless it
\* is pending, and was not outdated when this process began if a query was answered.
LiveInv ==
    /\ accepted \subseteq 1 .. minted
    /\ account = 0 => accepted = {}
    /\ account # 0 => account \in accepted
    /\ \A d \in Devices :
          /\ outdated[d] \subseteq accepted /\ account \notin outdated[d]
          /\ ~device[d].pending =>
                {device[d].knows, device[d].seeds} \subseteq accepted \cup {0}
          /\ ~device[d].pending /\ device[d].fetched =>
                {device[d].knows, device[d].seeds} \cap outdated[d] = {}
          /\ device[d].pending => device[d].knows \in 1 .. minted

-----------------------------------------------------------------------------
(* The entries of a setup.                                                 *)

\* The private keys form a sequence of all of them.
LEMMA SecretsAreListed ==
    /\ SECRETS \in Seq(Names)
    /\ Len(SECRETS) \in Nat /\ DOMAIN SECRETS = 1 .. Len(SECRETS)
    /\ \A i \in 1 .. Len(SECRETS) : SECRETS[i] \in Names
    /\ \A n \in Names : \E i \in 1 .. Len(SECRETS) : SECRETS[i] = n
<1>1. SECRETS \in Seq(Names)
    BY RecoveryAssumption
<1>2. Len(SECRETS) \in Nat /\ DOMAIN SECRETS = 1 .. Len(SECRETS)
    BY <1>1, LenProperties
<1>3. QED
    BY <1>1, <1>2 DEF Names

\* Of whatever is a function on the first n numbers into a set.
LEMMA FunctionIsSeq ==
    ASSUME NEW S, NEW n \in Nat, NEW f \in [1 .. n -> S]
    PROVE  f \in Seq(S) /\ Len(f) = n
<1>1. f \in Seq(S)
    BY SeqDef
<1>2. Len(f) \in Nat /\ DOMAIN f = 1 .. Len(f)
    BY <1>1, LenProperties
<1>3. 1 .. Len(f) = 1 .. n
    BY <1>2
<1>4. QED
    BY <1>1, <1>2, <1>3

LEMMA SingletonSeq ==
    ASSUME NEW S, NEW e \in S
    PROVE  <<e>> \in Seq(S) /\ Len(<<e>>) = 1 /\ <<e>>[1] = e
OBVIOUS

LEMMA EntriesOfKeys ==
    ASSUME NEW k \in AllKeys
    PROVE  /\ DescriptionEntry(k) \in Entries /\ PointerEntry(k) \in Entries
           /\ [type |-> "cleared_description", key |-> k] \in Entries
BY DEF Entries, KeyEntries, DescriptionEntry, PointerEntry

\* Merging one identity under one key into the ciphertexts of a secret.
LEMMA MergedCiphertexts ==
    ASSUME NEW entries \in AccountData, NEW n \in Names, NEW k \in AllKeys,
           NEW g \in 0 .. MaxIdentities
    PROVE  [ExistingCiphertexts(entries, n) EXCEPT ![k] = g] \in Ciphertexts
BY DEF AccountData, Ciphertexts, ExistingCiphertexts

LEMMA SealedEntries ==
    ASSUME NEW entries \in AccountData, NEW k \in AllKeys, NEW g \in 0 .. MaxIdentities
    PROVE  /\ Sealed(entries, k, g) \in Seq(Entries)
           /\ Len(Sealed(entries, k, g)) = Len(SECRETS)
<1>1. ASSUME NEW i \in 1 .. Len(SECRETS)
      PROVE  SecretEntry(SECRETS[i], [ExistingCiphertexts(entries, SECRETS[i]) EXCEPT ![k] = g])
                 \in Entries
    <2>1. SECRETS[i] \in Names
        BY SecretsAreListed
    <2>2. [ExistingCiphertexts(entries, SECRETS[i]) EXCEPT ![k] = g] \in Ciphertexts
        BY <2>1, MergedCiphertexts
    <2>3. QED
        BY <2>1, <2>2 DEF SecretEntry, Entries, SecretEntries
<1>2. Sealed(entries, k, g) \in [1 .. Len(SECRETS) -> Entries]
    BY <1>1, SecretsAreListed DEF Sealed
<1>3. QED
    BY <1>2, SecretsAreListed, FunctionIsSeq

\* The description first, one entry per private key, the pointer last.
LEMMA SetupEntries ==
    ASSUME NEW entries \in AccountData, NEW k \in AllKeys, NEW g \in 0 .. MaxIdentities
    PROVE  LET setup == Setup(entries, k, g)
               last == Len(SECRETS) + 2 IN
           /\ setup \in Seq(Entries) /\ Len(setup) = last
           /\ setup[1] = DescriptionEntry(k) /\ setup[last] = PointerEntry(k)
           /\ \A i \in 1 .. Len(SECRETS) :
                 setup[i + 1] = SecretEntry(SECRETS[i],
                     [ExistingCiphertexts(entries, SECRETS[i]) EXCEPT ![k] = g])
<1> DEFINE first == <<DescriptionEntry(k)>>
           middle == Sealed(entries, k, g)
           end == <<PointerEntry(k)>>
           head == first \o middle
<1>1. /\ first \in Seq(Entries) /\ Len(first) = 1 /\ first[1] = DescriptionEntry(k)
      /\ end \in Seq(Entries) /\ Len(end) = 1 /\ end[1] = PointerEntry(k)
    BY EntriesOfKeys, SingletonSeq
<1>2. middle \in Seq(Entries) /\ Len(middle) = Len(SECRETS) /\ Len(SECRETS) \in Nat
    BY SealedEntries, SecretsAreListed
<1>3. \A i \in 1 .. Len(SECRETS) :
         middle[i] = SecretEntry(SECRETS[i],
             [ExistingCiphertexts(entries, SECRETS[i]) EXCEPT ![k] = g])
    BY SecretsAreListed DEF Sealed
<1> HIDE DEF first, middle, end
<1>4. /\ head \in Seq(Entries) /\ Len(head) = Len(SECRETS) + 1
      /\ \A i \in 1 .. Len(SECRETS) + 1 : head[i] = IF i <= 1 THEN first[i] ELSE middle[i - 1]
    <2>1. /\ head \in Seq(Entries) /\ Len(head) = Len(first) + Len(middle)
          /\ \A i \in 1 .. Len(first) + Len(middle) :
                head[i] = IF i <= Len(first) THEN first[i] ELSE middle[i - Len(first)]
        BY <1>1, <1>2, ConcatProperties
    <2>2. QED
        BY <1>1, <1>2, <2>1
<1> HIDE DEF head
<1> DEFINE all == head \o end
<1>5. /\ all \in Seq(Entries) /\ Len(all) = Len(SECRETS) + 2
      /\ \A i \in 1 .. Len(SECRETS) + 2 :
            all[i] = IF i <= Len(SECRETS) + 1 THEN head[i] ELSE end[i - (Len(SECRETS) + 1)]
    <2>1. /\ all \in Seq(Entries) /\ Len(all) = Len(head) + Len(end)
          /\ \A i \in 1 .. Len(head) + Len(end) :
                all[i] = IF i <= Len(head) THEN head[i] ELSE end[i - Len(head)]
        BY <1>1, <1>4, ConcatProperties
    <2> HIDE DEF all
    <2>2. Len(head) + Len(end) = Len(SECRETS) + 2
        BY <1>1, <1>2, <1>4
    <2>3. QED
        BY <1>4, <2>1, <2>2
<1>6. Setup(entries, k, g) = all
    BY DEF Setup, head, first, middle, end
<1> HIDE DEF all
<1>7. all[1] = DescriptionEntry(k)
    BY <1>1, <1>2, <1>4, <1>5
<1>8. all[Len(SECRETS) + 2] = PointerEntry(k)
    BY <1>1, <1>2, <1>5
<1>9. ASSUME NEW i \in 1 .. Len(SECRETS)
       PROVE  all[i + 1] = middle[i]
    <2>1. i + 1 \in 1 .. Len(SECRETS) + 1 /\ i + 1 \in 1 .. Len(SECRETS) + 2
          /\ ~(i + 1 <= 1) /\ i + 1 <= Len(SECRETS) + 1 /\ (i + 1) - 1 = i
        BY <1>2
    <2>2. QED
        BY <2>1, <1>4, <1>5
<1>10. QED
    BY <1>3, <1>5, <1>6, <1>7, <1>8, <1>9

\* What a product hands over is account data, and what it makes of a setup is a
\* sequence of entries.
LEMMA HandedData ==
    ASSUME Shape, NEW d \in Devices, NEW route \in Routes
    PROVE  Handed(d, route) \in AccountData
<1>1. NoData \in AccountData
    BY RecoveryAssumption DEF NoData, AccountData, Ciphertexts
<1>2. list[d] \in AccountData /\ [list[d] EXCEPT !.pointer = NoKey] \in AccountData
    BY DEF Shape, AccountData
<1>3. route \in {"as_read", "clear", "re-point", "revoke", "nothing"}
    BY RecoveryAssumption
<1>4. QED
    BY <1>1, <1>2, <1>3 DEF Handed

LEMMA StrippedEntry ==
    ASSUME NEW entry \in SecretEntries, NEW old \in AllKeys
    PROVE  [entry EXCEPT !.encrypted[old] = 0] \in SecretEntries
<1>1. [entry.encrypted EXCEPT ![old] = 0] \in Ciphertexts
    BY RecoveryAssumption DEF SecretEntries, Ciphertexts
<1>2. QED
    BY <1>1 DEF SecretEntries

LEMMA WrittenEntries ==
    ASSUME Shape, NEW d \in Devices, NEW route \in Routes, NEW setup \in Seq(Entries),
           setup # <<>>, route = "revoke" => list[d].pointer \in AllKeys
    PROVE  ToWrite(d, route, setup) \in Seq(Entries) /\ ToWrite(d, route, setup) # <<>>
<1>1. CASE route # "revoke"
    BY <1>1 DEF ToWrite
<1>2. CASE route = "revoke"
    <2> DEFINE old == list[d].pointer
               stripped == [i \in DOMAIN setup |->
                   IF setup[i].type = "secret" THEN [setup[i] EXCEPT !.encrypted[old] = 0]
                   ELSE setup[i]]
               end == <<[type |-> "cleared_description", key |-> old]>>
    <2>1. old \in AllKeys
        BY <1>2
    <2>2. Len(setup) \in Nat /\ DOMAIN setup = 1 .. Len(setup)
        BY LenProperties
    <2>3. ASSUME NEW i \in 1 .. Len(setup)
          PROVE  (IF setup[i].type = "secret" THEN [setup[i] EXCEPT !.encrypted[old] = 0]
                  ELSE setup[i]) \in Entries
        <3>1. setup[i] \in Entries
            BY ElementOfSeq
        <3>2. CASE setup[i].type = "secret"
            <4>1. setup[i] \in SecretEntries
                BY <3>1, <3>2 DEF Entries, KeyEntries
            <4>2. [setup[i] EXCEPT !.encrypted[old] = 0] \in SecretEntries
                BY <4>1, <2>1, StrippedEntry
            <4>3. QED
                BY <3>2, <4>2 DEF Entries
        <3>3. QED
            BY <3>1, <3>2
    <2>4. stripped \in [1 .. Len(setup) -> Entries]
        BY <2>2, <2>3
    <2>5. stripped \in Seq(Entries) /\ Len(stripped) = Len(setup)
        BY <2>2, <2>4, FunctionIsSeq
    <2>6. end \in Seq(Entries) /\ Len(end) = 1
        BY <2>1, EntriesOfKeys, SingletonSeq
    <2>7. ToWrite(d, route, setup) = stripped \o end
        BY <1>2 DEF ToWrite
    <2> HIDE DEF stripped, end
    <2>8. /\ stripped \o end \in Seq(Entries)
          /\ Len(stripped \o end) = Len(stripped) + Len(end)
        BY <2>5, <2>6, ConcatProperties
    <2>9. Len(stripped \o end) # 0
        BY <2>2, <2>5, <2>6, <2>8
    <2>10. QED
        BY <2>7, <2>8, <2>9, EmptySeq
<1>3. QED
    BY <1>1, <1>2

LEMMA HandedSetup ==
    ASSUME Shape, NEW d \in Devices, NEW route \in Routes, NEW k \in KeyIds,
           NEW g \in 0 .. MaxIdentities, route = "revoke" => PointedKey(list[d]) \in KeyIds
    PROVE  LET setup == Setup(Handed(d, route), k, g) IN
           /\ ToWrite(d, route, setup) \in Seq(Entries)
           /\ ToWrite(d, route, setup) # <<>>
<1> DEFINE setup == Setup(Handed(d, route), k, g)
<1>1. k \in AllKeys /\ Handed(d, route) \in AccountData
    BY HandedData DEF AllKeys
<1>2. setup \in Seq(Entries) /\ Len(setup) = Len(SECRETS) + 2
    BY <1>1, SetupEntries
<1> HIDE DEF setup
<1>3. setup # <<>>
    <2>1. Len(setup) # 0
        BY <1>2, SecretsAreListed
    <2>2. QED
        BY <2>1, EmptySeq
<1>4. route = "revoke" => list[d].pointer \in AllKeys
    BY RecoveryAssumption DEF PointedKey, AllKeys
<1>5. QED
    BY <1>2, <1>3, <1>4, WrittenEntries DEF setup

-----------------------------------------------------------------------------
(* The types hold.                                                         *)

LEMMA InitData == NoData \in AccountData /\ TheirData \in AccountData
BY RecoveryAssumption DEF NoData, TheirData, AccountData, Ciphertexts, AllKeys

LEMMA IdleSetup == Idle \in Setups
BY RecoveryAssumption, EmptySeq DEF Idle, Setups

LEMMA ShapeInit == Init => Shape
<1>1. SUFFICES ASSUME Init
               PROVE  Shape
    OBVIOUS
<1>2. account \in 0 .. MaxIdentities /\ minted \in 0 .. MaxIdentities
      /\ accepted \subseteq 0 .. MaxIdentities /\ relaunches \in 0 .. MaxRelaunches
    BY <1>1, RecoveryAssumption DEF Init
<1>3. device \in [Devices -> DeviceStates]
    BY <1>1, RecoveryAssumption DEF Init, Blank, DeviceStates
<1>4. data \in AccountData /\ list \in [Devices -> AccountData]
    BY <1>1, InitData DEF Init
<1>5. writing \in [Devices -> Setups]
    BY <1>1, IdleSetup DEF Init
<1>6. QED
    BY <1>1, <1>2, <1>3, <1>4, <1>5 DEF Init, Shape

\* An entry put to the homeserver leaves account data there.
LEMMA PutData ==
    ASSUME data \in AccountData, NEW entry \in Entries
    PROVE  Put(entry) \in AccountData
<1>1. CASE entry \in SecretEntries
    <2>1. entry.type = "secret" /\ entry.name \in Names /\ entry.encrypted \in Ciphertexts
        BY <1>1 DEF SecretEntries
    <2>2. Put(entry) = [data EXCEPT !.sealed[entry.name] = entry.encrypted]
        BY <2>1 DEF Put
    <2>3. QED
        BY <2>1, <2>2 DEF AccountData
<1>2. CASE entry \in KeyEntries
    <2>1. entry.type \in {"description", "cleared_description", "default_key"}
          /\ entry.key \in AllKeys
        BY <1>2 DEF KeyEntries
    <2>2. CASE entry.type = "description"
        BY <2>1, <2>2 DEF Put, AccountData
    <2>3. CASE entry.type = "cleared_description"
        BY <2>1, <2>3 DEF Put, AccountData
    <2>4. CASE entry.type = "default_key"
        BY <2>1, <2>4 DEF Put, AccountData
    <2>5. QED
        BY <2>1, <2>2, <2>3, <2>4
<1>3. QED
    BY <1>1, <1>2 DEF Entries

\* What is left of the entries after the next PUT.
LEMMA RestOfEntries ==
    ASSUME Shape, NEW d \in Devices, writing[d].entries # <<>>
    PROVE  LET entries == writing[d].entries IN
           /\ Head(entries) = entries[1] /\ entries[1] \in Entries
           /\ Tail(entries) \in Seq(Entries)
           /\ Len(entries) \in Nat \ {0} /\ Len(Tail(entries)) = Len(entries) - 1
           /\ DOMAIN entries = 1 .. Len(entries) /\ DOMAIN Tail(entries) = 1 .. Len(entries) - 1
           /\ \A i \in 1 .. Len(entries) - 1 : Tail(entries)[i] = entries[i + 1]
<1> DEFINE entries == writing[d].entries
<1>1. entries \in Seq(Entries) /\ entries # <<>>
    BY DEF Shape, Setups
<1> HIDE DEF entries
<1>2. Len(entries) \in Nat \ {0} /\ DOMAIN entries = 1 .. Len(entries)
    BY <1>1, EmptySeq, LenProperties
<1>3. /\ Tail(entries) \in Seq(Entries) /\ Len(Tail(entries)) = Len(entries) - 1
      /\ \A i \in 1 .. Len(Tail(entries)) : Tail(entries)[i] = entries[i + 1]
    BY <1>1, HeadTailProperties
<1>4. DOMAIN Tail(entries) = 1 .. Len(entries) - 1
    BY <1>3, LenProperties
<1>5. Head(entries) = entries[1] /\ entries[1] \in Entries
    <2>1. 1 \in 1 .. Len(entries)
        BY <1>2
    <2>2. QED
        BY <1>1, <2>1, ElementOfSeq
<1>6. QED
    BY <1>2, <1>3, <1>4, <1>5 DEF entries

\* What each step does to the one device it is of.
LEMMA DeviceMints ==
    ASSUME Shape, NEW d \in Devices, Mint(d)
    PROVE  /\ device' \in [Devices -> DeviceStates]
           /\ \A other \in Devices \ {d} : device'[other] = device[other]
           /\ device'[d].knows = minted + 1 /\ device'[d].pending
<1> DEFINE state == [device[d] EXCEPT !.knows = minted + 1, !.seeds = minted + 1,
                                      !.pending = TRUE]
<1>1. minted + 1 \in 0 .. MaxIdentities
    BY RecoveryAssumption DEF Mint, Shape
<1>2. device[d] \in DeviceStates
    BY DEF Shape
<1>3. state \in DeviceStates /\ state.knows = minted + 1 /\ state.pending
    BY <1>1, <1>2 DEF DeviceStates
<1>4. device' = [device EXCEPT ![d] = state]
    BY DEF Mint, Shape
<1> HIDE DEF state
<1>5. QED
    BY <1>3, <1>4 DEF Shape

LEMMA DeviceAnswered ==
    ASSUME Shape, NEW d \in Devices, KeysAnswered(d)
    PROVE  /\ device' \in [Devices -> DeviceStates]
           /\ \A other \in Devices \ {d} : device'[other] = device[other]
           /\ account = 0 =>
                 /\ device'[d].knows = device[d].knows /\ device'[d].seeds = device[d].seeds
                 /\ device'[d].pending = device[d].pending
           /\ account # 0 =>
                 /\ device'[d].knows = account /\ ~device'[d].pending
                 /\ device'[d].seeds = IF device[d].seeds = account THEN account ELSE 0
<1>1. device[d] \in DeviceStates /\ account \in 0 .. MaxIdentities
    BY DEF Shape
<1>2. CASE account = 0
    <2> DEFINE state == [device[d] EXCEPT !.fetched = TRUE]
    <2>1. /\ state \in DeviceStates /\ state.knows = device[d].knows
          /\ state.seeds = device[d].seeds /\ state.pending = device[d].pending
        BY <1>1 DEF DeviceStates
    <2>2. device' = [device EXCEPT ![d] = state]
        BY <1>2 DEF KeysAnswered
    <2> HIDE DEF state
    <2>3. QED
        BY <1>2, <2>1, <2>2 DEF Shape
<1>3. CASE account # 0
    <2> DEFINE state == [fetched |-> TRUE, knows |-> account, pending |-> FALSE,
                         seeds |-> IF device[d].seeds = account THEN account ELSE 0]
    <2>1. /\ state \in DeviceStates /\ state.knows = account /\ ~state.pending
          /\ state.seeds = IF device[d].seeds = account THEN account ELSE 0
        BY <1>1, RecoveryAssumption DEF DeviceStates
    <2>2. device' = [device EXCEPT ![d] = state]
        BY <1>3 DEF KeysAnswered
    <2> HIDE DEF state
    <2>3. QED
        BY <1>3, <2>1, <2>2 DEF Shape
<1>4. QED
    BY <1>2, <1>3

LEMMA DeviceRelaunches ==
    ASSUME Shape, NEW d \in Devices, Relaunch(d)
    PROVE  /\ device' \in [Devices -> DeviceStates]
           /\ \A other \in Devices \ {d} : device'[other] = device[other]
           /\ ~device'[d].fetched
           /\ \/ /\ device'[d].knows = device[d].knows /\ device'[d].seeds = device[d].seeds
                 /\ device'[d].pending = device[d].pending
              \/ device'[d].knows = 0 /\ device'[d].seeds = 0 /\ ~device'[d].pending
<1>1. device[d] \in DeviceStates
    BY DEF Shape
<1>2. CASE device' = [device EXCEPT ![d].fetched = FALSE]
    <2> DEFINE state == [device[d] EXCEPT !.fetched = FALSE]
    <2>1. /\ state \in DeviceStates /\ state.knows = device[d].knows /\ ~state.fetched
          /\ state.seeds = device[d].seeds /\ state.pending = device[d].pending
        BY <1>1 DEF DeviceStates
    <2>2. device' = [device EXCEPT ![d] = state]
        BY <1>2
    <2> HIDE DEF state
    <2>3. QED
        BY <2>1, <2>2 DEF Shape
<1>3. CASE device' = [device EXCEPT ![d] = Blank]
    <2>1. /\ Blank \in DeviceStates /\ Blank.knows = 0 /\ Blank.seeds = 0
          /\ ~Blank.pending /\ ~Blank.fetched
        BY RecoveryAssumption DEF Blank, DeviceStates
    <2>2. QED
        BY <1>3, <2>1 DEF Shape
<1>4. QED
    BY <1>2, <1>3 DEF Relaunch

\* Gossiped and recovered keys are those of the identity the store knows.
LEMMA DeviceTakesKeys ==
    ASSUME Shape, NEW d \in Devices, Join(d) \/ RecoverIdentity(d)
    PROVE  /\ device' \in [Devices -> DeviceStates]
           /\ \A other \in Devices \ {d} : device'[other] = device[other]
           /\ device[d].fetched /\ ~device[d].pending
           /\ device'[d].knows = device[d].knows /\ device'[d].seeds = device[d].knows
           /\ device'[d].pending = device[d].pending
<1> DEFINE state == [device[d] EXCEPT !.seeds = device[d].knows]
<1>1. device[d] \in DeviceStates
    BY DEF Shape
<1>2. /\ state \in DeviceStates /\ state.knows = device[d].knows
      /\ state.seeds = device[d].knows /\ state.pending = device[d].pending
    BY <1>1 DEF DeviceStates
<1>3. device' = [device EXCEPT ![d] = state]
    BY DEF Join, RecoverIdentity
<1>4. device[d].fetched /\ ~device[d].pending
    BY DEF Join, RecoverIdentity, Refusal
<1> HIDE DEF state
<1>5. QED
    BY <1>2, <1>3, <1>4 DEF Shape

LEMMA ShapeStep ==
    ASSUME Shape, [Next]_vars
    PROVE  Shape'
<1> USE RecoveryAssumption
<1>1. CASE ResetElsewhere
    BY <1>1 DEF ResetElsewhere, Accept, Shape, ghosts
<1>2. CASE ClearPointer
    BY <1>2 DEF ClearPointer, Shape, server, AccountData
<1>3. ASSUME NEW d \in Devices, Mint(d)
      PROVE  Shape'
    <2>1. device' \in [Devices -> DeviceStates]
        BY <1>3, DeviceMints
    <2>2. QED
        BY <1>3, <2>1 DEF Mint, Shape, ghosts
<1>4. ASSUME NEW d \in Devices, Publish(d)
      PROVE  Shape'
    <2>1. device[d].knows \in 0 .. MaxIdentities
        BY DEF Shape, DeviceStates
    <2>2. QED
        BY <1>4, <2>1 DEF Publish, Accept, Shape, ghosts
<1>5. ASSUME NEW d \in Devices, KeysAnswered(d)
      PROVE  Shape'
    <2>1. device' \in [Devices -> DeviceStates]
        BY <1>5, DeviceAnswered
    <2>2. QED
        BY <1>5, <2>1 DEF KeysAnswered, Shape, server, ghosts
<1>6. ASSUME NEW d \in Devices, Join(d)
      PROVE  Shape'
    <2>1. device' \in [Devices -> DeviceStates]
        BY <1>6, DeviceTakesKeys
    <2>2. QED
        BY <1>6, <2>1 DEF Join, Shape, server, ghosts
<1>7. ASSUME NEW d \in Devices, Relaunch(d)
      PROVE  Shape'
    <2>1. device' \in [Devices -> DeviceStates]
        BY <1>7, DeviceRelaunches
    <2>2. list' \in [Devices -> AccountData] /\ writing' \in [Devices -> Setups]
        BY <1>7, InitData, IdleSetup DEF Relaunch, Shape
    <2>3. relaunches' \in 0 .. MaxRelaunches
        BY <1>7 DEF Relaunch, Shape
    <2>4. QED
        BY <1>7, <2>1, <2>2, <2>3 DEF Relaunch, Shape, server
<1>8. ASSUME NEW d \in Devices, ReadAccountData(d)
      PROVE  Shape'
    BY <1>8 DEF ReadAccountData, Shape, server
<1>9. ASSUME NEW d \in Devices, CreateRecovery(d)
      PROVE  Shape'
    <2>1. PICK route \in Routes, k \in Unused :
             /\ route = "revoke" => PointedKey(list[d]) \in KeyIds
             /\ writing' = [writing EXCEPT ![d] =
                    [route    |-> route,
                     identity |-> device[d].seeds,
                     entries  |-> ToWrite(d, route, Setup(Handed(d, route), k, device[d].seeds))]]
        BY <1>9 DEF CreateRecovery
    <2>2. k \in KeyIds /\ device[d].seeds \in 0 .. MaxIdentities
        BY DEF Unused, Shape, DeviceStates
    <2>3. ToWrite(d, route, Setup(Handed(d, route), k, device[d].seeds)) \in Seq(Entries)
        BY <2>1, <2>2, HandedSetup
    <2>4. writing' \in [Devices -> Setups]
        BY <2>1, <2>2, <2>3 DEF Shape, Setups
    <2>5. list' \in [Devices -> AccountData]
        BY <1>9, InitData DEF CreateRecovery, Shape
    <2>6. QED
        BY <1>9, <2>4, <2>5 DEF CreateRecovery, Shape, server, ghosts
<1>10. ASSUME NEW d \in Devices, PutNext(d)
       PROVE  Shape'
    <2>1. data' \in AccountData
        BY <1>10, RestOfEntries, PutData DEF PutNext, Shape
    <2>2. Tail(writing[d].entries) \in Seq(Entries)
        BY <1>10, RestOfEntries DEF PutNext
    <2>3. [writing[d] EXCEPT !.entries = Tail(writing[d].entries)] \in Setups
        BY <2>2 DEF Shape, Setups
    <2>4. writing' \in [Devices -> Setups]
        BY <1>10, <2>3, IdleSetup DEF PutNext, Shape
    <2>5. current' \subseteq Devices
        BY <1>10 DEF PutNext, Shape
    <2>6. QED
        BY <1>10, <2>1, <2>4, <2>5 DEF PutNext, Shape, server
<1>11. ASSUME NEW d \in Devices, Interrupted(d)
       PROVE  Shape'
    BY <1>11, IdleSetup DEF Interrupted, Shape, server
<1>12. ASSUME NEW d \in Devices, RecoverIdentity(d)
       PROVE  Shape'
    <2>1. device' \in [Devices -> DeviceStates]
        BY <1>12, DeviceTakesKeys
    <2>2. QED
        BY <1>12, <2>1 DEF RecoverIdentity, Shape, server, ghosts
<1>13. CASE UNCHANGED vars
    BY <1>13 DEF vars, server, ghosts, Shape
<1>14. QED
    BY <1>1, <1>2, <1>3, <1>4, <1>5, <1>6, <1>7, <1>8, <1>9, <1>10, <1>11, <1>12, <1>13
       DEF Next

-----------------------------------------------------------------------------
(* Acting for a live identity.                                             *)

\* An identity is new when it is minted, and a device that was told one is told the one
\* the account has.
LEMMA LiveStep ==
    ASSUME Shape, LiveInv, [Next]_vars
    PROVE  LiveInv'
<1> USE RecoveryAssumption
<1>a. /\ account \in Nat /\ minted \in Nat /\ DOMAIN outdated = Devices
      /\ accepted \subseteq 1 .. minted /\ accepted \subseteq Nat
    BY DEF Shape, LiveInv
<1>1. CASE ResetElsewhere
    <2>1. /\ account # 0 /\ minted' = minted + 1 /\ account' = minted + 1
          /\ accepted' = accepted \cup {minted + 1} /\ UNCHANGED <<device, outdated>>
        BY <1>1 DEF ResetElsewhere, Accept, ghosts
    <2>2. minted + 1 \notin accepted /\ minted + 1 # 0 /\ 1 .. minted \subseteq 1 .. minted + 1
        BY <1>a
    <2>3. accepted' \subseteq 1 .. minted'
        BY <1>a, <2>1
    <2>4. QED
        BY <2>1, <2>2, <2>3 DEF LiveInv
<1>2. ASSUME NEW d \in Devices, Mint(d)
      PROVE  LiveInv'
    <2>1. minted' = minted + 1 /\ UNCHANGED <<account, accepted, outdated>>
        BY <1>2 DEF Mint, ghosts
    <2>2. 1 .. minted \subseteq 1 .. minted' /\ minted + 1 \in 1 .. minted'
        BY <1>a, <2>1
    <2>3. QED
        BY <1>2, <2>1, <2>2, DeviceMints DEF LiveInv
<1>3. ASSUME NEW d \in Devices, Publish(d)
      PROVE  LiveInv'
    <2>1. /\ account = 0 /\ account' = device[d].knows /\ accepted' = accepted \cup {account'}
          /\ device[d].knows \in 1 .. minted /\ UNCHANGED <<minted, device, outdated>>
        BY <1>3 DEF Publish, Accept, ghosts, LiveInv
    <2>2. accepted = {} /\ account' # 0
        BY <1>a, <2>1 DEF LiveInv
    <2>3. \A e \in Devices : outdated[e] = {}
        BY <2>2 DEF LiveInv
    <2>4. QED
        BY <1>a, <2>1, <2>2, <2>3 DEF LiveInv
<1>4. ASSUME NEW d \in Devices, KeysAnswered(d)
      PROVE  LiveInv'
    <2>1. UNCHANGED <<account, accepted, minted, outdated>>
        BY <1>4 DEF KeysAnswered, server, ghosts
    <2>2. /\ outdated[d] \subseteq accepted /\ account \notin outdated[d]
          /\ 0 \notin outdated[d]
        BY <1>a DEF LiveInv
    <2>3. CASE account = 0
        <3>1. accepted = {} /\ outdated[d] = {}
            BY <2>2, <2>3 DEF LiveInv
        <3>2. QED
            BY <1>4, <2>1, <2>3, <3>1, DeviceAnswered DEF LiveInv
    <2>4. CASE account # 0
        BY <1>4, <2>1, <2>2, <2>4, DeviceAnswered DEF LiveInv
    <2>5. QED
        BY <2>3, <2>4
<1>5. ASSUME NEW d \in Devices, Relaunch(d)
      PROVE  LiveInv'
    <2>1. UNCHANGED <<account, accepted, minted>>
        BY <1>5 DEF Relaunch, server
    <2>2. /\ outdated'[d] = accepted \ {account}
          /\ \A other \in Devices \ {d} : outdated'[other] = outdated[other]
        BY <1>5, <1>a DEF Relaunch
    <2>3. QED
        BY <1>5, <2>1, <2>2, DeviceRelaunches DEF LiveInv
<1>6. ASSUME NEW d \in Devices, Join(d) \/ RecoverIdentity(d)
      PROVE  LiveInv'
    <2>1. UNCHANGED <<account, accepted, minted, outdated>>
        BY <1>6 DEF Join, RecoverIdentity, server, ghosts
    <2>2. QED
        BY <1>6, <2>1, DeviceTakesKeys DEF LiveInv
<1>7. CASE UNCHANGED <<server, device, outdated>>
    BY <1>7 DEF server, LiveInv
<1>8. QED
    BY <1>1, <1>2, <1>3, <1>4, <1>5, <1>6, <1>7
       DEF Next, ClearPointer, ReadAccountData, CreateRecovery, PutNext, Interrupted,
           vars, ghosts

LEMMA LiveInit == Init => LiveInv
BY RecoveryAssumption DEF Init, LiveInv, Blank

LEMMA LiveAction ==
    ASSUME Shape, LiveInv, Next
    PROVE  \A d \in Devices :
             LET live == accepted \ outdated[d] IN
             /\ writing[d] = Idle /\ writing'[d] # Idle => writing'[d].identity \in live
             /\ minted' = minted /\ device'[d].seeds \notin {0, device[d].seeds} =>
                  device'[d].seeds \in live
<1> DEFINE Acts(d) == LET live == accepted \ outdated[d] IN
             /\ writing[d] = Idle /\ writing'[d] # Idle => writing'[d].identity \in live
             /\ minted' = minted /\ device'[d].seeds \notin {0, device[d].seeds} =>
                  device'[d].seeds \in live
<1>a. DOMAIN writing = Devices /\ minted \in Nat
    BY RecoveryAssumption DEF Shape
<1>1. CASE UNCHANGED <<writing, device>>
    BY <1>1
<1>2. ASSUME NEW d \in Devices, Mint(d)
      PROVE  \A e \in Devices : Acts(e)
    BY <1>2, <1>a DEF Mint
<1>3. ASSUME NEW d \in Devices, KeysAnswered(d)
      PROVE  \A e \in Devices : Acts(e)
    BY <1>3, DeviceAnswered DEF KeysAnswered
<1>4. ASSUME NEW d \in Devices, Join(d) \/ RecoverIdentity(d)
      PROVE  \A e \in Devices : Acts(e)
    BY <1>4, DeviceTakesKeys DEF Join, RecoverIdentity, LiveInv
<1>5. ASSUME NEW d \in Devices, Relaunch(d)
      PROVE  \A e \in Devices : Acts(e)
    BY <1>5, <1>a, DeviceRelaunches DEF Relaunch
<1>6. ASSUME NEW d \in Devices, CreateRecovery(d)
      PROVE  \A e \in Devices : Acts(e)
    <2>1. /\ writing'[d].identity = device[d].seeds /\ UNCHANGED device
          /\ \A other \in Devices \ {d} : writing'[other] = writing[other]
        BY <1>6, <1>a DEF CreateRecovery
    <2>2. device[d].fetched /\ ~device[d].pending /\ device[d].seeds # 0
        BY <1>6 DEF CreateRecovery, Refusal
    <2>3. device[d].seeds \in accepted \ outdated[d]
        BY <2>2 DEF LiveInv
    <2>4. QED
        BY <2>1, <2>3
<1>7. ASSUME NEW d \in Devices, PutNext(d) \/ Interrupted(d)
      PROVE  \A e \in Devices : Acts(e)
    <2>1. UNCHANGED device /\ \A other \in Devices \ {d} : writing'[other] = writing[other]
        BY <1>7, <1>a DEF PutNext, Interrupted
    <2>2. writing[d] # Idle
        BY <1>7 DEF PutNext, Interrupted, Idle
    <2>3. QED
        BY <2>1, <2>2
<1>8. QED
    BY <1>1, <1>2, <1>3, <1>4, <1>5, <1>6, <1>7
       DEF Next, ResetElsewhere, ClearPointer, Publish, Accept, ReadAccountData

\* No recovery is written, and no private keys are imported, for an identity that no
\* homeserver accepted or that was replaced before the process began: the answered
\* query the gate asks for has replaced what a restored store says.
THEOREM ActsForLiveIdentityHolds == Spec => ActsForLiveIdentity
<1>1. Init => Shape /\ LiveInv
    BY ShapeInit, LiveInit
<1>2. (Shape /\ LiveInv) /\ [Next]_vars => (Shape /\ LiveInv)'
    BY ShapeStep, LiveStep
<1>3. (Shape /\ LiveInv) /\ [Next]_vars =>
         [\A d \in Devices :
             LET live == accepted \ outdated[d] IN
             /\ writing[d] = Idle /\ writing'[d] # Idle => writing'[d].identity \in live
             /\ minted' = minted /\ device'[d].seeds \notin {0, device[d].seeds} =>
                  device'[d].seeds \in live]_vars
    BY LiveAction
<1>4. QED
    BY <1>1, <1>2, <1>3, PTL DEF Spec, ActsForLiveIdentity

-----------------------------------------------------------------------------
(* The types, for the reader.                                              *)

LEMMA ShapeTypes ==
    ASSUME Shape, LiveInv
    PROVE  TypeOK
<1>1. accepted \subseteq Identities
    BY RecoveryAssumption DEF Shape, LiveInv, Identities
<1>2. \A d \in Devices : Refusal(d) \in IdentityErrors \cup {"none"}
    BY DEF Refusal, IdentityErrors
<1>3. QED
    BY <1>1, <1>2 DEF Shape, TypeOK, DeviceStates, AccountData, Ciphertexts

\* Every value of the server, the stores, the products and the account data has its
\* type.
THEOREM TypeCorrect == Spec => []TypeOK
<1>1. Init => Shape /\ LiveInv
    BY ShapeInit, LiveInit
<1>2. (Shape /\ LiveInv) /\ [Next]_vars => (Shape /\ LiveInv)'
    BY ShapeStep, LiveStep
<1>3. Shape /\ LiveInv => TypeOK
    BY ShapeTypes
<1>4. QED
    BY <1>1, <1>2, <1>3, PTL DEF Spec

-----------------------------------------------------------------------------
(* The answers of recover_identity.                                        *)

\* Each of its errors reaches the product under its own name.
LEMMA RecoveryWordsCross == \A error \in RecoveryErrors : Heard[error] = error
<1>1. \A error \in RecoveryErrors : \E n \in DOMAIN MachineFfiError : MachineFfiError[n] = error
    BY DEF RecoveryErrors, MachineFfiError
<1>2. QED
    BY <1>1 DEF Heard, Crossed, LiftEnum, LowerEnum, Generated

\* Of any account data, any secret and any identity there is.
LEMMA AnswerOfAnyList ==
    ASSUME NEW entries \in AccountData, NEW typed \in Typed, NEW g \in 1 .. MaxIdentities
    PROVE  LET answer == Restored(entries, typed, g) IN
           /\ answer \in RecoveryErrors \cup {"ok"}
           /\ answer = "RecoveryDataMalformed" => ~Opens(entries, g)
           /\ (answer = "ok") = OpensWith(entries, typed, g)
<1> DEFINE k == entries.pointer
           obstacle == Obstacle(entries, typed, g)
<1>a. g # 0 /\ NoKey \notin AllKeys /\ Cleared \notin AllKeys
    BY RecoveryAssumption DEF AllKeys
<1>b. /\ entries.pointer \in AllKeys \cup {NoKey, Cleared}
      /\ k \in AllKeys => entries.description[k] \in {"absent", "intact", "cleared"}
    BY DEF AccountData
<1>1. SUFFICES /\ obstacle \in RecoveryErrors \cup {"none"}
               /\ obstacle = "RecoveryDataMalformed" => ~Opens(entries, g)
               /\ obstacle = "none" <=> OpensWith(entries, typed, g)
    <2>1. CASE obstacle = "none"
        BY <1>1, <2>1 DEF Restored, RecoveryErrors
    <2>2. CASE obstacle # "none"
        <3>1. Restored(entries, typed, g) = obstacle /\ obstacle # "ok"
            BY <1>1, <2>2, RecoveryWordsCross DEF Restored, RecoveryErrors
        <3>2. OpensWith(entries, typed, g) = FALSE
            BY <1>1, <2>2 DEF OpensWith
        <3>3. QED
            BY <1>1, <2>2, <3>1, <3>2
    <2>3. QED
        BY <2>1, <2>2
<1>2. CASE k \notin AllKeys
    <2>1. PointedKey(entries) = NoKey
        BY <1>2 DEF PointedKey
    <2>2. obstacle = "RecoveryNotSetUp"
        BY <1>a, <2>1 DEF Obstacle
    <2>3. ~OpensWith(entries, typed, g)
        BY <1>2 DEF OpensWith
    <2>4. QED
        BY <2>2, <2>3 DEF RecoveryErrors
<1>3. CASE k \in AllKeys
    <2>1. PointedKey(entries) = k /\ k # NoKey
        BY <1>a, <1>3 DEF PointedKey
    <2>2. CASE entries.description[k] = "absent"
        <3>1. obstacle = "RecoveryNotSetUp"
            BY <1>3, <2>1, <2>2 DEF Obstacle
        <3>2. QED
            BY <2>2, <3>1 DEF RecoveryErrors, OpensWith
    <2>3. CASE entries.description[k] = "cleared"
        <3>1. obstacle = "RecoveryDataMalformed"
            BY <1>3, <2>1, <2>3 DEF Obstacle
        <3>2. QED
            BY <2>3, <3>1 DEF RecoveryErrors, OpensWith, Opens
    <2>4. CASE entries.description[k] = "intact"
        <3>1. CASE typed # k
            <4>1. DecodeError(k, typed) \in {"Mac", "Base58"}
                BY DEF DecodeError
            <4>2. obstacle = "RecoveryKeyIncorrect"
                BY <1>3, <2>1, <2>4, <3>1, <4>1 DEF Obstacle, Classify
            <4>3. QED
                BY <3>1, <4>2 DEF RecoveryErrors, OpensWith
        <3>2. CASE typed = k /\ \E n \in Names : entries.sealed[n][k] = 0
            <4>1. obstacle = "RecoveryNotSetUp"
                BY <1>3, <2>1, <2>4, <3>2 DEF Obstacle
            <4>2. QED
                BY <1>a, <3>2, <4>1 DEF RecoveryErrors, OpensWith
        <3>3. CASE /\ typed = k /\ ~\E n \in Names : entries.sealed[n][k] = 0
                   /\ \E n \in Names : entries.sealed[n][k] # g
            <4>1. obstacle = "RecoveryDataMalformed"
                BY <1>3, <2>1, <2>4, <3>3 DEF Obstacle
            <4>2. QED
                BY <3>3, <4>1 DEF RecoveryErrors, OpensWith, Opens
        <3>4. CASE typed = k /\ \A n \in Names : entries.sealed[n][k] = g
            <4>1. obstacle = "none"
                BY <1>a, <1>3, <2>1, <2>4, <3>4 DEF Obstacle
            <4>2. QED
                BY <1>3, <2>4, <3>4, <4>1 DEF RecoveryErrors, OpensWith
        <3>5. QED
            BY <3>1, <3>2, <3>3, <3>4
    <2>5. QED
        BY <1>b, <1>3, <2>2, <2>3, <2>4
<1>4. QED
    BY <1>2, <1>3

\* A secret that opens the list is served; damage is reported only of a list no secret
\* opens, and a wrong secret only of one it does not open, whatever is in the list and
\* whoever wrote it: the two remedies are never exchanged.
THEOREM AnswerMatchesDamageHolds == Spec => []AnswerMatchesDamage
<1>1. Init => Shape /\ LiveInv
    BY ShapeInit, LiveInit
<1>2. (Shape /\ LiveInv) /\ [Next]_vars => (Shape /\ LiveInv)'
    BY ShapeStep, LiveStep
<1>3. ASSUME Shape, LiveInv
      PROVE  AnswerMatchesDamage
    <2>1. ASSUME NEW d \in Devices, device[d].knows # 0
          PROVE  list[d] \in AccountData /\ device[d].knows \in 1 .. MaxIdentities
        BY <1>3, <2>1, RecoveryAssumption DEF Shape, DeviceStates
    <2>2. QED
        BY <1>3, <2>1, ShapeTypes, AnswerOfAnyList DEF AnswerMatchesDamage
<1>4. QED
    BY <1>1, <1>2, <1>3, PTL DEF Spec

-----------------------------------------------------------------------------
(* A setup never closes what opens.                                        *)

\* A setup made of the account data there is has all of itself still to be written.
LEMMA SetupUnderway ==
    ASSUME Shape, NEW d \in Devices, list[d] = data, NEW route \in Routes,
           route \notin {"nothing", "revoke"}, NEW k \in KeyIds,
           NEW g \in 0 .. MaxIdentities
    PROVE  Underway(data, ToWrite(d, route, Setup(Handed(d, route), k, g)), k, g)
<1> DEFINE handed == Handed(d, route)
           setup == Setup(handed, k, g)
           last == Len(SECRETS) + 2
<1>1. handed \in AccountData /\ handed.sealed = data.sealed /\ k \in AllKeys
    <2>1. route \in {"as_read", "clear", "re-point"}
        BY RecoveryAssumption
    <2>2. data \in AccountData
        BY DEF Shape
    <2>3. handed.sealed = data.sealed
        BY <2>1, <2>2 DEF Handed, AccountData
    <2>4. QED
        BY <2>3, HandedData DEF AllKeys
<1> HIDE DEF handed
<1>2. /\ setup \in Seq(Entries) /\ Len(setup) = last
      /\ setup[1] = DescriptionEntry(k) /\ setup[last] = PointerEntry(k)
      /\ \A i \in 1 .. Len(SECRETS) :
            setup[i + 1] = SecretEntry(SECRETS[i], [data.sealed[SECRETS[i]] EXCEPT ![k] = g])
    BY <1>1, SetupEntries DEF ExistingCiphertexts
<1>3. ToWrite(d, route, setup) = setup
    BY DEF ToWrite
<1> HIDE DEF setup
<1>4. DOMAIN setup = 1 .. last /\ Len(SECRETS) \in Nat
    BY <1>2, LenProperties, SecretsAreListed
<1>5. ASSUME NEW i \in DOMAIN setup
      PROVE  \/ setup[i] = DescriptionEntry(k)
             \/ setup[i] = PointerEntry(k) /\ i = Len(setup)
             \/ /\ setup[i].type = "secret"
                /\ setup[i].encrypted = [data.sealed[setup[i].name] EXCEPT ![k] = g]
    <2>1. CASE i = 1 \/ i = last
        BY <1>2, <2>1
    <2>2. CASE i # 1 /\ i # last
        <3>1. i - 1 \in 1 .. Len(SECRETS) /\ (i - 1) + 1 = i
            BY <1>4, <2>2
        <3>2. setup[i] = SecretEntry(SECRETS[i - 1], [data.sealed[SECRETS[i - 1]] EXCEPT ![k] = g])
            BY <1>2, <3>1
        <3>3. QED
            BY <3>2 DEF SecretEntry
    <2>3. QED
        BY <2>1, <2>2
<1>6. \E i \in DOMAIN setup : setup[i] = DescriptionEntry(k)
    BY <1>2, <1>4
<1>7. ASSUME NEW n \in Names
      PROVE  \E i \in DOMAIN setup : setup[i].type = "secret" /\ setup[i].name = n
    <2>1. PICK i \in 1 .. Len(SECRETS) : SECRETS[i] = n
        BY SecretsAreListed
    <2>2. i + 1 \in DOMAIN setup
        BY <1>4
    <2>3. setup[i + 1] = SecretEntry(n, [data.sealed[n] EXCEPT ![k] = g])
        BY <1>2, <2>1
    <2>4. setup[i + 1].type = "secret" /\ setup[i + 1].name = n
        BY <2>3 DEF SecretEntry
    <2>5. QED
        BY <2>2, <2>4
<1>8. QED
    BY <1>3, <1>5, <1>6, <1>7 DEF Underway, setup, handed

\* What the PUT of each entry of a setup under key k for identity g does.
PutsDescription(k) ==
    /\ data'.pointer = data.pointer /\ data'.sealed = data.sealed
    /\ data'.description = [data.description EXCEPT ![k] = "intact"]
PutsPointer(k) ==
    /\ data'.pointer = k /\ data'.sealed = data.sealed
    /\ data'.description = data.description
PutsSecret(n, k, g) ==
    /\ data'.pointer = data.pointer /\ data'.description = data.description
    /\ data'.sealed = [data.sealed EXCEPT ![n] = [data.sealed[n] EXCEPT ![k] = g]]

LEMMA NextPut ==
    ASSUME Shape, NEW entries \in Seq(Entries), entries # <<>>, NEW k \in AllKeys,
           NEW g \in 0 .. MaxIdentities, Underway(data, entries, k, g),
           data' = Put(entries[1])
    PROVE  \/ entries[1] = DescriptionEntry(k) /\ PutsDescription(k)
           \/ entries[1] = PointerEntry(k) /\ Len(entries) = 1 /\ PutsPointer(k)
           \/ \E n \in Names :
                 entries[1].type = "secret" /\ entries[1].name = n /\ PutsSecret(n, k, g)
<1>a. data \in AccountData
    BY DEF Shape
<1>b. 1 \in DOMAIN entries /\ entries[1] \in Entries
    <2>1. Len(entries) \in Nat \ {0} /\ DOMAIN entries = 1 .. Len(entries)
        BY EmptySeq, LenProperties
    <2>2. QED
        BY <2>1, ElementOfSeq
<1>1. CASE entries[1] = DescriptionEntry(k)
    <2>1. Put(entries[1]) = [data EXCEPT !.description[k] = "intact"]
        BY <1>1 DEF Put, DescriptionEntry
    <2>2. QED
        BY <1>a, <1>1, <2>1 DEF AccountData, PutsDescription
<1>2. CASE entries[1] = PointerEntry(k) /\ Len(entries) = 1
    <2>1. Put(entries[1]) = [data EXCEPT !.pointer = k]
        BY <1>2 DEF Put, PointerEntry
    <2>2. QED
        BY <1>a, <1>2, <2>1 DEF AccountData, PutsPointer
<1>3. CASE /\ entries[1].type = "secret"
           /\ entries[1].encrypted = [data.sealed[entries[1].name] EXCEPT ![k] = g]
    <2>1. entries[1].name \in Names
        BY <1>b, <1>3 DEF Entries, KeyEntries, SecretEntries
    <2>2. Put(entries[1]) = [data EXCEPT !.sealed[entries[1].name] = entries[1].encrypted]
        BY <1>3 DEF Put
    <2>3. PutsSecret(entries[1].name, k, g)
        BY <1>a, <1>3, <2>1, <2>2 DEF AccountData, PutsSecret
    <2>4. QED
        BY <1>3, <2>1, <2>3
<1>4. entries[1] = PointerEntry(k) /\ 1 = Len(entries) => Len(entries) = 1
    OBVIOUS
<1>5. QED
    BY <1>b, <1>1, <1>2, <1>3, <1>4 DEF Underway

\* It leaves the rest to be written.
LEMMA UnderwayKept ==
    ASSUME Shape, NEW entries \in Seq(Entries), entries # <<>>, NEW k \in AllKeys,
           NEW g \in 0 .. MaxIdentities, Underway(data, entries, k, g),
           data' = Put(entries[1])
    PROVE  Underway(data', Tail(entries), k, g)
<1> DEFINE rest == Tail(entries)
<1>a. /\ data.description \in [AllKeys -> {"absent", "intact", "cleared"}]
      /\ data.sealed \in [Names -> Ciphertexts]
      /\ \A n \in Names : DOMAIN data.sealed[n] = AllKeys
    BY DEF Shape, AccountData, Ciphertexts
<1>b. /\ Len(entries) \in Nat \ {0} /\ DOMAIN entries = 1 .. Len(entries)
      /\ rest \in Seq(Entries) /\ Len(rest) = Len(entries) - 1
      /\ DOMAIN rest = 1 .. Len(entries) - 1
      /\ \A i \in 1 .. Len(entries) - 1 : rest[i] = entries[i + 1] /\ i + 1 \in DOMAIN entries
    BY EmptySeq, LenProperties, HeadTailProperties
<1>c. \A i \in DOMAIN entries : i # 1 => i - 1 \in DOMAIN rest /\ rest[i - 1] = entries[i]
    BY <1>b
<1>d. \/ entries[1] = DescriptionEntry(k) /\ PutsDescription(k)
      \/ entries[1] = PointerEntry(k) /\ Len(entries) = 1 /\ PutsPointer(k)
      \/ \E n \in Names :
            entries[1].type = "secret" /\ entries[1].name = n /\ PutsSecret(n, k, g)
    BY NextPut
<1>e. data'.sealed = data.sealed \/ \E n \in Names : PutsSecret(n, k, g)
    BY <1>d DEF PutsDescription, PutsPointer
<1> HIDE DEF rest
<1>1. ASSUME NEW i \in DOMAIN rest
      PROVE  \/ rest[i] = DescriptionEntry(k)
             \/ rest[i] = PointerEntry(k) /\ i = Len(rest)
             \/ /\ rest[i].type = "secret"
                /\ rest[i].encrypted = [data'.sealed[rest[i].name] EXCEPT ![k] = g]
    <2>1. i + 1 \in DOMAIN entries /\ rest[i] = entries[i + 1]
        BY <1>b
    <2>2. CASE rest[i] = DescriptionEntry(k)
        BY <2>2
    <2>3. CASE rest[i] = PointerEntry(k) /\ i + 1 = Len(entries)
        BY <1>b, <2>3
    <2>4. CASE /\ rest[i].type = "secret"
               /\ rest[i].encrypted = [data.sealed[rest[i].name] EXCEPT ![k] = g]
        <3>1. rest[i] \in Entries
            BY <1>b, ElementOfSeq
        <3>2. rest[i].name \in Names
            BY <2>4, <3>1 DEF Entries, KeyEntries, SecretEntries
        <3>3. [data'.sealed[rest[i].name] EXCEPT ![k] = g]
                  = [data.sealed[rest[i].name] EXCEPT ![k] = g]
            BY <1>a, <1>e, <3>2 DEF PutsSecret
        <3>4. QED
            BY <2>4, <3>3
    <2>5. QED
        BY <2>1, <2>2, <2>3, <2>4 DEF Underway
<1>2. \/ data'.description[k] = "intact"
      \/ \E i \in DOMAIN rest : rest[i] = DescriptionEntry(k)
    <2>1. CASE data.description[k] = "intact"
        BY <1>a, <1>d, <2>1 DEF PutsDescription, PutsPointer, PutsSecret
    <2>2. ASSUME NEW i \in DOMAIN entries, entries[i] = DescriptionEntry(k)
          PROVE  \/ data'.description[k] = "intact"
                 \/ \E j \in DOMAIN rest : rest[j] = DescriptionEntry(k)
        <3>1. CASE i = 1
            <4>1. PutsDescription(k)
                BY <1>d, <2>2, <3>1 DEF DescriptionEntry, PointerEntry
            <4>2. QED
                BY <1>a, <4>1 DEF PutsDescription
        <3>2. CASE i # 1
            BY <1>c, <2>2, <3>2
        <3>3. QED
            BY <3>1, <3>2
    <2>3. QED
        BY <2>1, <2>2 DEF Underway
<1>3. ASSUME NEW n \in Names
      PROVE  \/ data'.sealed[n][k] = g
             \/ \E i \in DOMAIN rest : rest[i].type = "secret" /\ rest[i].name = n
    <2>1. CASE data.sealed[n][k] = g
        BY <1>a, <1>e, <2>1 DEF PutsSecret
    <2>2. ASSUME NEW i \in DOMAIN entries, entries[i].type = "secret", entries[i].name = n
          PROVE  \/ data'.sealed[n][k] = g
                 \/ \E j \in DOMAIN rest : rest[j].type = "secret" /\ rest[j].name = n
        <3>1. CASE i = 1
            <4>1. PutsSecret(n, k, g)
                BY <1>d, <2>2, <3>1 DEF DescriptionEntry, PointerEntry
            <4>2. QED
                BY <1>a, <4>1 DEF PutsSecret
        <3>2. CASE i # 1
            BY <1>c, <2>2, <3>2
        <3>3. QED
            BY <3>1, <3>2
    <2>3. QED
        BY <2>1, <2>2 DEF Underway
<1>4. QED
    BY <1>1, <1>2, <1>3 DEF Underway, rest

\* It closes nothing that opened: the pointer goes last, when all its key needs is
\* there, and the other entries add to what is there.
LEMMA OpeningKept ==
    ASSUME Shape, NEW entries \in Seq(Entries), entries # <<>>, NEW k \in AllKeys,
           NEW g \in 0 .. MaxIdentities, Underway(data, entries, k, g),
           data' = Put(entries[1]), Opens(data, g)
    PROVE  Opens(data', g)
<1>a. /\ data.description \in [AllKeys -> {"absent", "intact", "cleared"}]
      /\ data.sealed \in [Names -> Ciphertexts]
      /\ \A n \in Names : DOMAIN data.sealed[n] = AllKeys
    BY DEF Shape, AccountData, Ciphertexts
<1>b. Len(entries) \in Nat \ {0} /\ DOMAIN entries = 1 .. Len(entries)
    BY EmptySeq, LenProperties
<1>d. \/ entries[1] = DescriptionEntry(k) /\ PutsDescription(k)
      \/ entries[1] = PointerEntry(k) /\ Len(entries) = 1 /\ PutsPointer(k)
      \/ \E n \in Names :
            entries[1].type = "secret" /\ entries[1].name = n /\ PutsSecret(n, k, g)
    BY NextPut
<1>1. PICK key \in AllKeys : OpensWith(data, key, g)
    BY DEF Opens
<1>2. CASE PutsDescription(k)
    <2>1. OpensWith(data', key, g)
        BY <1>a, <1>1, <1>2 DEF OpensWith, PutsDescription
    <2>2. QED
        BY <2>1 DEF Opens
<1>3. CASE entries[1] = PointerEntry(k) /\ Len(entries) = 1 /\ PutsPointer(k)
    <2>1. \A i \in DOMAIN entries : entries[i].type = "default_key"
        BY <1>b, <1>3 DEF PointerEntry
    <2>2. data.description[k] = "intact" /\ \A n \in Names : data.sealed[n][k] = g
        BY <2>1 DEF Underway, DescriptionEntry
    <2>3. OpensWith(data', k, g)
        BY <1>3, <2>2 DEF OpensWith, PutsPointer
    <2>4. QED
        BY <2>3 DEF Opens
<1>4. ASSUME NEW n \in Names, PutsSecret(n, k, g)
      PROVE  Opens(data', g)
    <2>1. \A m \in Names : data'.sealed[m][key] = g
        BY <1>a, <1>1, <1>4 DEF OpensWith, PutsSecret
    <2>2. OpensWith(data', key, g)
        BY <1>1, <1>4, <2>1 DEF OpensWith, PutsSecret
    <2>3. QED
        BY <2>2 DEF Opens
<1>5. QED
    BY <1>d, <1>2, <1>3, <1>4

\* One device writes at a time past a list: a PUT leaves at most the device that made
\* it current, and only while it has more to write.
LEMMA CurrentStep ==
    ASSUME Shape, CurrentInv, [Next]_vars
    PROVE  CurrentInv'
<1>a. /\ current \subseteq Devices /\ DOMAIN writing = Devices /\ DOMAIN list = Devices
      /\ \A d \in Devices : device[d].seeds \in 0 .. MaxIdentities
    BY DEF Shape, DeviceStates
<1>1. ASSUME NEW d \in Devices, Relaunch(d) \/ Interrupted(d)
      PROVE  CurrentInv'
    <2>1. /\ current' = current \ {d} /\ UNCHANGED data
          /\ \A e \in Devices \ {d} : list'[e] = list[e] /\ writing'[e] = writing[e]
        BY <1>1, <1>a DEF Relaunch, Interrupted
    <2>2. QED
        BY <1>a, <2>1 DEF CurrentInv
<1>2. ASSUME NEW d \in Devices, ReadAccountData(d)
      PROVE  CurrentInv'
    <2>1. /\ current' = current \cup {d} /\ UNCHANGED <<data, writing>>
          /\ writing[d] = Idle /\ list'[d] = data
          /\ \A e \in Devices \ {d} : list'[e] = list[e]
        BY <1>2, <1>a DEF ReadAccountData
    <2>2. QED
        BY <1>a, <2>1 DEF CurrentInv
<1>3. ASSUME NEW d \in Devices, CreateRecovery(d)
      PROVE  CurrentInv'
    <2>1. PICK route \in Routes, k \in Unused :
             /\ route = "revoke" => PointedKey(list[d]) \in KeyIds
             /\ writing' = [writing EXCEPT ![d] =
                    [route    |-> route,
                     identity |-> device[d].seeds,
                     entries  |-> ToWrite(d, route, Setup(Handed(d, route), k, device[d].seeds))]]
        BY <1>3 DEF CreateRecovery
    <2>2. /\ UNCHANGED <<data, current>> /\ writing[d] = Idle /\ k \in KeyIds
          /\ \A e \in Devices \ {d} : list'[e] = list[e] /\ writing'[e] = writing[e]
        BY <1>3, <1>a, <2>1 DEF CreateRecovery, Unused, ghosts
    <2>3. PICK g \in 0 .. MaxIdentities, written \in Seq(Entries) :
             /\ g = device[d].seeds
             /\ written = ToWrite(d, route, Setup(Handed(d, route), k, device[d].seeds))
             /\ written # <<>>
        BY <1>a, <2>1, <2>2, HandedSetup
    <2>4. /\ writing'[d].entries = written /\ writing'[d].route = route
          /\ writing'[d].identity = g
        BY <1>a, <2>1, <2>3
    <2>5. writing'[d] # Idle
        BY <2>3, <2>4 DEF Idle
    <2>6. d \in current /\ route \notin {"nothing", "revoke"} => Underway(data, written, k, g)
        BY <2>2, <2>3, SetupUnderway DEF CurrentInv
    <2>7. d \in current /\ route \notin {"nothing", "revoke"} =>
             \E key \in KeyIds : Underway(data', writing'[d].entries, key, writing'[d].identity)
        BY <2>2, <2>4, <2>6
    <2>8. ASSUME NEW e \in current \ {d}
          PROVE  /\ writing'[e] = Idle => list'[e] = data'
                 /\ writing'[e] # Idle /\ writing'[e].route \notin {"nothing", "revoke"} =>
                       \E key \in KeyIds :
                          Underway(data', writing'[e].entries, key, writing'[e].identity)
        BY <1>a, <2>2 DEF CurrentInv
    <2>9. QED
        BY <2>2, <2>4, <2>5, <2>7, <2>8 DEF CurrentInv
<1>4. ASSUME NEW d \in Devices, PutNext(d)
      PROVE  CurrentInv'
    <2>1. PICK entries \in Seq(Entries), g \in 0 .. MaxIdentities :
             entries = writing[d].entries /\ g = writing[d].identity
        BY DEF Shape, Setups
    <2>2. entries # <<>> /\ data' = Put(entries[1])
        BY <1>4, <2>1, RestOfEntries DEF PutNext
    <2>3. writing[d] # Idle
        BY <2>1, <2>2 DEF Idle
    <2>4. CASE writing'[d] = Idle
        BY <1>4, <2>4 DEF PutNext, CurrentInv
    <2>5. CASE writing'[d] # Idle
        <3>1. current' = current \cap {d}
            BY <1>4, <2>5 DEF PutNext
        <3>2. /\ writing'[d].entries = Tail(entries) /\ writing'[d].identity = g
              /\ writing'[d].route = writing[d].route
            BY <1>4, <1>a, <2>1, <2>5 DEF PutNext, Shape, Setups
        <3>3. ASSUME d \in current, writing[d].route \notin {"nothing", "revoke"}
              PROVE  \E k \in KeyIds : Underway(data', writing'[d].entries, k, writing'[d].identity)
            <4>1. PICK k \in KeyIds : Underway(data, entries, k, g)
                BY <2>1, <2>3, <3>3 DEF CurrentInv
            <4>2. Underway(data', Tail(entries), k, g)
                BY <2>2, <4>1, UnderwayKept DEF AllKeys
            <4>3. QED
                BY <3>2, <4>2
        <3>4. QED
            BY <2>5, <3>1, <3>2, <3>3 DEF CurrentInv
    <2>6. QED
        BY <2>4, <2>5
<1>5. CASE ClearPointer
    BY <1>5 DEF ClearPointer, CurrentInv
<1>6. CASE UNCHANGED <<data, list, writing, current>>
    BY <1>6 DEF CurrentInv
<1>7. QED
    BY <1>1, <1>2, <1>3, <1>4, <1>5, <1>6
       DEF Next, ResetElsewhere, Publish, Accept, Mint, KeysAnswered, Join,
           RecoverIdentity, vars, ghosts

LEMMA KeepsOpeningAction ==
    ASSUME Shape, CurrentInv, Next
    PROVE  \/ ~Opens(data, account)
           \/ account' # account \/ data'.pointer = Cleared
           \/ Opens(data', account)
           \/ \E d \in Devices : writing'[d] # writing[d] /\ Risky(d)
<1>1. CASE UNCHANGED data
    BY <1>1
<1>2. CASE ClearPointer
    BY <1>2 DEF ClearPointer, Shape, AccountData
<1>3. ASSUME NEW d \in Devices, PutNext(d), Opens(data, account)
      PROVE  \/ Opens(data', account)
             \/ writing'[d] # writing[d] /\ Risky(d)
    <2>1. PICK entries \in Seq(Entries), g \in 0 .. MaxIdentities :
             entries = writing[d].entries /\ g = writing[d].identity
        BY DEF Shape, Setups
    <2>2. entries # <<>> /\ data' = Put(entries[1])
        BY <1>3, <2>1, RestOfEntries DEF PutNext
    <2>3. writing[d] # Idle
        BY <2>1, <2>2 DEF Idle
    <2>4. CASE Risky(d)
        <3>1. writing'[d].entries = <<>> \/ writing'[d].entries = Tail(entries)
            BY <1>3, <2>1 DEF PutNext, Shape, Setups, Idle
        <3>2. Len(entries) \in Nat /\ Len(Tail(entries)) = Len(entries) - 1
            BY <2>1, <2>2, RestOfEntries
        <3>3. QED
            <4>1. Len(Tail(entries)) # Len(entries)
                BY <3>2
            <4>2. QED
                BY <2>1, <2>2, <2>4, <3>1, <4>1
    <2>5. CASE ~Risky(d)
        <3>1. PICK k \in KeyIds : Underway(data, entries, k, g)
            BY <2>1, <2>3, <2>5 DEF CurrentInv, Risky
        <3>2. g = account
            BY <2>1, <2>5 DEF Risky
        <3>3. QED
            BY <1>3, <2>2, <3>1, <3>2, OpeningKept DEF AllKeys
    <2>6. QED
        BY <2>4, <2>5
<1>4. QED
    BY <1>1, <1>2, <1>3
       DEF Next, ResetElsewhere, Publish, Accept, Mint, KeysAnswered, Join, Relaunch,
           ReadAccountData, CreateRecovery, Interrupted, RecoverIdentity

\* While the account keeps its identity, no PUT of a setup and no interruption of one
\* takes away a recovery that opens, whoever made it and however many private keys an
\* account has, unless the write is risky.
THEOREM RecoveryKeepsOpeningHolds == Spec => RecoveryKeepsOpening
<1>1. Init => Shape /\ CurrentInv
    BY ShapeInit DEF Init, CurrentInv
<1>2. (Shape /\ CurrentInv) /\ [Next]_vars => (Shape /\ CurrentInv)'
    BY ShapeStep, CurrentStep
<1>3. (Shape /\ CurrentInv) /\ [Next]_vars =>
         [\/ ~Opens(data, account)
          \/ account' # account \/ data'.pointer = Cleared
          \/ Opens(data', account)
          \/ \E d \in Devices : writing'[d] # writing[d] /\ Risky(d)]_vars
    BY KeepsOpeningAction
<1>4. QED
    BY <1>1, <1>2, <1>3, PTL DEF Spec, RecoveryKeepsOpening
=============================================================================
