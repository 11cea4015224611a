---------------------- MODULE CommitteeRotationProofs ----------------------
(* Proofs that committee rotation is safe for every epoch length, every    *)
(* selection function and every pattern of skipped slots.                  *)
EXTENDS CommitteeRotation, TLAPS

\* Division by an epoch length is a natural number ...
LEMMA DivNat == ASSUME NEW a \in Nat, NEW d \in Nat \ {0} PROVE a \div d \in Nat
  OBVIOUS

\* ... and does not decrease when the slot grows.
LEMMA DivMonotone ==
  ASSUME NEW a \in Int, NEW b \in Int, NEW d \in Nat \ {0}, a <= b
  PROVE  a \div d <= b \div d
  OBVIOUS

\* A whole divisor more in the dividend is one more in the quotient.
LEMMA DivShift ==
  ASSUME NEW a \in Int, NEW d \in Nat \ {0}
  PROVE  (a + d) \div d = a \div d + 1 /\ a \div d \in Int
  OBVIOUS

\* An epoch starts no later than any of its slots.
LEMMA DivTimes ==
  ASSUME NEW a \in Nat, NEW d \in Nat \ {0}, NEW q \in Nat, q <= a \div d
  PROVE  q * d <= a /\ (q + 1) * d <= a + d /\ q * d \in Nat /\ (q + 1) * d \in Nat
  OBVIOUS

\* The epoch of a slot is a natural number and grows with the slot.
LEMMA EpochOfNat == \A s \in Nat : EpochOf(s) \in Nat
  BY DivNat, SlotAssumption DEF EpochOf

LEMMA EpochOfMonotone == \A s, t \in Nat : s <= t => EpochOf(s) <= EpochOf(t)
  BY DivMonotone, SlotAssumption DEF EpochOf

-----------------------------------------------------------------------------
(* The inductive invariant. *)

\* Before block 1 the storage is that of genesis.
GenesisStorage ==
    atGenesis => /\ currentCommittee = [epoch |-> 0, committee |-> GenesisCommittee]
                 /\ nextCommittee = NoCommittee
                 /\ currentIndex = 0

\* From block 1 on, its epoch is known.
FirstEpochKnown == ~atGenesis => firstEpoch \in Nat

IInv ==
    /\ TypeOK
    /\ GenesisStorage
    /\ FirstEpochKnown
    /\ CommitteePrepared
    /\ SessionServesCommittee
    /\ NextCommitteeIsSelected

LEMMA InitIInv == Init => IInv
  <1> SUFFICES ASSUME Init PROVE IInv
    OBVIOUS
  <1>1. TypeOK
    BY ValidatorAssumption DEF Init, TypeOK, CommitteeInfos, NoInputs, InputSets
  <1>2. GenesisStorage /\ FirstEpochKnown /\ CommitteePrepared /\ NextCommitteeIsSelected
    BY DEF Init, GenesisStorage, FirstEpochKnown, CommitteePrepared, NextCommitteeIsSelected
  <1>3. SessionServesCommittee
    BY DEF Init, SessionServesCommittee
  <1> QED BY <1>1, <1>2, <1>3 DEF IInv

\* What initialization of a block makes of the two committees.
LEMMA RotationFacts ==
  ASSUME IInv, NEW s \in Nat, s > currentSlot
  PROVE  /\ CurrentAfterInit(s) \in CommitteeInfos
         /\ CurrentAfterInit(s).epoch <= EpochOf(s)
         /\ InherentCreated(s) <=> atGenesis \/ ShouldEndSession(s)
         /\ ShouldEndSession(s) => ~atGenesis
         /\ atGenesis => CurrentAfterInit(s) =
                           [epoch |-> EpochOf(s), committee |-> GenesisCommittee]
         /\ ~atGenesis /\ ~ShouldEndSession(s) =>
                CurrentAfterInit(s) = currentCommittee /\ EpochOf(s) <= currentCommittee.epoch
         /\ ShouldEndSession(s) => CurrentAfterInit(s) = nextCommittee
  <1>1. EpochOf(s) \in Nat /\ EpochOf(currentSlot) <= EpochOf(s) /\ EpochOf(currentSlot) \in Nat
    BY EpochOfNat, EpochOfMonotone DEF IInv, TypeOK
  <1>2. CASE atGenesis
    <2>1. nextCommittee = NoCommittee /\ currentCommittee = [epoch |-> 0, committee |-> GenesisCommittee]
      BY <1>2 DEF IInv, GenesisStorage
    <2>2. ~ShouldEndSession(s) /\ NextAfterInit(s) = NoCommittee
      BY <2>1 DEF ShouldEndSession, NextAfterInit
    <2>3. CurrentAfterInit(s) = [epoch |-> EpochOf(s), committee |-> GenesisCommittee]
      BY <1>2, <2>1, <2>2 DEF CurrentAfterInit, CurrentAtInit
    <2> QED
      BY <1>1, <1>2, <2>2, <2>3, ValidatorAssumption DEF InherentCreated, CommitteeInfos
  <1>3. CASE ~atGenesis
    <2>1. /\ nextCommittee \in CommitteeInfos /\ nextCommittee # NoCommittee
          /\ currentCommittee \in CommitteeInfos
          /\ nextCommittee.epoch = currentCommittee.epoch + 1
          /\ currentCommittee.epoch <= EpochOf(currentSlot)
          /\ currentCommittee.epoch \in Nat
      BY <1>3 DEF IInv, TypeOK, CommitteePrepared, CommitteeInfos
    <2>2. CurrentAtInit(s) = currentCommittee
      BY <1>3 DEF CurrentAtInit
    <2>3. CASE ShouldEndSession(s)
      <3>1. CurrentAfterInit(s) = nextCommittee /\ NextAfterInit(s) = NoCommittee
        BY <2>3 DEF CurrentAfterInit, NextAfterInit
      <3>2. EpochOf(s) > currentCommittee.epoch
        BY <2>2, <2>3 DEF ShouldEndSession
      <3> QED BY <1>1, <1>3, <2>1, <2>3, <3>1, <3>2 DEF InherentCreated
    <2>4. CASE ~ShouldEndSession(s)
      <3>1. CurrentAfterInit(s) = currentCommittee /\ NextAfterInit(s) = nextCommittee
        BY <2>2, <2>4 DEF CurrentAfterInit, NextAfterInit
      <3>2. EpochOf(s) <= currentCommittee.epoch
        BY <1>1, <2>1, <2>2, <2>4 DEF ShouldEndSession
      <3> QED BY <1>1, <1>3, <2>1, <2>4, <3>1, <3>2 DEF InherentCreated
    <2> QED BY <2>3, <2>4
  <1> QED BY <1>2, <1>3

\* The `set` call of the block carries a well-formed committee.
LEMMA CallFacts ==
  ASSUME IInv, NEW s \in Nat, NEW lag \in Int, s > currentSlot,
         McEpochForNextAriadneCidp(s) \in DataEpochOffset..MaxEpoch, EpochOf(s) < MaxEpoch,
         NEW data, data = AriadneInherentData(s, lag),
         NEW call, call = CreateInherent(s, data.inputs)
  PROVE  /\ call.forEpoch \in Nat
         /\ call.forEpoch = CurrentAfterInit(s).epoch + 1
         /\ call.validators \in Committees
         /\ data.inputs \in InputSets
         /\ data.inputs.mcEpoch = ScEpochToMcEpoch(EpochForInputs(s))
  <1>1. /\ CurrentAfterInit(s) \in CommitteeInfos
        /\ CurrentAfterInit(s).epoch <= EpochOf(s)
    BY RotationFacts
  <1>2. EpochOf(s) \in Nat
    BY EpochOfNat
  <1>3. /\ data.inputs = [scripts |-> mainChainScripts, mcEpoch |-> McEpochForNextAriadneCidp(s)]
        /\ mainChainScripts \in Scripts
        /\ data.inputs.mcEpoch \in 0..MaxEpoch
        /\ data.inputs.mcEpoch = McEpochForNextAriadneCidp(s)
        /\ data.inputs.scripts = mainChainScripts
    BY SlotAssumption DEF AriadneInherentData, IInv, TypeOK, DataEpochOffset
  <1>4. /\ call.forEpoch = CurrentAfterInit(s).epoch + 1
        /\ call.forEpoch \in 0..MaxEpoch
    BY <1>1, <1>2, SlotAssumption DEF CreateInherent, CommitteeInfos
  <1>5. SelectFrom(data.inputs, call.forEpoch) \in Selections
    BY <1>3, <1>4, SelectionAssumption DEF SelectFrom
  <1>6. call.validators = IF SelectFrom(data.inputs, call.forEpoch).found
                          THEN SelectFrom(data.inputs, call.forEpoch).committee
                          ELSE CurrentAfterInit(s).committee
    BY <1>4 DEF CreateInherent
  <1>7. call.validators \in Committees
    BY <1>1, <1>5, <1>6 DEF Selections, CommitteeInfos
  <1> QED BY <1>3, <1>4, <1>7 DEF InputSets, McEpochForNextAriadneCidp

\* A block preserves the invariant.
LEMMA BlockIInv ==
  ASSUME IInv, NEW s \in Nat, NEW lag \in Int, ExecuteBlock(s, lag), mainChainScripts' \in Scripts
  PROVE  IInv'
  <1> DEFINE data == AriadneInherentData(s, lag)
             call == CreateInherent(s, data.inputs)
  <1>1. /\ s > currentSlot
        /\ McEpochForNextAriadneCidp(s) \in DataEpochOffset..MaxEpoch
        /\ EpochOf(s) < MaxEpoch
        /\ currentSlot' = s
        /\ atGenesis' = FALSE
        /\ epochNumber' = EpochOf(s)
        /\ currentCommittee' = CurrentAfterInit(s)
        /\ RotateSession(s)
        /\ nextCommittee' = IF InherentCreated(s)
                            THEN [epoch |-> call.forEpoch, committee |-> call.validators]
                            ELSE nextCommittee
        /\ nextInputs' = IF InherentCreated(s) THEN data.inputs ELSE nextInputs
        /\ firstEpoch' = IF atGenesis THEN EpochOf(s) ELSE firstEpoch
    BY DEF ExecuteBlock
  <1>2. /\ call.forEpoch \in Nat
        /\ call.forEpoch = CurrentAfterInit(s).epoch + 1
        /\ call.validators \in Committees
        /\ data.inputs \in InputSets
        /\ data.inputs.mcEpoch = ScEpochToMcEpoch(EpochForInputs(s))
    BY <1>1, CallFacts
  <1>3. /\ CurrentAfterInit(s) \in CommitteeInfos
        /\ CurrentAfterInit(s).epoch <= EpochOf(s)
        /\ InherentCreated(s) <=> atGenesis \/ ShouldEndSession(s)
        /\ ShouldEndSession(s) => ~atGenesis
        /\ atGenesis => CurrentAfterInit(s) =
                          [epoch |-> EpochOf(s), committee |-> GenesisCommittee]
        /\ ~atGenesis /\ ~ShouldEndSession(s) =>
               CurrentAfterInit(s) = currentCommittee /\ EpochOf(s) <= currentCommittee.epoch
        /\ ShouldEndSession(s) => CurrentAfterInit(s) = nextCommittee
    BY <1>1, RotationFacts
  <1>4. EpochOf(s) \in Nat
    BY EpochOfNat
  <1> HIDE DEF data, call
  <1>5. ~atGenesis => /\ nextCommittee \in CommitteeInfos
                      /\ nextCommittee # NoCommittee
                      /\ nextCommittee.epoch = currentCommittee.epoch + 1
                      /\ currentCommittee.epoch \in Nat
                      /\ firstEpoch \in Nat
                      /\ currentIndex = currentCommittee.epoch - firstEpoch
    BY DEF IInv, TypeOK, CommitteePrepared, FirstEpochKnown, CommitteeInfos, SessionServesCommittee
  <1>6. SessionServesCommittee' /\ currentIndex' \in Nat /\ sessionIndex' \in Nat
    <2>1. CASE ShouldEndSession(s)
      <3>1. /\ ~atGenesis
            /\ currentCommittee' = nextCommittee
            /\ firstEpoch' = firstEpoch
        BY <1>1, <1>3, <2>1
      <3>2. /\ currentIndex' = currentIndex + 1
            /\ sessionIndex' = currentIndex'
            /\ validatorsAndKeys' = nextCommittee.committee
            /\ auraAuthorities' = IF nextCommittee.committee = <<>> THEN auraAuthorities
                                  ELSE nextCommittee.committee
        BY <1>1, <2>1 DEF RotateSession, RotateValidators
      <3>3. currentIndex' \in Nat /\ sessionIndex' \in Nat
        BY <3>2 DEF IInv, TypeOK
      <3>4. currentIndex' = currentCommittee'.epoch - firstEpoch'
        BY <1>5, <3>1, <3>2
      <3>5. GenesisCommittee # <<>> => auraAuthorities' # <<>>
        BY <3>2 DEF IInv, SessionServesCommittee
      <3> QED BY <3>1, <3>2, <3>3, <3>4, <3>5 DEF SessionServesCommittee
    <2>2. CASE ~ShouldEndSession(s)
      <3>1. UNCHANGED sessionVars
        BY <1>1, <2>2 DEF RotateSession
      <3>2. currentCommittee'.committee = currentCommittee.committee
        BY <1>1, <1>3, <2>2 DEF IInv, GenesisStorage
      <3>3. currentIndex = currentCommittee'.epoch - firstEpoch'
        BY <1>1, <1>3, <1>4, <1>5, <2>2 DEF IInv, GenesisStorage
      <3> QED BY <1>1, <3>1, <3>2, <3>3 DEF sessionVars, SessionServesCommittee, IInv, TypeOK
    <2> QED BY <2>1, <2>2
  <1>7. CommitteePrepared'
    <2>1. nextCommittee' # NoCommittee /\ nextCommittee'.epoch = currentCommittee'.epoch + 1
      BY <1>1, <1>2, <1>3, <1>5 DEF NoCommittee
    <2>2. currentCommittee'.epoch <= EpochOf(s)
      BY <1>1, <1>3
    <2> QED BY <1>1, <2>1, <2>2 DEF CommitteePrepared, EpochOf
  <1>8. GenesisStorage' /\ FirstEpochKnown'
    BY <1>1, <1>4, <1>5 DEF GenesisStorage, FirstEpochKnown
  <1>9. TypeOK'
    <2>1. providers' \in [Validators -> Int]
      <3>1. CASE ShouldEndSession(s)
        BY <1>1, <3>1 DEF RotateSession, RotateValidators, ChangeAccountProviders, IInv, TypeOK
      <3>2. CASE ~ShouldEndSession(s)
        BY <1>1, <3>2 DEF RotateSession, sessionVars, IInv, TypeOK
      <3> QED BY <3>1, <3>2
    <2>2. currentCommittee' \in CommitteeInfos /\ currentCommittee'.committee \in Committees
      BY <1>1, <1>3 DEF CommitteeInfos
    <2>3. validatorsAndKeys' \in Committees
      BY <2>2, <1>6 DEF SessionServesCommittee
    <2>4. auraAuthorities' \in Committees
      <3>1. CASE ShouldEndSession(s)
        BY <1>1, <1>3, <1>5, <3>1 DEF RotateSession, CommitteeInfos, IInv, TypeOK
      <3>2. CASE ~ShouldEndSession(s)
        BY <1>1, <3>2 DEF RotateSession, sessionVars, IInv, TypeOK
      <3> QED BY <3>1, <3>2
    <2>5. nextCommittee' \in CommitteeInfos \cup {NoCommittee}
      BY <1>1, <1>2 DEF CommitteeInfos, IInv, TypeOK
    <2>6. nextInputs' \in InputSets
      BY <1>1, <1>2 DEF IInv, TypeOK
    <2>7. firstEpoch' \in Nat \cup {-1}
      BY <1>1, <1>4 DEF IInv, TypeOK
    <2> QED BY <1>1, <1>4, <1>6, <2>1, <2>2, <2>3, <2>4, <2>5, <2>6, <2>7 DEF TypeOK
  <1>10. NextCommitteeIsSelected'
    <2> DEFINE inputEpoch == IF nextCommittee'.epoch = firstEpoch' + 1
                             THEN firstEpoch' ELSE nextCommittee'.epoch
    <2>1. CASE InherentCreated(s)
      <3>1. nextCommittee' = [epoch |-> call.forEpoch, committee |-> call.validators]
            /\ nextInputs' = data.inputs
        BY <1>1, <2>1
      <3>2. nextInputs'.mcEpoch = ScEpochToMcEpoch(inputEpoch)
        <4>1. CASE atGenesis
          <5>1. GetNextUnsetEpochNumber = 1
            BY <4>1 DEF GetNextUnsetEpochNumber, IInv, GenesisStorage
          <5>2. EpochForInputs(s) = EpochOf(s) /\ firstEpoch' = EpochOf(s)
            BY <1>1, <4>1, <5>1 DEF EpochForInputs
          <5>3. nextCommittee'.epoch = EpochOf(s) + 1
            BY <1>2, <1>3, <3>1, <4>1
          <5> QED BY <1>2, <3>1, <5>2, <5>3
        <4>2. CASE ~atGenesis
          <5>1. ShouldEndSession(s) /\ CurrentAfterInit(s) = nextCommittee
            BY <1>3, <2>1, <4>2
          <5>2. GetNextUnsetEpochNumber = nextCommittee.epoch + 1 /\ nextCommittee.epoch + 1 # 1
            BY <1>5, <4>2 DEF GetNextUnsetEpochNumber
          <5>3. nextCommittee'.epoch = nextCommittee.epoch + 1
                /\ EpochForInputs(s) = nextCommittee.epoch + 1
            BY <1>2, <3>1, <5>1, <5>2 DEF EpochForInputs
          <5>4. nextCommittee'.epoch # firstEpoch' + 1
            BY <1>1, <1>5, <4>2, <5>3 DEF IInv, TypeOK
          <5> QED BY <1>2, <3>1, <5>3, <5>4
        <4> QED BY <4>1, <4>2
      <3>3. call.validators = IF SelectFrom(data.inputs, call.forEpoch).found
                              THEN SelectFrom(data.inputs, call.forEpoch).committee
                              ELSE CurrentAfterInit(s).committee
        BY <1>2 DEF CreateInherent, call
      <3> QED BY <1>1, <3>1, <3>2, <3>3 DEF NextCommitteeIsSelected, SelectFrom, ScEpochToMcEpoch, EpochStartSlot
    <2>2. CASE ~InherentCreated(s)
      <3>1. ~atGenesis /\ UNCHANGED <<nextCommittee, nextInputs, firstEpoch, currentCommittee>>
        BY <1>1, <1>3, <2>2
      <3> QED BY <3>1 DEF IInv, NextCommitteeIsSelected, SelectFrom, ScEpochToMcEpoch, EpochStartSlot
    <2> QED BY <2>1, <2>2
  <1> QED BY <1>6, <1>7, <1>8, <1>9, <1>10 DEF IInv

LEMMA NextIInv == IInv /\ [Next]_vars => IInv'
  <1> SUFFICES ASSUME IInv, [Next]_vars PROVE IInv'
    OBVIOUS
  <1>1. CASE Next
    <2>1. PICK s \in FirstSlot..MaxSlot, lag \in MinLag..MaxLag :
              \/ ProduceBlock(s, lag)
              \/ \E newScripts \in Scripts : ProduceBlockSettingScripts(s, lag, newScripts)
      BY <1>1 DEF Next
    <2>2. s \in Nat /\ lag \in Int
      BY SlotAssumption
    <2>3. CASE ProduceBlock(s, lag)
      BY <2>2, <2>3, BlockIInv DEF ProduceBlock, IInv, TypeOK
    <2>4. CASE \E newScripts \in Scripts : ProduceBlockSettingScripts(s, lag, newScripts)
      BY <2>2, <2>4, BlockIInv DEF ProduceBlockSettingScripts
    <2> QED BY <2>1, <2>3, <2>4
  <1>2. CASE UNCHANGED vars
    BY <1>2 DEF vars, chainVars, committeeVars, sessionVars, historyVars, IInv, TypeOK,
                GenesisStorage, FirstEpochKnown, CommitteePrepared, SessionServesCommittee,
                NextCommitteeIsSelected, EpochOf, SelectFrom, ScEpochToMcEpoch, EpochStartSlot
  <1> QED BY <1>1, <1>2

\* The inductive invariant holds in every reachable state.
THEOREM InvariantHolds == Spec => []IInv
  BY InitIInv, NextIInv, PTL DEF Spec

-----------------------------------------------------------------------------
(* Results. *)

\* Every storage item always holds a value of its type.
THEOREM TypeCorrect == Spec => []TypeOK
  BY InvariantHolds, PTL DEF IInv

\* After every block the committee of the next epoch is stored, and none serves
\* before its epoch: new_session's expect never fires, whatever slots are skipped.
THEOREM CommitteeAlwaysPrepared == Spec => []CommitteePrepared
  BY InvariantHolds, PTL DEF IInv

\* The session pallets and, unless it is empty, Aura always work with the current
\* committee; Aura never runs out of authorities.
THEOREM SessionAlwaysServesCommittee == Spec => []SessionServesCommittee
  BY InvariantHolds, PTL DEF IInv

\* Every stored committee was selected from the inputs of its own epoch.
THEOREM CommitteeAlwaysSelected == Spec => []NextCommitteeIsSelected
  BY InvariantHolds, PTL DEF IInv

\* The call made after the rotation is the one check_inherent recomputes before it.
LEMMA IInvVerifies == IInv => HonestInherentVerifies
  <1> SUFFICES ASSUME IInv, NEW s \in FutureSlots, NEW lag \in MinLag..MaxLag
               PROVE  LET data == AriadneInherentData(s, lag)
                          call == CreateInherent(s, data.inputs)
                      IN  /\ IsInherentRequired => InherentCreated(s)
                          /\ InherentCreated(s) =>
                                CheckInherent(call, data.inputs) /\ SetSucceeds(call, s)
    BY DEF HonestInherentVerifies
  <1> DEFINE inputs == AriadneInherentData(s, lag).inputs
             call == CreateInherent(s, inputs)
             fallback == IF nextCommittee # NoCommittee THEN nextCommittee ELSE currentCommittee
  <1>1. s \in Nat /\ s > currentSlot
    BY SlotAssumption DEF FutureSlots
  <1>2. /\ InherentCreated(s) <=> atGenesis \/ ShouldEndSession(s)
        /\ ShouldEndSession(s) => ~atGenesis
        /\ atGenesis => CurrentAfterInit(s) =
                          [epoch |-> EpochOf(s), committee |-> GenesisCommittee]
        /\ ShouldEndSession(s) => CurrentAfterInit(s) = nextCommittee
    BY <1>1, RotationFacts
  <1>3. IsInherentRequired => InherentCreated(s)
    BY <1>2 DEF IsInherentRequired, IInv, CommitteePrepared
  <1>4. ASSUME InherentCreated(s) PROVE CurrentAfterInit(s).committee = fallback.committee
    BY <1>2, <1>4 DEF IInv, GenesisStorage, ShouldEndSession
  <1>5. ASSUME InherentCreated(s) PROVE CheckInherent(call, inputs)
    BY <1>4, <1>5 DEF CheckInherent, CreateInherent
  <1>6. ASSUME InherentCreated(s) PROVE SetSucceeds(call, s)
    BY <1>6 DEF SetSucceeds, CreateInherent, InherentCreated
  <1> QED BY <1>3, <1>5, <1>6

\* An honest author's `set` call always passes verification on the parent state.
THEOREM HonestInherentAlwaysVerifies == Spec => []HonestInherentVerifies
  BY InvariantHolds, IInvVerifies, PTL

\* One block moves the committee at most one epoch, and moves it whenever it lags.
THEOREM CommitteeCatchesUp == Spec => OneEpochPerBlock
  <1> DEFINE Step == ~atGenesis =>
                       \/ currentCommittee'.epoch = currentCommittee.epoch + 1
                       \/ /\ currentCommittee' = currentCommittee
                          /\ currentCommittee.epoch = EpochOf(currentSlot')
  <1>1. ASSUME IInv, [Next]_vars PROVE [Step]_vars
    <2>1. ASSUME NEW s \in FirstSlot..MaxSlot, NEW lag \in MinLag..MaxLag,
                 ExecuteBlock(s, lag), ~atGenesis
          PROVE  Step
      <3>1. s \in Nat /\ s > currentSlot /\ currentSlot' = s
            /\ currentCommittee' = CurrentAfterInit(s)
        BY <2>1, SlotAssumption DEF ExecuteBlock
      <3>2. /\ ~ShouldEndSession(s) => CurrentAfterInit(s) = currentCommittee
                                       /\ EpochOf(s) <= currentCommittee.epoch
            /\ ShouldEndSession(s) => CurrentAfterInit(s) = nextCommittee
        BY <1>1, <2>1, <3>1, RotationFacts
      <3>3. /\ nextCommittee.epoch = currentCommittee.epoch + 1
            /\ currentCommittee.epoch <= EpochOf(currentSlot)
            /\ currentCommittee.epoch \in Nat
        BY <1>1, <2>1 DEF IInv, CommitteePrepared, TypeOK, CommitteeInfos
      <3>4. EpochOf(currentSlot) <= EpochOf(s) /\ EpochOf(currentSlot) \in Nat /\ EpochOf(s) \in Nat
        BY <1>1, <3>1, EpochOfMonotone, EpochOfNat DEF IInv, TypeOK
      <3> QED BY <3>1, <3>2, <3>3, <3>4
    <2> QED BY <1>1, <2>1 DEF Next, ProduceBlock, ProduceBlockSettingScripts
  <1> QED BY <1>1, InvariantHolds, PTL DEF Spec, OneEpochPerBlock

\* The selection inputs are available to every block that needs them, so that the
\* expect of inherent_data_to_authority_selection_inputs never fires, provided
\* that an epoch and the age of a main chain reference together fit into a main
\* chain epoch.
THEOREM InputsAlwaysProvided ==
  ASSUME MaxLag + SlotsPerEpoch <= SlotsPerMcEpoch
  PROVE  Spec => []InputsProvidedWhenNeeded
  <1>1. ASSUME IInv PROVE InputsProvidedWhenNeeded
    <2> SUFFICES ASSUME NEW s \in FutureSlots, NEW lag \in MinLag..MaxLag, InherentCreated(s)
                 PROVE  AriadneInherentData(s, lag).provided
      BY DEF InputsProvidedWhenNeeded
    <2> DEFINE start == EpochStartSlot(EpochForInputs(s))
    <2>1. s \in Nat /\ s > currentSlot /\ lag \in Nat
      BY SlotAssumption DEF FutureSlots
    <2>2. EpochOf(s) \in Nat
      BY <2>1, EpochOfNat
    <2>3. start \in Nat /\ start <= s + SlotsPerEpoch
      <3>1. CASE atGenesis
        <4>1. EpochForInputs(s) = EpochOf(s)
          BY <1>1, <3>1 DEF EpochForInputs, GetNextUnsetEpochNumber, IInv, GenesisStorage
        <4>2. EpochOf(s) * SlotsPerEpoch <= s /\ EpochOf(s) * SlotsPerEpoch \in Nat
          BY <2>1, <2>2, DivTimes, SlotAssumption DEF EpochOf
        <4> QED BY <2>1, <4>1, <4>2, SlotAssumption DEF EpochStartSlot
      <3>2. CASE ~atGenesis
        <4>1. ShouldEndSession(s)
          BY <1>1, <2>1, <3>2, RotationFacts
        <4>2. /\ nextCommittee.epoch = currentCommittee.epoch + 1
              /\ nextCommittee # NoCommittee
              /\ currentCommittee.epoch \in Nat
          BY <1>1, <3>2 DEF IInv, TypeOK, CommitteePrepared, CommitteeInfos
        <4>3. EpochForInputs(s) = nextCommittee.epoch + 1
          BY <4>2 DEF EpochForInputs, GetNextUnsetEpochNumber
        <4>4. EpochOf(s) > currentCommittee.epoch
          BY <3>2, <4>1 DEF ShouldEndSession, CurrentAtInit
        <4>5. nextCommittee.epoch \in Nat /\ nextCommittee.epoch <= s \div SlotsPerEpoch
          BY <2>2, <4>2, <4>4 DEF EpochOf
        <4> QED BY <2>1, <4>3, <4>5, DivTimes, SlotAssumption DEF EpochStartSlot
      <3> QED BY <3>1, <3>2
    <2> HIDE DEF start
    <2> DEFINE ref == s - lag
    <2>4. ref \in Int /\ start <= ref + SlotsPerMcEpoch
      BY <2>1, <2>3, SlotAssumption
    <2> HIDE DEF ref
    <2>5. start \div SlotsPerMcEpoch <= (ref + SlotsPerMcEpoch) \div SlotsPerMcEpoch
      BY <2>3, <2>4, DivMonotone, SlotAssumption, SMTT(30)
    <2>6. (ref + SlotsPerMcEpoch) \div SlotsPerMcEpoch = ref \div SlotsPerMcEpoch + 1
      BY <2>4, DivShift, SlotAssumption
    <2>7. start \div SlotsPerMcEpoch \in Int /\ ref \div SlotsPerMcEpoch \in Int
      BY <2>3, <2>4, DivShift, SlotAssumption
    <2>8. start \div SlotsPerMcEpoch - 2 < ref \div SlotsPerMcEpoch
      BY <2>5, <2>6, <2>7
    <2> QED BY <2>8 DEF AriadneInherentData, DataEpoch, DataEpochOffset, McReferenceEpoch,
                        McEpochForNextAriadneCidp, ScEpochToMcEpoch, start, ref
  <1> QED BY <1>1, InvariantHolds, PTL

=============================================================================
