------------------------- MODULE CommitteeRotation -------------------------
(***************************************************************************)
(* Committee selection and rotation of a partner chain: the pallets        *)
(* session-validator-management, partner-chains-session and sidechain, and *)
(* the node's Ariadne inherent data provider.                              *)
(*                                                                         *)
(* One step is one block: the runtime's on_initialize hooks, the inherent  *)
(* its author creates, the dispatch of that inherent, and at most one      *)
(* governance transaction.  The state is the storage after the last block, *)
(* so it is also the parent state that the inherent data provider and      *)
(* check_inherent of the next block read.                                  *)
(*                                                                         *)
(* Time is counted in partner chain slots.  Slots may be skipped, for any  *)
(* length of time: an absent author, or a stalled chain.                   *)
(***************************************************************************)
EXTENDS Integers, Sequences

CONSTANTS
    Validators,           \* committee members (account and session keys)
    Scripts,              \* main chain script configurations
    GenesisCommittee,     \* initial_authorities of the chain specification
    GenesisScripts,       \* main_chain_scripts of the chain specification
    SlotsPerEpoch,        \* slots of a partner chain epoch
    SlotsPerMcEpoch,      \* slots of a main chain epoch
    MinLag, MaxLag,       \* age of a main chain reference, in slots
    FirstSlot, MaxSlot,   \* bounds of the slots in which blocks are made
    MaxEpoch,             \* bound of the epochs of either chain
    SelectAuthorities(_, _, _)  \* (scripts, main chain epoch, epoch) -> selection

Committees == Seq(Validators)

\* What select_authorities returns: Option<BoundedVec<CommitteeMember>>.
Selections == [found: BOOLEAN, committee: Committees]

ASSUME ValidatorAssumption == GenesisCommittee \in Committees /\ GenesisScripts \in Scripts
ASSUME SlotAssumption ==
    /\ SlotsPerEpoch \in Nat \ {0}
    /\ SlotsPerMcEpoch \in Nat \ {0}
    /\ SlotsPerMcEpoch % SlotsPerEpoch = 0  \* as SlotsPerEpoch's doc demands
    /\ MinLag \in Nat
    /\ MaxLag \in Nat
    /\ FirstSlot \in Nat
    /\ MaxSlot \in Nat
    /\ MaxEpoch \in Nat
ASSUME SelectionAssumption ==
    \A sc \in Scripts, m, e \in 0..MaxEpoch : SelectAuthorities(sc, m, e) \in Selections

VARIABLES
    currentSlot,       \* pallet_aura CurrentSlot
    atGenesis,         \* TRUE until block number 1 is executed
    epochNumber,       \* sidechain EpochNumber, -1 when it is not set
    currentCommittee,  \* CurrentCommittee
    nextCommittee,     \* NextCommittee, NoCommittee when it is not set
    mainChainScripts,  \* MainChainScriptsConfiguration
    validatorsAndKeys, \* partner-chains-session ValidatorsAndKeys (and Validators)
    currentIndex,      \* partner-chains-session CurrentIndex
    sessionIndex,      \* pallet_session CurrentIndex
    auraAuthorities,   \* pallet_aura Authorities
    providers,         \* provider references the session pallet took
    firstEpoch,        \* history: epoch of block number 1, -1 before
    nextInputs         \* history: inputs nextCommittee was selected from

chainVars == <<currentSlot, atGenesis, epochNumber>>
committeeVars == <<currentCommittee, nextCommittee, mainChainScripts>>
sessionVars == <<validatorsAndKeys, currentIndex, sessionIndex, auraAuthorities, providers>>
historyVars == <<firstEpoch, nextInputs>>
vars == <<chainVars, committeeVars, sessionVars, historyVars>>

NoCommittee == [epoch |-> -1, committee |-> <<>>]
CommitteeInfos == [epoch: Nat, committee: Committees]
NoInputs == [scripts |-> GenesisScripts, mcEpoch |-> -1]
InputSets == [scripts: Scripts, mcEpoch: Int]

-----------------------------------------------------------------------------
(* Slots and epochs. *)

EpochOf(slot) == slot \div SlotsPerEpoch

EpochStartSlot(epoch) == epoch * SlotsPerEpoch

\* sc_epoch_to_mc_epoch: the main chain epoch at the start of a partner chain epoch.
ScEpochToMcEpoch(epoch) == EpochStartSlot(epoch) \div SlotsPerMcEpoch

\* The main chain epoch of the reference block of a block made in slot s, when
\* that reference is lag slots old (see McReference for how it is chosen).
McReferenceEpoch(s, lag) == (s - lag) \div SlotsPerMcEpoch

\* Data of a main chain epoch is used two epochs later.
DataEpochOffset == 2
DataEpochOffByOne(forEpoch) == forEpoch - 1  \* mutated form of DataEpoch
DataEpoch(forEpoch) == forEpoch - DataEpochOffset

-----------------------------------------------------------------------------
(* Initialization of the block made in slot s: the hooks that run before   *)
(* its inherents, in the order of construct_runtime.                       *)

\* Mutated form of CurrentAtInit: reads the stored epoch before it is set.
CurrentAtInitStale(s) ==
    IF atGenesis THEN [currentCommittee EXCEPT !.epoch = epochNumber] ELSE currentCommittee

\* The committee pallet moves the genesis committee to the epoch of block 1.
CurrentAtInit(s) ==
    IF atGenesis THEN [currentCommittee EXCEPT !.epoch = EpochOf(s)] ELSE currentCommittee

\* Mutated forms of ShouldEndSession: at any time in the committee's own epoch,
\* and one epoch late.
ShouldEndSessionEarly(s) ==
    EpochOf(s) >= CurrentAtInit(s).epoch /\ nextCommittee # NoCommittee
ShouldEndSessionLate(s) ==
    EpochOf(s) > CurrentAtInit(s).epoch + 1 /\ nextCommittee # NoCommittee

\* The session ends in the first block of an epoch whose committee is known.
ShouldEndSession(s) ==
    /\ EpochOf(s) > CurrentAtInit(s).epoch
    /\ nextCommittee # NoCommittee

\* rotate_committee_to_next_epoch, when the session ends.
CurrentAfterInit(s) == IF ShouldEndSession(s) THEN nextCommittee ELSE CurrentAtInit(s)
NextAfterInit(s) == IF ShouldEndSession(s) THEN NoCommittee ELSE nextCommittee

\* change_account_providers: reference the accounts that are new, release the
\* ones that left.
ChangeAccountProviders(new, old) ==
    [v \in Validators |->
        CASE v \in new \ old -> providers[v] + 1
          [] v \in old \ new -> providers[v] - 1
          [] OTHER -> providers[v]]

Members(committee) == {committee[i] : i \in DOMAIN committee}

\* rotate_validators stores the new list first and reads the "old" one back
\* from the storage it has just written.
RotateValidators(new) ==
    /\ validatorsAndKeys' = new
    /\ providers' = ChangeAccountProviders(Members(new), Members(validatorsAndKeys'))

\* Mutated form of RotateSession: Aura is not told of the new session.
RotateSessionWithoutHandler(s) ==
    IF ShouldEndSession(s)
    THEN /\ currentIndex' = currentIndex + 1
         /\ sessionIndex' = currentIndex'
         /\ RotateValidators(nextCommittee.committee)
         /\ UNCHANGED auraAuthorities
    ELSE UNCHANGED sessionVars

\* rotate_session with ValidatorManagementSessionManager: new_session writes
\* pallet_session's index and takes the next committee.  Aura gets the new set; its
\* change_authorities (external) ignores an empty one.
RotateSession(s) ==
    IF ShouldEndSession(s)
    THEN /\ currentIndex' = currentIndex + 1
         /\ sessionIndex' = currentIndex'
         /\ RotateValidators(nextCommittee.committee)
         /\ auraAuthorities' = IF nextCommittee.committee = <<>> THEN auraAuthorities
                               ELSE nextCommittee.committee
    ELSE UNCHANGED sessionVars

-----------------------------------------------------------------------------
(* The inherent of the block made in slot s. *)

NextUnsetIgnoringNext == currentCommittee.epoch + 1  \* mutated form of the next one
GetNextUnsetEpochNumber ==
    IF nextCommittee # NoCommittee THEN nextCommittee.epoch + 1 ELSE currentCommittee.epoch + 1

\* The epoch whose inputs the data provider queries, from the parent state:
\* in the first block the epoch of the slot, as the genesis committee has epoch 0.
EpochForInputs(s) ==
    IF GetNextUnsetEpochNumber = 1 THEN EpochOf(s) ELSE GetNextUnsetEpochNumber

McEpochForNextAriadneCidp(s) == ScEpochToMcEpoch(EpochForInputs(s))

\* AriadneInherentDataProvider::new: the inputs, and whether they are given.
AriadneInherentData(s, lag) ==
    [provided |-> DataEpoch(McEpochForNextAriadneCidp(s)) < McReferenceEpoch(s, lag),
     inputs |-> [scripts |-> mainChainScripts, mcEpoch |-> McEpochForNextAriadneCidp(s)]]

SelectFrom(inputs, epoch) == SelectAuthorities(inputs.scripts, inputs.mcEpoch, epoch)

\* create_inherent, on the initialized block: is there a `set` call, and which.
InherentCreated(s) == NextAfterInit(s) = NoCommittee

CreateInherent(s, inputs) ==
    LET forEpoch == CurrentAfterInit(s).epoch + 1
        selection == SelectFrom(inputs, forEpoch)
    IN  [forEpoch |-> forEpoch,
         validators |-> IF selection.found THEN selection.committee
                                           ELSE CurrentAfterInit(s).committee]

\* Mutated form of CheckInherent: falls back to the committee before rotation.
CheckInherentWithCurrent(call, inputs) ==
    LET selection == SelectFrom(inputs, call.forEpoch)
    IN  call.validators =
            IF selection.found THEN selection.committee ELSE currentCommittee.committee

\* check_inherent, on the parent state.
CheckInherent(call, inputs) ==
    LET selection == SelectFrom(inputs, call.forEpoch)
        fallback == IF nextCommittee # NoCommittee THEN nextCommittee ELSE currentCommittee
    IN  call.validators = IF selection.found THEN selection.committee ELSE fallback.committee

\* is_inherent_required, on the parent state.
IsInherentRequired == nextCommittee = NoCommittee

\* The dispatch of `set` succeeds (a failure of this mandatory call voids the block).
SetSucceeds(call, s) ==
    /\ call.forEpoch = CurrentAfterInit(s).epoch + 1
    /\ NextAfterInit(s) = NoCommittee

-----------------------------------------------------------------------------
(* Blocks. *)

\* Everything in a block but its transactions.  inherent_data_to_authority_-
\* selection_inputs panics when the inputs are missing: then there is no block.
ExecuteBlock(s, lag) ==
    LET data == AriadneInherentData(s, lag)
        call == CreateInherent(s, data.inputs)
    IN  /\ s > currentSlot
        /\ auraAuthorities # <<>>
        /\ McEpochForNextAriadneCidp(s) \in DataEpochOffset..MaxEpoch
        /\ EpochOf(s) < MaxEpoch
        /\ InherentCreated(s) => data.provided /\ SetSucceeds(call, s)
        /\ currentSlot' = s
        /\ atGenesis' = FALSE
        /\ epochNumber' = EpochOf(s)
        /\ currentCommittee' = CurrentAfterInit(s)
        /\ RotateSession(s)
        /\ nextCommittee' = IF InherentCreated(s)
                            THEN [epoch |-> call.forEpoch, committee |-> call.validators]
                            ELSE nextCommittee
        /\ nextInputs' = IF InherentCreated(s) THEN data.inputs ELSE nextInputs
        /\ firstEpoch' = IF atGenesis THEN EpochOf(s) ELSE firstEpoch

\* Genesis: the session pallet's genesis build takes the current committee.
Init ==
    /\ currentSlot = 0
    /\ atGenesis = TRUE
    /\ epochNumber = -1
    /\ currentCommittee = [epoch |-> 0, committee |-> GenesisCommittee]
    /\ nextCommittee = NoCommittee
    /\ mainChainScripts = GenesisScripts
    /\ validatorsAndKeys = GenesisCommittee
    /\ currentIndex = 0
    /\ sessionIndex = 0
    /\ auraAuthorities = GenesisCommittee
    /\ providers = [v \in Validators |-> 0]
    /\ firstEpoch = -1
    /\ nextInputs = NoInputs

ProduceBlock(s, lag) ==
    /\ ExecuteBlock(s, lag)
    /\ UNCHANGED mainChainScripts

\* A block with the governance transaction set_main_chain_scripts.
ProduceBlockSettingScripts(s, lag, newScripts) ==
    /\ ExecuteBlock(s, lag)
    /\ mainChainScripts' = newScripts

Next ==
    \E s \in FirstSlot..MaxSlot, lag \in MinLag..MaxLag :
        \/ ProduceBlock(s, lag)
        \/ \E newScripts \in Scripts : ProduceBlockSettingScripts(s, lag, newScripts)

Spec == Init /\ [][Next]_vars

-----------------------------------------------------------------------------
(* Properties. *)

\* Every storage item holds a value of its type.
TypeOK ==
    /\ currentSlot \in Nat
    /\ atGenesis \in BOOLEAN
    /\ epochNumber \in Nat \cup {-1}
    /\ currentCommittee \in CommitteeInfos
    /\ nextCommittee \in CommitteeInfos \cup {NoCommittee}
    /\ mainChainScripts \in Scripts
    /\ validatorsAndKeys \in Committees
    /\ currentIndex \in Nat
    /\ sessionIndex \in Nat
    /\ auraAuthorities \in Committees
    /\ providers \in [Validators -> Int]
    /\ firstEpoch \in Nat \cup {-1}
    /\ nextInputs \in InputSets

\* The slots in which the next block can be made.
FutureSlots == {s \in FirstSlot..MaxSlot : s > currentSlot}

\* After every block the committee of the following epoch is stored (the doc of
\* next_committee promises it from the first block of each epoch on), it is for
\* exactly the epoch after the current committee's, and no committee serves
\* before its epoch has come, however many epochs the chain slept through.
CommitteePrepared ==
    ~atGenesis =>
        /\ nextCommittee # NoCommittee
        /\ nextCommittee.epoch = currentCommittee.epoch + 1
        /\ currentCommittee.epoch <= EpochOf(currentSlot)

\* Whatever the slot of the next block, the `set` call that its author creates
\* after the rotation of on_initialize passes check_inherent, which runs before
\* that rotation, is present where it is required, and its dispatch succeeds.
HonestInherentVerifies ==
    \A s \in FutureSlots, lag \in MinLag..MaxLag :
        LET data == AriadneInherentData(s, lag)
            call == CreateInherent(s, data.inputs)
        IN  /\ IsInherentRequired => InherentCreated(s)
            /\ InherentCreated(s) => CheckInherent(call, data.inputs) /\ SetSucceeds(call, s)

\* The selection inputs are given whenever create_inherent needs them: its
\* expect("Validator inherent data must be provided") never fires.
InputsProvidedWhenNeeded ==
    \A s \in FutureSlots, lag \in MinLag..MaxLag :
        InherentCreated(s) => AriadneInherentData(s, lag).provided

\* The stored next committee is the one Ariadne selects for its epoch, from the
\* inputs of that epoch; when none can be selected it repeats the committee
\* before it.  Block 1 alone uses the inputs of the epoch before (the special
\* case of mc_epoch_for_next_ariadne_cidp).
NextCommitteeIsSelected ==
    ~atGenesis =>
        LET selection == SelectFrom(nextInputs, nextCommittee.epoch)
            inputEpoch == IF nextCommittee.epoch = firstEpoch + 1
                          THEN firstEpoch ELSE nextCommittee.epoch
        IN  /\ nextInputs.mcEpoch = ScEpochToMcEpoch(inputEpoch)
            /\ nextCommittee.committee = IF selection.found THEN selection.committee
                                         ELSE currentCommittee.committee

\* The session's validators are always the current committee, and so are Aura's
\* authorities.  An empty committee (Ariadne selects it when the D-parameter has no
\* seats) leaves earlier authorities in office, so that blocks are made until the
\* next rotation.  Both session indices agree, and count the epochs the committee
\* has advanced since the first block.
SessionServesCommittee ==
    /\ validatorsAndKeys = currentCommittee.committee
    /\ currentCommittee.committee # <<>> => auraAuthorities = currentCommittee.committee
    /\ GenesisCommittee # <<>> => auraAuthorities # <<>>
    /\ sessionIndex = currentIndex
    /\ ~atGenesis => currentIndex = currentCommittee.epoch - firstEpoch

\* After a stall the committee catches up one epoch per block: a block leaves
\* the committee of its own epoch in office or moves exactly one epoch on.
OneEpochPerBlock ==
    [][~atGenesis => \/ currentCommittee'.epoch = currentCommittee.epoch + 1
                     \/ /\ currentCommittee' = currentCommittee
                        /\ currentCommittee.epoch = EpochOf(currentSlot')]_vars

\* The comment in change_account_providers: "We always match dec_providers with
\* corresponding inc_providers": the accounts of the validators in office, and
\* only they, hold a provider reference of the session pallet.
ProvidersMatchValidators ==
    ~atGenesis => \A v \in Validators :
        providers[v] = IF v \in Members(validatorsAndKeys) THEN 1 ELSE 0

=============================================================================
