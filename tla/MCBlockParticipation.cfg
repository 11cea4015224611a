CONSTANTS
    v1 = v1
    v2 = v2
    v3 = v3
    s1 = s1
    s2 = s2
    Validators = {v1, v2, v3}
    Scripts = {s1, s2}
    GenesisCommittee <- MCGenesisCommittee
    GenesisScripts = s1
    SlotsPerEpoch = 3
    SlotsPerMcEpoch = 6
    MinLag = 2
    MaxLag = 3
    FirstSlot = 15
    MaxSlot = 31
    MaxLoggedSlot = 23
    MaxEpoch = 12
    SelectAuthorities <- MCSelectAuthorities
    GenesisInstalled = {TRUE, FALSE}
    GenesisPeriod = 2
    Periods = {0, 3}
    Spos = {v2, v3}
    Delegations <- MCAllDelegations
SPECIFICATION MCSpec
CHECK_DEADLOCK FALSE
INVARIANTS
    TypeOK
    CommitteePrepared
    HonestInherentVerifies
    InputsProvidedWhenNeeded
    NextCommitteeIsSelected
    SessionServesCommittee
    ParticipationTypeOK
    BlocksReleasedExactlyOnce
    HonestInherentsSucceed
PROPERTIES
    OneEpochPerBlock
    DataCountsWindow
