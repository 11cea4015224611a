CONSTANTS
    v1 = v1
    v2 = v2
    v3 = v3
    s1 = s1
    s2 = s2
    Validators = {v1, v2, v3}
    Scripts = {s1}
    GenesisCommittee <- MCPermissionedGenesis
    GenesisScripts = s1
    SlotsPerEpoch = 3
    SlotsPerMcEpoch = 6
    MinLag = 1
    MaxLag = 1
    FirstSlot = 18
    MaxSlot = 26
    MaxLoggedSlot = 26
    MaxEpoch = 20
    SelectAuthorities <- MCAlwaysSelected
    GenesisInstalled = {TRUE}
    GenesisPeriod = 2
    Periods = {0, 3}
    Spos = {v2, v3}
    Delegations <- MCDelegations
SPECIFICATION MCSpec
CHECK_DEADLOCK FALSE
INVARIANTS
    DataNeverMissing
