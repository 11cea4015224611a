CONSTANTS
    k1 = k1
    k2 = k2
    k3 = k3
    k4 = k4
    v1 = v1
    v2 = v2
    v3 = v3
    s1 = s1
    s2 = s2
    Keys = {k1}
    Values = {v1, v2}
    Scripts = {s1}
    Utxos = {1, 2, 3}
    NumTxs = 4
    TxBlock <- MCTxBlock
    MaxMcBlock = 3
    Ledgers <- MCLedgers
    DataSources = {"cached"}
    LongKeys = {}
    LongValues = {}
    MaxChanges = 2
    GenesisScripts = s1
SPECIFICATION Spec
INVARIANT
    MappingMatchesCardano
