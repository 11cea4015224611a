CONSTANTS
    s1 = s1
    s2 = s2
    c1 = c1
    c2 = c2
    k1 = k1
    k2 = k2
    v1 = v1
    v2 = v2
    alice = alice
    Foci = {"bridge"}
    Scripts = {s1, s2}
    Recipients = {alice}
    NumUtxos = 5
    MaxMcBlock = 4
    Ledgers <- MCLedgers
    Callers = {c1, c2}
    Requests <- MCRequests
    OverlappingScripts = FALSE
    CacheLookahead = 2
    StableOffset = 1
    MinAge = 1
    MaxAge = 3
    FirstBlockTime = 1600000000
    FirstTip = 3
SPECIFICATION MCSpec
PROPERTIES
    FillsLookahead
