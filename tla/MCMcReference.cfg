CONSTANTS
    n1 = n1
    n2 = n2
    Nodes = {n1, n2}
    SecurityParameter = 1
    StabilityMargin = 1
    MinAge = 2
    MaxAge = 6
    CacheSize = 2
    BlockTimes <- MCBlockTimes
    InitialTip = 3
    MaxBlock = 4
    MaxTime = 8
    MaxChain = 2
SYMMETRY MCSymmetry
SPECIFICATION Spec
CHECK_DEADLOCK FALSE
INVARIANTS
    TypeOK
    ReferencesAreStable
    ReferencesNeverRegress
    CacheHoldsStableBlocks
PROPERTIES
    RefusedOnlyWhenLagging
