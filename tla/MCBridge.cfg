CONSTANTS
    s1 = s1
    s2 = s2
    alice = alice
    Scripts = {s1, s2}
    Recipients = {alice}
    NumUtxos = 5
    MaxMcBlock = 3
    Ledgers <- MCLedgers
    MaxTransfersPerBlock = 2
    GenesisScripts = s1
    GenesisCheckpoint <- MCGenesisCheckpoint
    FirstMcBlock = 1
    FutureCheckpoints = FALSE
    ExistentialDeposit = 2
    GenesisBalances <- MCGenesisBalances
    MaxConfigurations = 2
SPECIFICATION FairSpec
INVARIANTS
    TypeOK
    HandledExactlyOnce
    TotalsMatchHandled
    BalancesFollowTotals
PROPERTIES
    CheckpointNeverRegresses
    EveryTransferHandled
