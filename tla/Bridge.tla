------------------------------- MODULE Bridge -------------------------------
(***************************************************************************)
(* The token bridge: every partner chain block queries the transfers after  *)
(* the stored checkpoint up to the Cardano block that it references         *)
(* (TokenBridgeInherentDataProvider), handles them in an inherent           *)
(* (pallet-partner-chains-bridge) and credits them (the demo runtime's      *)
(* TransferHandler).  Governance may replace the scripts and the checkpoint.*)
(* One step is one block.                                                   *)
(***************************************************************************)
EXTENDS BridgeData, FiniteSetsExt

CONSTANTS
    MaxTransfersPerBlock,
    GenesisScripts, GenesisCheckpoint,  \* None, or the genesis configuration
    FirstMcBlock,       \* the block referenced at genesis
    FutureCheckpoints,  \* may a configured checkpoint be past the referenced block?
    ExistentialDeposit, \* of pallet_balances
    GenesisBalances,    \* of the accounts that the bridge credits; a new one has 0
    MaxConfigurations   \* bound of the number of governance calls

\* The partner chain's account of the reserve goes by the name of the datum.
Accounts == Recipients \cup {Reserve}

None == [at |-> "none", no |-> 0]
NoScripts == "none"

ASSUME BridgeAssumption ==
    /\ MaxTransfersPerBlock \in Nat \ {0}
    /\ FirstMcBlock \in 0..MaxMcBlock
    /\ MaxConfigurations \in Nat
    /\ FutureCheckpoints \in BOOLEAN
    /\ ExistentialDeposit \in Nat \ {0}
    /\ GenesisBalances \in [Accounts -> Nat]
    /\ \A a \in Accounts : GenesisBalances[a] = 0 \/ GenesisBalances[a] >= ExistentialDeposit
    /\ NoScripts \notin Scripts
    /\ GenesisScripts \in Scripts \cup {NoScripts}
    /\ GenesisCheckpoint \in [at: {"utxo"}, no: Utxos] \cup {None}
    /\ GenesisCheckpoint # None /\ ~FutureCheckpoints =>
           \A l \in Ledgers : l[GenesisCheckpoint.no].block <= FirstMcBlock

VARIABLES
    mcBlock,         \* the Cardano block that the last block references
    scripts,         \* MainChainScriptsConfiguration
    checkpoint,      \* DataCheckpoint
    handled,         \* how often the handler was called for each UTXO's transfer
    totals,          \* UserTransferTotals, TotalReserveTransfers, TotalInvalidTransfers
    balances,        \* of the accounts that the bridge credits, but for what they spend
    configured       \* history: what the last configuration set and found

vars == <<ledger, mcBlock, scripts, checkpoint, handled, totals, balances, configured>>

-----------------------------------------------------------------------------
\* The tokens of the transfers among utxos with the given datum.
SumOf(utxos, datum) ==
    MapThenSumSet(TokenAmount, {i \in utxos : ledger[i].datum = datum})

\* Mutated form of Credited: with deposit_into_existing instead.
CreditedIfExisting(utxos, account) == IF balances[account] = 0 THEN 0 ELSE SumOf(utxos, account)

\* What deposit_creating adds for the transfers among utxos, one after the other:
\* nothing for a new account until a transfer reaches the existential deposit.
Credited(utxos, account) ==
    LET opening == {i \in utxos : /\ ledger[i].datum = account
                                  /\ TokenAmount(i) >= ExistentialDeposit}
    IN  IF balances[account] = 0
        THEN SumOf({i \in utxos : \E j \in opening : j <= i}, account)
        ELSE SumOf(utxos, account)

\* Mutated form of HandleIncomingTransfers: replaces the totals.
HandleIncomingTransfersAnew(utxos) ==
    /\ handled' = [i \in Utxos |-> handled[i] + IF i \in utxos /\ IsTransfer(i) THEN 1 ELSE 0]
    /\ balances' = [a \in Accounts |-> balances[a] + Credited(utxos, a)]
    /\ totals' = [to \in Accounts \cup {Invalid} |->
                    IF to = Invalid THEN totals[to] ELSE SumOf(utxos, to)]

\* handle_incoming_transfer for every transfer.  The result of deposit_creating is
\* dropped.  The closure that should add to TotalInvalidTransfers computes the
\* sum without storing it.
HandleIncomingTransfers(utxos) ==
    /\ handled' = [i \in Utxos |-> handled[i] + IF i \in utxos /\ IsTransfer(i) THEN 1 ELSE 0]
    /\ balances' = [a \in Accounts |-> balances[a] + Credited(utxos, a)]
    /\ totals' = [to \in Accounts \cup {Invalid} |->
                    IF to = Invalid THEN totals[to] ELSE totals[to] + SumOf(utxos, to)]

\* new_v1: no inherent data while the pallet is not configured.
IsConfigured == scripts # NoScripts /\ checkpoint # None

\* get_transfers (TokenBridgeDataSourceImpl) yields the transfers of rows.
GetTransfers(rows, toBlock) ==
    AreFirst(rows, GetBridgeUtxosTx(scripts, checkpoint, toBlock), MaxTransfersPerBlock)

\* create_inherent and handle_transfers in a block that references toBlock
HandleTransfers(toBlock) ==
    IF IsConfigured
    THEN \E rows \in SUBSET Utxos :
            /\ GetTransfers(rows, toBlock)
            /\ HandleIncomingTransfers(rows)
            /\ checkpoint' = NewCheckpoint(rows, MaxTransfersPerBlock, toBlock)
    ELSE UNCHANGED <<checkpoint, handled, totals, balances>>

\* A block; references never go back (McReference).
ProduceBlock ==
    /\ mcBlock' \in mcBlock..MaxMcBlock
    /\ HandleTransfers(mcBlock')
    /\ UNCHANGED <<ledger, scripts, configured>>

\* A block with set_main_chain_scripts, which runs after the inherent and
\* overwrites the checkpoint that the inherent stored.
ProduceBlockSettingScripts ==
    /\ configured.count < MaxConfigurations
    /\ mcBlock' \in mcBlock..MaxMcBlock
    /\ IF IsConfigured
       THEN \E rows \in SUBSET Utxos :
                GetTransfers(rows, mcBlock') /\ HandleIncomingTransfers(rows)
       ELSE UNCHANGED <<handled, totals, balances>>
    /\ scripts' \in Scripts
    /\ checkpoint' \in Checkpoints
    /\ ~FutureCheckpoints => GetBlockNumber(checkpoint') <= mcBlock'
    /\ configured' = [checkpoint |-> checkpoint', handled |-> handled',
                      count |-> configured.count + 1]
    /\ UNCHANGED ledger

Init ==
    /\ ledger \in Ledgers
    /\ mcBlock = FirstMcBlock
    /\ scripts = GenesisScripts
    /\ checkpoint = GenesisCheckpoint
    /\ handled = [i \in Utxos |-> 0]
    /\ totals = [to \in Accounts \cup {Invalid} |-> 0]
    /\ balances = GenesisBalances
    /\ configured = [checkpoint |-> GenesisCheckpoint, handled |-> handled, count |-> 0]

Next == ProduceBlock \/ ProduceBlockSettingScripts

Spec == Init /\ [][Next]_vars

\* Blocks keep being produced, and their references keep following Cardano.
Fairness ==
    /\ WF_vars(ProduceBlock)
    /\ WF_vars(ProduceBlock /\ mcBlock' > mcBlock)

FairSpec == Spec /\ Fairness

-----------------------------------------------------------------------------
(* Properties. *)

\* Every storage item of the bridge pallet (lib.rs) holds a value of its type.
TypeOK ==
    /\ ledger \in Ledgers
    /\ mcBlock \in 0..MaxMcBlock
    /\ scripts \in Scripts \cup {NoScripts}
    /\ checkpoint \in Checkpoints \cup {None}
    /\ handled \in [Utxos -> Nat]
    /\ configured \in [checkpoint: Checkpoints \cup {None}, handled: [Utxos -> Nat], count: Nat]

\* Since the pallet was configured, the transfers between the configured and the
\* present checkpoint have been handled exactly once and no others: a block
\* with more transfers than MaxTransfersPerBlock skips and repeats nothing.
HandledExactlyOnce ==
    IsConfigured =>
        \A i \in Utxos :
            handled[i] - configured.handled[i] =
                IF /\ ledger[i].scripts = scripts /\ IsTransfer(i)
                   /\ After(i, configured.checkpoint) /\ ~After(i, checkpoint)
                THEN 1 ELSE 0

\* Unless governance sets it, the checkpoint never goes back, though it changes
\* between the position of a UTXO and that of a block.
CheckpointNeverRegresses ==
    [][configured' = configured =>
         \A i \in Utxos : IsConfigured /\ ~After(i, checkpoint) => ~After(i, checkpoint)']_vars

\* The tokens of the transfers of at least min tokens handled so far for a datum,
\* those handled again after a new configuration included.
SumHandled(datum, min) ==
    MapThenSumSet(LAMBDA i : handled[i] * TokenAmount(i),
                  {i \in Utxos : ledger[i].datum = datum /\ TokenAmount(i) >= min})

\* UserTransferTotals and TotalReserveTransfers are what was handled for each,
\* over any number of blocks and configurations.
TotalsMatchHandled == \A a \in Accounts : totals[a] = SumHandled(a, 0)

\* The balances grow with the totals that the handler records beside them: an
\* account that exists from genesis gets every token.  A new one gets at least the
\* transfers that reach the existential deposit; it loses smaller ones that come
\* before the first of these, and the totals count them nonetheless.
BalancesFollowTotals ==
    \A a \in Accounts :
        LET credited == balances[a] - GenesisBalances[a]
            large == SumHandled(a, ExistentialDeposit)
        IN  /\ GenesisBalances[a] > 0 => credited = totals[a]
            /\ large <= credited /\ credited <= totals[a]
            /\ GenesisBalances[a] = 0 /\ large = 0 => credited = 0

\* Every transfer past the checkpoint is eventually handled, unless governance
\* changes the configuration first: a backlog is worked off although references
\* keep advancing.
EveryTransferHandled ==
    \A i \in Utxos, c \in 0..MaxConfigurations :
        (/\ configured.count = c /\ IsConfigured
         /\ ledger[i].scripts = scripts /\ IsTransfer(i) /\ After(i, checkpoint))
        ~> (handled[i] > configured.handled[i] \/ configured.count > c)

\* The total of invalid transfers is what was locked by them ("Recorded an
\* invalid transfer", TotalInvalidTransfers).
InvalidTransfersCounted ==
    totals[Invalid] = MapThenSumSet(LAMBDA i : handled[i] * TokenAmount(i),
                                    {i \in Utxos : ledger[i].datum = Invalid})

=============================================================================
