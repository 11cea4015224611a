# Verification of the Partner Chains toolkit

TLA+ modules that model the parts of this repository in which a partner chain follows Cardano: how its
blocks refer to Cardano, how committees are selected and rotated, how transfers and the governed map are
observed, and how block production is recorded. TLC checks the modules on small instances; TLAPS proves
the main properties for all values of the constants.

`PROJECT.json` lists components, runs, mutants, the map from definitions to source lines, findings,
hazards and theorems.

## The system

A partner chain is a Substrate chain that takes its committee and other inputs from Cardano. A node reads
Cardano through a db-sync database of its own. For each block:

1. the author picks a recent *stable* Cardano block, the **main chain reference**, and puts its hash in the
   block's digest (`sidechain-mc-hash`, data source `db-sync/src/block`);
2. inherent data providers query Cardano **as of that reference**: candidates (Ariadne), bridge transfers,
   governed map changes, stake distribution (`demo/node/src/inherent_data.rs`);
3. the runtime runs its `on_initialize` hooks, in which a session may end and the committee rotate; it
   creates inherents from the data, applies them, and runs `on_finalize`;
4. an importing node verifies the reference, repeats the queries with its own database, and compares the
   inherents (`check_inherent`, **on the parent state**).

A chain stops when an inherent that must be there cannot be created, panics, or is refused by other nodes,
and it is wrong for good when an increment (a transfer, a change, a log entry) is lost or repeated, as
nothing re-reads the past. Most properties here are about one of the two.

### Inventory

| Part | State | Operations | Interacts with | Module |
| --- | --- | --- | --- | --- |
| committee pallet (`committee-selection/pallet`) | CurrentCommittee, NextCommittee, MainChainScriptsConfiguration | on_initialize, create/check/required inherent, set, set_main_chain_scripts, rotation | session, Ariadne provider, log | `CommitteeRotation` |
| session pallet (`partner-chains-session`) | ValidatorsAndKeys, CurrentIndex, account providers | on_initialize, rotate_session | committee pallet, Aura | `CommitteeRotation` |
| sidechain pallet, slots | EpochNumber | on_initialize, slot and epoch arithmetic | all | `CommitteeRotation` |
| Ariadne inherent data provider | none | `new` | committee pallet, main chain reference | `CommitteeRotation` |
| main chain reference (`sidechain-mc-hash`) | digest of each block | new_proposal, new_verification | block data source | `McReference` |
| block data source (`db-sync/src/block`) | cache of stable blocks | latest stable block, lookup by hash, fill_cache | db-sync | `McReference` |
| bridge (`toolkit/bridge`, `db-sync/src/bridge/mod.rs`) | scripts, DataCheckpoint; totals and balances of the demo's handler | handle_transfers, set_main_chain_scripts, get_transfers | main chain reference | `BridgeData`, `Bridge` |
| bridge cache (`db-sync/src/bridge/cache.rs`) | TokenUtxoCache | get_transfers | authoring and import tasks | `BridgeCache` |
| production log (`block-production-log`) | Log, LatestBlock, CurrentProducer | append, on_finalize, peek/drop_prefix | committee pallet, participation | `BlockParticipation` |
| participation (`block-participation`) | ProcessedUpToSlot; period and data of the demo's handler | note_processing, data provider | log, stake distribution | `BlockParticipation` |
| governed map (`toolkit/governed-map`, `db-sync/src/governed_map`) | scripts, Initialized, Mapping | register_changes, set_main_chain_scripts, both data sources | main chain reference | `GovernedMapData`, `GovernedMap` |
| governed map cache | Cache | get_mapping_changes | authoring and import tasks | `GovernedMapCache` |

Not modelled, with the reasons in `PROJECT.json`: the selection algorithms (pure functions, a constant
here), candidates and stake distribution data sources, Aura's proposer and import queue, the pallets for
fees, metadata and address associations, block search, offchain commands, datum encodings, CLIs, RPCs, mocks, the
EVM pallets of the demo runtime.

### What is hard to test here

- `create_inherent` runs after the rotation, `check_inherent` before it, and the data provider reads the
  parent state as well: three views of one block.
- Slots, and whole epochs, may pass without a block.
- Every query is an `await`: databases move, fork and roll back between two queries of one call.
- Authoring and import share data sources whose mutex is released between steps.
- Only increments are registered, so limits, checkpoints and range ends must fit exactly.
- Governance changes scripts, checkpoints and periods in the same block as an inherent.

The list with lines is in `PROJECT.json` ("hazards").

## Modules

A definition has the name of the function it models, in camel case; comments name it otherwise. Definitions
marked "Mutated form of" are not part of the models: they are plausible errors with which the properties
were shown to fail.

### CommitteeRotation

One step is one block made in slot `s`, with a main chain reference that is `lag` slots old: hooks,
inherent, dispatch and at most one governance transaction. The variables are the storage items after the
last block, so an expression over them is evaluated on the parent state, and operators with `AfterInit`
are the storage after `on_initialize`, which `create_inherent` sees. `ExecuteBlock` has as guards whatever
would keep an honest author from making the block: the panic on missing inputs, the failure of the
mandatory `set` call. `SelectAuthorities` is any function of scripts, main chain epoch and epoch, that may
fail to find a committee, or find an empty one (Ariadne does when the D-parameter has no seats; Aura ignores
such a change of its authorities). `firstEpoch` and `nextInputs` are history.

Time is in slots, Cardano epochs included; that `SlotsPerMcEpoch` is a multiple of `SlotsPerEpoch` is
demanded by the doc of `SlotsPerEpoch`.

### McReference

Several nodes, each with a database that holds a prefix of canonical Cardano and possibly blocks of a fork
above it. External steps extend, fork and roll back a database; Cardano's guarantee is that a block with
`SecurityParameter` blocks on top of it in some database is not rolled back from it and forks are no longer
than that. `new_proposal`, `get_stable_block_by_hash` and `fill_cache` take one step per query, but for the
last two of `new_proposal`, which find the highest block of the window and look up the parent's reference
(`ProposeChoose`). A proposed block is appended to the one partner chain if its parent is still the head;
forks of the partner chain are left out. Hashes are modelled by number and branch. Time advances in slots.

### BridgeData, Bridge, BridgeCache

`BridgeData` has the UTXOs at the bridge address in the order of `ordering_key`, checkpoints, and the query
`get_bridge_utxos_tx`; its ledger is chosen once, as only stable blocks are queried. In `Bridge` one step is
a block that references any Cardano block not before its parent's (which `McReference` shows). The limit is
part of the query (`AreFirst`). A datum is a recipient, the reserve, or invalid. The demo's handler adds to
totals and credits balances (`Credited`): `deposit_creating` adds nothing to a new account below the
existential deposit. What account holders do with their balances is left out. `BridgeCache` runs
`get_transfers` of the cached source for several tasks, with a step for each critical section or query.

### BlockParticipation

A composition: it extends `CommitteeRotation`, and each of its steps is a block of that module together with
`RecordBlock`: the inherents of the log and participation, in the order of the runtime, and `on_finalize`.
Aura's author of a slot is external and computed from Aura's authorities, the log's author from the
committee. The pallets may be there from genesis or from a runtime upgrade on. `produced` (the blocks since
the log's first entry) and `released` are history. With an empty committee on the
parent state there is no author to append. Before the log's first entry blocks are made without one; after it
`append` is required, so that no block is valid, and the model stops there as the chain would.

### GovernedMapData, GovernedMap, GovernedMapCache

`GovernedMapData` has the entries of the map as UTXOs with the transactions that create and spend them, and
both queries: the entries at a block, and the rows of changes in a range. `GovernedMap` has a block per step;
its changes come from either data source. `GovernedMapCache` runs `get_mapping_changes` of the cached source
for several tasks. `BuiltByCommands` says which ledgers the offchain commands can make: a transaction spends
the entries of its key that the command found when it was built, so that an entry created in between is left
behind (`LeftBehind`). The proofs do not need it.

## Runs

Runs that pass:

| Run | Instance | Shows |
| --- | --- | --- |
| `mc_reference` | 2 nodes, k = 1, margin 1, 5 Cardano blocks with uneven gaps, window 2..6, cache of 2, two blocks | stable, ordered references, stable caches, refusals explained by lag |
| `bridge` | two ledgers of 5 UTXOs in blocks 1..3, limit 2, two reconfigurations, existential deposit 2 with a new and an endowed account, with fairness | exactly-once handling, three transfers in one block exceeding the limit; totals and balances; every transfer is handled |
| `caches` | two callers of the bridge cache with two pairs of scripts, every checkpoint and targets 2..4, or of the governed map cache with two maps and every range up to block 4 | answers equal the database |
| `block_participation` | 3 validators, 2 scripts, epochs of 3 slots in Cardano epochs of 6, references 2 or 3 slots old, slots 15..31 (15..23 with the log), periods 0, 2 and 3, with and without the pallets at genesis | all properties of `CommitteeRotation`; every subset of the slots may be skipped; in every fourth epoch the selection fails or is empty; exactly-once release, windows of the data, inherents succeed |
| `governed_map` | all ledgers of 3 entries that the commands can make, with 2 keys, 3 values (one too long for its bound), 2 scripts, 4 transactions in blocks 1..3 | the mapping equals the map but for keys with an entry left behind |

The bounds are the smallest with which the cases occur: a stall over several epochs and a Cardano epoch
boundary; a fork as deep as allowed, followed by a rollback between two queries, and a proposal and its
verification on different nodes; a limit hit within a block; a cached range that ends before, at and after
the request; a key that is inserted twice, updated, removed, and left out by a skipped block. Every mutant
is found within them. Slots start late enough that the data epoch is not negative, which is how chains are
started.

Deadlock is checked where a step is always possible. `mc_reference` and `block_participation` stop at their last slot, block or time.

**Fairness** is used in `bridge` alone: `WF_vars(ProduceBlock)` and
`WF_vars(ProduceBlock /\ mcBlock' > mcBlock)`. Aura gives every slot an author, so blocks keep being made while
one honest author is online, and `get_latest_stable_block_for` returns the highest block in a window that moves
with the slot, so references follow Cardano. Without the second conjunct a chain whose reference stands still
would refute the property, which says nothing of the bridge.

In `caches`, `OverlappingScripts` is FALSE: calls for different scripts follow one another. This restricts the
environment (`MayStart`), not the code. Scripts are storage of the parent block, so calls differ in them only
around a block with `set_main_chain_scripts`; `bridge_cache_scripts` shows what happens when such calls overlap.
The two caches share nothing, so a behaviour of this run exercises one of them.

The latest stable block that both caches look up is never found with block times in this century (seconds taken
for milliseconds), so that neither the lookahead nor the clamp to the stable tip acts in these runs.

### Disagreements with comments and docs

Each of these runs states what a comment, a doc or an error text of the repository says, and TLC finds a
behaviour of the code in which it is false:

| Run | Statement | What the code does |
| --- | --- | --- |
| `session_providers` | provider references match the validators | the old list is read after it was overwritten; no references are taken |
| `bridge_invalid_total` | invalid transfers are recorded | the sum is not stored |
| `bridge_cache_scripts` | transfers of the scripts asked for | overlapping calls with two pairs of scripts mix them |
| `bridge_cache_lookahead` | the cache is filled up to the lookahead or the stable tip | it is filled up to the requested block |
| `participation_data_missing` | stake is never missing | it is looked up in the epoch of the block, not of the selection |
| `governed_map_left_behind` | the mapping is the state observed on Cardano | the cached source removes a key when one of two entries is spent |
| `governed_map_max_changes` | MaxChanges above the number of keys suffices | replacing a map needs the sum of both |

Others were noticed while modelling, and have no run:

- `committee-selection/pallet/src/lib.rs:194` says that the session ends in block 1; it does not, as there is
  no next committee and the epoch is the same.
- `ariadne_inherent_data_provider.rs:75` says that inputs are always provided; with partner chain epochs as
  long as Cardano's they are not (the hypothesis of `InputsAlwaysProvided`).
- `block/mod.rs:78` returns block 0 as stable while Cardano is shorter than the offset (the hypothesis of
  `RefusalMeansLagging`).
- `bridge/mod.rs:132` replaces a checkpoint that is past the reference by the reference, so that it is not a lower
  bound (`FutureCheckpoints`).
- `bridge/cache.rs:143` takes it for impossible that data is missing after filling; another call may have
  replaced the cache (the state "missing" of `BridgeCache`).
- `governed_map/mod.rs:220` uses seconds as milliseconds like the bridge cache. Were the unit corrected and
  nothing else, a node behind the referenced block would search too little.
- `bridge/mod.rs:133` moves the checkpoint with `max_transfers = 0` as well, and skips transfers; the runtime
  configures 256 and `BridgeAssumption` excludes 0.
- `bridge/cache.rs:204` does not go back from block 0, whose UTXOs are not stored (`NothingInBlockZero`).
- `block-production-log/pallet/src/lib.rs:204` logs the block of the slot that was just processed.
- `governed_map/mod.rs:227` mixes maps when calls with different scripts overlap, like the bridge cache.

## Proofs

The modules `*Proofs`, and `McReferenceInvariant`, extend their component. Assumptions on constants are the named `ASSUME`s of the
components, which TLC evaluates; the theorems with further hypotheses say so in an `ASSUME`.

**CommitteeRotationProofs.** `IInv` conjoins the type invariant, `CommitteePrepared`,
`SessionServesCommittee`, `NextCommitteeIsSelected`, and two auxiliary facts: what the storage is before
block 1 (`GenesisStorage`), and that the first epoch is known and not after the committee's afterwards. The
last is needed because session index and special case of the inputs are relative to the first epoch.
`RotationFacts` says once what the rotation does to the two committees. `HonestInherentVerifies` and
`InputsProvidedWhenNeeded` are consequences of `IInv`; the second needs
`MaxLag + SlotsPerEpoch <= SlotsPerMcEpoch`.

**McReferenceInvariant** (databases and proposals) and **McReferenceProofs** (verification, theorems). A database may lose its highest blocks, so that a bound by its present tip is not
inductive. The invariant bounds everything by `highest[n]`, the highest block number a database ever had:
proposals in progress (`ProposalInv`), verifications (`VerificationInv`), cached blocks (`CacheInv`), and
references by the tips of some author up to them (`TipsInv`, the offset and the fallback to the parent's
reference). With Cardano's guarantee (`ViewInv`) it follows that they are canonical.
`RefusalMeansLagging` assumes `InitialTip >= 2 * SecurityParameter + StabilityMargin`, without which the
saturating subtraction returns block 0.

**BridgeProofs.** `HandledExactlyOnce` is inductive only together with: the checkpoint is not past the
reference (`CheckpointReferenced`), else a step moves it back, and it has not gone back since it was
configured (`CheckpointAdvanced`). The lemma on `NewCheckpoint` shows that the rows handled are exactly the
UTXOs between the old and the new checkpoint, for both kinds. Assumes `~FutureCheckpoints`; the other case
moves the checkpoint back, see above.

**BridgeCacheProofs.** `AnswersAlwaysAgree` holds for any number of callers when calls for different scripts do
not overlap and no UTXO is in block 0. The invariant: a call that uses the cache finds its own scripts in
it, and whatever is in the cache, or read and about to be stored, is exactly the UTXOs of its scripts from
its start to its end block. It depends on no order between callers, which is why the race on the cache does
no harm to answers. Without the first hypothesis the theorem is false (`bridge_cache_scripts`), without the
second as well.

**BlockParticipationProofs.** `released \o log = produced` is preserved because `PeekPrefix` and `DropPrefix`
split the log (`PrefixSplitsLog`), and because the log's author is Aura's, by `SessionServesCommittee` of
`CommitteeRotation`: the proof reuses the invariant of that module, each step being one of its steps. That
`processedUpTo` and `latestBlock` are not ahead of the chain makes the inherents succeed while the committee has
members.

**GovernedMapProofs.** `RowsGiveState` is the heart: overwriting the state at a block by the last row of each
key in a range gives the state at the end of the range, but for keys whose last row is a removal that left an
entry behind. It rests on the order of spends before creates in a transaction, without which it is false, as
the mutant of `Rows` shows, and on a transaction creating one entry of a key at most. A lost key stays lost
until it gets a new entry, and `LeftBehind` stays true as long, which makes `OnlyLeftBehindLost` inductive with
the types.

Only model-checked: `EveryTransferHandled` (liveness under fairness is out of the prover's reach),
`TotalsMatchHandled`, `BalancesFollowTotals` and `DataCountsWindow` (sums and counts over sets, which need
induction), `TypeOK` of `BridgeCache`, and `GovernedMapCache`, whose invariant is like that of the bridge
cache. What recursive definitions compute for all inputs, and `ENABLED`, are out of the prover's reach too.

## Plan

1. *Done*: the modules above.
2. Account-owned pallets: fees (bounded history), metadata (deposits held and released), address
   associations (burned fee, one association per key), with conservation of deposits.
3. Ariadne v2 and the filtering of candidates as operators against a reference definition: seats add up,
   guaranteed seats, no candidate without weight.
4. Caches of candidates (`highest_seen_stable_epoch`) and stake distribution, like `BridgeCache`.
5. Aura's import queue with the verification of inherents, composed with `McReference`; forks of the partner
   chain.
6. Block search (`sidechain-block-search`) against a reference definition.
7. Abstract specifications of the bridge (a queue of transfers) and of an uncached data source, with `Bridge` and the
   caches shown to implement them; a composition of `Bridge` with `McReference`.
8. Proofs: `GovernedMapCache`, conservation of deposits, the refinements.
