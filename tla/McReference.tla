---------------------------- MODULE McReference ----------------------------
(***************************************************************************)
(* The main chain reference of a partner chain block: how an author picks  *)
(* a stable Cardano block (McHashInherentDataProvider::new_proposal), how  *)
(* another node verifies it (new_verification), and the db-sync block data *)
(* source with its cache of stable blocks, on which both rely.             *)
(*                                                                         *)
(* Every node reads its own db-sync database, which lags behind Cardano    *)
(* and may for a while follow a fork.  The database changes between the    *)
(* queries of one call: each query is a step of its own, but for the last   *)
(* two of a proposal (ProposeChoose).                                       *)
(*                                                                         *)
(* Cardano is external.  Its canonical blocks are numbered from 0; block i *)
(* has time blockTime[i].  A database holds the canonical blocks 0..prefix *)
(* and on top of them `fork` blocks of a fork that will be abandoned.      *)
(***************************************************************************)
EXTENDS Integers, Sequences

CONSTANTS
    Nodes,               \* partner chain nodes
    SecurityParameter,   \* Cardano's k
    StabilityMargin,     \* block_stability_margin
    MinAge, MaxAge,      \* min_slot_boundary (k/f) and max_slot_boundary (3k/f)
    CacheSize,           \* cache_size
    BlockTimes,          \* the possible block times of Cardano
    InitialTip,          \* highest block in every database at the start
    MaxBlock,            \* bound of Cardano block numbers
    MaxTime,             \* bound of the clock
    MaxChain             \* bound of the partner chain's length

ASSUME McAssumption ==
    /\ SecurityParameter \in Nat /\ StabilityMargin \in Nat
    /\ MinAge \in Nat /\ MaxAge \in Nat /\ MinAge <= MaxAge
    /\ CacheSize \in Nat
    /\ InitialTip \in Nat /\ MaxBlock \in Nat /\ MaxTime \in Nat /\ MaxChain \in Nat
    /\ InitialTip <= MaxBlock

ASSUME BlockTimesAssumption ==
    \A f \in BlockTimes : /\ f \in [0..MaxBlock -> Nat]
                          /\ \A i, j \in 0..MaxBlock : i < j => f[i] < f[j]

VARIABLES
    now,        \* time, in partner chain slots
    blockTime,  \* time of every canonical Cardano block (chosen once)
    view,       \* view[n]: the contents of node n's database
    highest,    \* highest[n]: the highest block number view[n] ever had
    cache,      \* cache[n]: from_last_by_hash, the cached stable blocks
    chain,      \* the partner chain: [slot, ref, tip] of each block
    imported,   \* imported[n]: number of blocks of the chain node n has
    proposing,  \* proposing[n]: the running call of new_proposal
    verifying   \* verifying[n]: the running call of new_verification

dbVars == <<view, highest>>
vars == <<now, blockTime, dbVars, cache, chain, imported, proposing, verifying>>

\* A Cardano block is known by its hash: its number, and whether it is on a fork.
McBlocks == [no: Nat, fork: BOOLEAN]
Canonical(i) == [no |-> i, fork |-> FALSE]

NoProposal == [pc |-> "idle", slot |-> 0, tip |-> 0, parent |-> 0]
NoVerification == [pc |-> "idle", target |-> 0, latest |-> 0]

-----------------------------------------------------------------------------
(* Queries of a database (db_model) and the rules on times. *)

Tip(n) == view[n].prefix + view[n].fork

\* Mutated form of GetLatestBlockInfo: counts blocks, which are numbered from 0.
BlockCount(n) == Tip(n) + 1

\* get_latest_block_info
GetLatestBlockInfo(n) == Tip(n)

BlockAt(n, i) == [no |-> i, fork |-> i > view[n].prefix]

\* get_block_by_hash finds b
HasBlock(n, b) == b.no <= Tip(n) /\ b = BlockAt(n, b.no)

\* get_blocks_by_numbers
GetBlocksByNumbers(n, from, to) == {BlockAt(n, i) : i \in {j \in from..to : j <= Tip(n)}}

IsBlockTimeValid(b, t) == t - MaxAge <= blockTime[b.no] /\ blockTime[b.no] <= t - MinAge

SaturatingSub(a, b) == IF a >= b THEN a - b ELSE 0

\* The blocks get_highest_block considers, in the window of get_latest_block.
InWindow(n, maxBlock, t) ==
    {i \in 0..Tip(n) : i <= maxBlock /\ IsBlockTimeValid(BlockAt(n, i), t)}

IsHighest(i, numbers) == i \in numbers /\ \A j \in numbers : j <= i

-----------------------------------------------------------------------------
(* Cardano and db-sync (external). *)

Tick ==
    /\ now < MaxTime
    /\ now' = now + 1
    /\ UNCHANGED <<blockTime, dbVars, cache, chain, imported, proposing, verifying>>

SetView(n, newView) ==
    /\ view' = [view EXCEPT ![n] = newView]
    /\ highest' = [highest EXCEPT ![n] =
                      IF newView.prefix + newView.fork > @ THEN newView.prefix + newView.fork ELSE @]
    /\ UNCHANGED <<now, blockTime, cache, chain, imported, proposing, verifying>>

\* The next canonical block arrives in the database.
DbExtend(n) ==
    /\ view[n].fork = 0
    /\ view[n].prefix < MaxBlock
    /\ blockTime[view[n].prefix + 1] <= now
    /\ SetView(n, [view[n] EXCEPT !.prefix = @ + 1])

\* A block of a fork arrives.  Forks are at most k blocks long.
DbFork(n) ==
    /\ view[n].fork < SecurityParameter
    /\ Tip(n) < MaxBlock
    /\ blockTime[Tip(n) + 1] <= now
    /\ SetView(n, [view[n] EXCEPT !.fork = @ + 1])

\* The database rolls back.  A block that ever had k blocks on top of it stays.
DbRollback(n) ==
    \E p \in 0..view[n].prefix :
        /\ p >= highest[n] - SecurityParameter
        /\ p < Tip(n)
        /\ SetView(n, [prefix |-> p, fork |-> 0])

-----------------------------------------------------------------------------
(* Proposal: new_proposal. *)

\* Mutated forms of LatestStable: no offset at all, and none of the margin.
LatestUnstable(tip) == tip
LatestWithoutMargin(tip) == SaturatingSub(tip, SecurityParameter)

\* The offset from the latest block to the highest block that may be proposed.
LatestStable(tip) == SaturatingSub(tip, SecurityParameter + StabilityMargin)

\* get_latest_stable_block_for: the latest block number is read first ...
ProposeReadLatest(n) ==
    /\ proposing[n].pc = "idle"
    /\ imported[n] = Len(chain)
    /\ Len(chain) < MaxChain
    /\ chain # <<>> => now > chain[Len(chain)].slot
    /\ proposing' = [proposing EXCEPT ![n] =
                        [pc |-> "choose", slot |-> now, tip |-> GetLatestBlockInfo(n),
                         parent |-> Len(chain)]]
    /\ UNCHANGED <<now, blockTime, dbVars, cache, chain, imported, verifying>>

\* Mutated form of LaterReference: ignores the parent's reference.
FoundReference(found, parent) == found

\* The later of the block found and the parent's reference.
LaterReference(found, parent) == IF found.no >= parent.no THEN found ELSE parent

\* The block before the one proposed is known: in the cache or in the database.
ParentFound(n) ==
    chain # <<>> => \/ chain[Len(chain)].ref \in cache[n]
                    \/ HasBlock(n, chain[Len(chain)].ref)

ProposedRef(found) ==
    IF chain = <<>> THEN found ELSE LaterReference(found, chain[Len(chain)].ref)

\* ... then the highest block in the window, and the parent's reference, in one
\* step: the found block is stable and the lookup by hash needs only that the block
\* is there, so a database that moves between the two queries changes neither, and
\* at worst the call fails (ProposeFail).
ProposeChoose(n) ==
    /\ proposing[n].pc = "choose"
    /\ proposing[n].parent = Len(chain)
    /\ ParentFound(n)
    /\ \E i \in 0..MaxBlock :
        /\ IsHighest(i, InWindow(n, LatestStable(proposing[n].tip), proposing[n].slot))
        /\ chain' = Append(chain, [slot |-> proposing[n].slot, tip |-> proposing[n].tip,
                                   ref |-> ProposedRef(BlockAt(n, i))])
    /\ imported' = [imported EXCEPT ![n] = @ + 1]
    /\ proposing' = [proposing EXCEPT ![n] = NoProposal]
    /\ UNCHANGED <<now, blockTime, dbVars, cache, verifying>>

\* There is no block in the window (StableBlockNotFound), the parent's reference
\* is missing (StableBlockNotFoundByHash), or the chain has grown meanwhile.
ProposeFail(n) ==
    /\ proposing[n].pc = "choose"
    /\ \/ InWindow(n, LatestStable(proposing[n].tip), proposing[n].slot) = {}
       \/ ~ParentFound(n)
       \/ proposing[n].parent # Len(chain)
    /\ proposing' = [proposing EXCEPT ![n] = NoProposal]
    /\ UNCHANGED <<now, blockTime, dbVars, cache, chain, imported, verifying>>

-----------------------------------------------------------------------------
(* Verification: new_verification.  Target 1 is the reference of the block *)
(* itself, target 2 the reference of its parent.                           *)

Target(n) == chain[imported[n] + 2 - verifying[n].target]

GoTo(n, pc) == verifying' = [verifying EXCEPT ![n].pc = pc]

Reject(n) ==
    /\ verifying' = [verifying EXCEPT ![n] = NoVerification]
    /\ UNCHANGED imported

\* The references are in order: not McStateReferenceRegressed.
ReferencesInOrder(n) == chain[imported[n] + 1].ref.no >= chain[imported[n]].ref.no

\* get_mc_state_reference returned the block: on to the parent's reference, or
\* to the end of the verification.
TargetVerified(n) ==
    IF verifying[n].target = 1 /\ imported[n] > 0
    THEN /\ verifying' = [verifying EXCEPT ![n] = [pc |-> "lookup", target |-> 2, latest |-> 0]]
         /\ UNCHANGED imported
    ELSE IF imported[n] > 0 => ReferencesInOrder(n)
         THEN /\ verifying' = [verifying EXCEPT ![n] = NoVerification]
              /\ imported' = [imported EXCEPT ![n] = @ + 1]
         ELSE Reject(n)

VerifyStart(n) ==
    /\ verifying[n].pc = "idle"
    /\ imported[n] < Len(chain)
    /\ verifying' = [verifying EXCEPT ![n] = [pc |-> "lookup", target |-> 1, latest |-> 0]]
    /\ UNCHANGED <<now, blockTime, dbVars, cache, chain, imported, proposing>>

\* get_stable_block_by_hash: from the cache, or else by hash from the database.
VerifyLookup(n) ==
    /\ verifying[n].pc = "lookup"
    /\ IF Target(n).ref \in cache[n] /\ IsBlockTimeValid(Target(n).ref, Target(n).slot)
       THEN TargetVerified(n)
       ELSE IF HasBlock(n, Target(n).ref)
            THEN GoTo(n, "latest") /\ UNCHANGED imported
            ELSE Reject(n)
    /\ UNCHANGED <<now, blockTime, dbVars, cache, chain, proposing>>

\* get_stable_block_by_hash_from_db: is the block stable and of a valid time.
VerifyLatest(n) ==
    /\ verifying[n].pc = "latest"
    /\ IF /\ Target(n).ref.no + SecurityParameter <= GetLatestBlockInfo(n)
          /\ IsBlockTimeValid(Target(n).ref, Target(n).slot)
       THEN GoTo(n, "fillLatest") /\ UNCHANGED imported
       ELSE Reject(n)
    /\ UNCHANGED <<now, blockTime, dbVars, cache, chain, proposing>>

\* fill_cache reads the latest block again ...
FillLatest(n) ==
    /\ verifying[n].pc = "fillLatest"
    /\ verifying' = [verifying EXCEPT ![n].pc = "fillBlocks", ![n].latest = GetLatestBlockInfo(n)]
    /\ UNCHANGED <<now, blockTime, dbVars, cache, chain, imported, proposing>>

\* Mutated form of FillUpTo: caches up to the latest block.
FillUpToLatest(from, latest) == IF from + CacheSize <= latest THEN from + CacheSize ELSE latest

\* The last block fill_cache takes: stable when the latest block was `latest`.
FillUpTo(from, latest) ==
    LET stable == SaturatingSub(latest, SecurityParameter)
    IN  IF from + CacheSize <= stable THEN from + CacheSize ELSE stable

\* ... and replaces the cache by the stable blocks from the verified one on.
FillCache(n) ==
    LET b == Target(n).ref
        to == FillUpTo(b.no, verifying[n].latest)
    IN  /\ verifying[n].pc = "fillBlocks"
        /\ cache' = [cache EXCEPT ![n] =
                        IF to > b.no THEN GetBlocksByNumbers(n, b.no, to) ELSE {b}]
        /\ TargetVerified(n)
        /\ UNCHANGED <<now, blockTime, dbVars, chain, proposing>>

-----------------------------------------------------------------------------
Init ==
    /\ blockTime \in BlockTimes
    /\ now = blockTime[InitialTip]
    /\ view = [n \in Nodes |-> [prefix |-> InitialTip, fork |-> 0]]
    /\ highest = [n \in Nodes |-> InitialTip]
    /\ cache = [n \in Nodes |-> {}]
    /\ chain = <<>>
    /\ imported = [n \in Nodes |-> 0]
    /\ proposing = [n \in Nodes |-> NoProposal]
    /\ verifying = [n \in Nodes |-> NoVerification]

Next ==
    \/ Tick
    \/ \E n \in Nodes :
        \/ DbExtend(n) \/ DbFork(n) \/ DbRollback(n)
        \/ ProposeReadLatest(n) \/ ProposeChoose(n) \/ ProposeFail(n)
        \/ VerifyStart(n) \/ VerifyLookup(n) \/ VerifyLatest(n)
        \/ FillLatest(n) \/ FillCache(n)

Spec == Init /\ [][Next]_vars

-----------------------------------------------------------------------------
(* Properties. *)

PcBlocks == [slot: Nat, ref: McBlocks, tip: Nat]

\* Every piece of state holds a value of its type.
TypeOK ==
    /\ now \in Nat
    /\ blockTime \in BlockTimes
    /\ view \in [Nodes -> [prefix: 0..MaxBlock, fork: 0..MaxBlock]]
    /\ highest \in [Nodes -> 0..MaxBlock]
    /\ cache \in [Nodes -> SUBSET McBlocks]
    /\ chain \in Seq(PcBlocks)
    /\ imported \in [Nodes -> Nat]
    /\ proposing \in [Nodes -> [pc: {"idle", "choose"}, slot: Nat, tip: 0..MaxBlock,
                                parent: Nat]]
    /\ verifying \in [Nodes -> [pc: {"idle", "lookup", "latest", "fillLatest", "fillBlocks"},
                                target: 0..2, latest: 0..MaxBlock]]

\* Every block of the partner chain references a block of canonical Cardano
\* history, never one of a fork that an author's database saw for a while, and
\* its age is within the bounds that verification demands, also when the author
\* falls back to the parent's reference (new_proposal's doc: "within a bounded
\* time distance from `slot`").
ReferencesAreStable ==
    \A i \in DOMAIN chain : /\ ~chain[i].ref.fork
                            /\ chain[i].ref.no \in 0..MaxBlock
                            /\ IsBlockTimeValid(chain[i].ref, chain[i].slot)

\* Along the chain references never go back (new_proposal's doc: "guaranteed to
\* be later or equal to the one referenced by the parent block").
ReferencesNeverRegress ==
    \A i, j \in DOMAIN chain : i < j => chain[i].ref.no <= chain[j].ref.no

\* "All blocks should be stable" (BlocksCache): the cache never holds a block of
\* a fork, though the database may roll back between the queries that fill it.
CacheHoldsStableBlocks == \A n \in Nodes : \A b \in cache[n] : ~b.fork /\ b.no <= view[n].prefix

\* Tips that the authors of the blocks up to block i saw.
TipsUpTo(i) == {chain[j].tip : j \in 1..i}

\* A node refuses an honest block only while its database is more than the
\* stability margin behind the tip that the author of that block, or of an
\* earlier one, has seen.
RefusedOnlyWhenLagging ==
    [][\A n \in Nodes :
         verifying[n].pc # "idle" /\ verifying'[n].pc = "idle" /\ imported'[n] = imported[n]
         => \E tip \in TipsUpTo(imported[n] + 1) : Tip(n) < tip - StabilityMargin]_vars

=============================================================================
