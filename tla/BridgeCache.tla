---------------------------- MODULE BridgeCache ----------------------------
(***************************************************************************)
(* CachedTokenBridgeDataSourceImpl: bridge transfers served from a cache of *)
(* a range of Cardano blocks.                                               *)
(*                                                                          *)
(* A node has one such data source and uses it from its block authoring and *)
(* its block import task at once.  The cache's mutex is released between    *)
(* the steps of get_transfers, so the steps of concurrent calls interleave. *)
(***************************************************************************)
EXTENDS BridgeData

CONSTANTS
    Callers,           \* the tasks that may call get_transfers
    Requests,          \* [scripts, checkpoint, toBlock, max]: the calls they may make
    OverlappingScripts,\* may calls for different scripts run at the same time?
    CacheLookahead,    \* cache_lookahead
    StableOffset,      \* security parameter and stability margin
    MinAge, MaxAge,    \* ages, in seconds, allowed by get_latest_stable_block_for
    FirstBlockTime,    \* time of Cardano block 0, in seconds since the Unix epoch
    FirstTip           \* highest block of the database at the start

NoScripts == "default"

ASSUME CacheAssumption ==
    /\ CacheLookahead \in Nat /\ StableOffset \in Nat /\ OverlappingScripts \in BOOLEAN
    /\ MinAge \in Nat /\ MaxAge \in Nat /\ FirstBlockTime \in Nat /\ FirstTip \in 0..MaxMcBlock
    /\ NoScripts \notin Scripts
    /\ \A r \in Requests : /\ r \in [scripts: Scripts, checkpoint: Checkpoints,
                                     toBlock: 0..MaxMcBlock, max: Nat]

VARIABLES
    cache,   \* TokenUtxoCache
    call,    \* call[c]: the running call of task c
    tip      \* highest block of the database

vars == <<ledger, cache, call, tip>>

Idle == [pc |-> "idle"]

-----------------------------------------------------------------------------
(* The cache. *)

\* Mutated form of SetMcScripts: keeps the data of the old scripts.
SetMcScriptsOnly(scr) == [cache EXCEPT !.scripts = scr]

\* set_mc_scripts
SetMcScripts(scr) ==
    IF cache.scripts = scr THEN cache
    ELSE [scripts |-> scr, start |-> 0, end |-> 0, transfers |-> {}]

\* serve_from_cache returns Some
IsServable(cp, toBlock) ==
    /\ cache.end >= toBlock
    /\ cache.start <= IF cp.at = "block" THEN cp.no + 1 ELSE ledger[cp.no].block

\* The transfers that serve_from_cache skips to and takes, without its limit.
ServeFromCache(cp, toBlock) ==
    {i \in cache.transfers : After(i, cp) /\ ledger[i].block <= toBlock}

-----------------------------------------------------------------------------
(* Filling the cache. *)

BlockTime(number) == FirstBlockTime + number

\* The block data source is asked with the timestamp of its latest block.  That
\* is in seconds, and get_latest_stable_block_for takes it for milliseconds.
ReferenceTime == BlockTime(tip) \div 1000

\* The highest block that is deep enough, by a saturating subtraction.
StableTip == IF tip >= StableOffset THEN tip - StableOffset ELSE 0

\* Numbers of the blocks of which get_latest_stable_block takes the highest.
StableBlocks ==
    {b \in 0..tip : /\ b <= StableTip
                    /\ ReferenceTime - MaxAge <= BlockTime(b)
                    /\ BlockTime(b) <= ReferenceTime - MinAge}

\* Mutated form of FillEnd: not bounded by the stable blocks.
FillEndUnbounded(toBlock) == toBlock + CacheLookahead

\* The end of the range that fill_cache loads.
FillEnd(toBlock) ==
    LET latest == IF StableBlocks = {} THEN toBlock
                  ELSE CHOOSE b \in StableBlocks : \A a \in StableBlocks : a <= b
    IN  IF toBlock + CacheLookahead <= latest THEN toBlock + CacheLookahead ELSE latest

\* "We want to load all data in the block of `data_checkpoint`, so we go one
\* block back", by a saturating subtraction.
FillFrom(cp) == AtBlock(IF GetBlockNumber(cp) = 0 THEN 0 ELSE GetBlockNumber(cp) - 1)

-----------------------------------------------------------------------------
(* get_transfers, step by step. *)

SetCall(c, value) == call' = [call EXCEPT ![c] = value]

\* The call of d still uses the cache.
IsRunning(d) == call[d].pc \in {"lookup", "fill", "store", "serve"}

\* A restriction of the environment, not of the code.  The scripts are storage of
\* the parent block, so calls differ in them only around a block with
\* set_main_chain_scripts; OverlappingScripts lets those calls overlap.
MayStart(scr) ==
    \/ OverlappingScripts
    \/ \A d \in Callers : IsRunning(d) => call[d].req.scripts = scr

\* A call begins: set_cache_mc_scripts.
Start(c) ==
    /\ call[c].pc = "idle"
    /\ \E r \in Requests :
        /\ r.toBlock <= tip /\ MayStart(r.scripts)
        /\ SetCall(c, [pc |-> "lookup", req |-> r])
        /\ cache' = SetMcScripts(r.scripts)
    /\ UNCHANGED <<ledger, tip>>

\* The call returns the first max of utxos.
Answer(c, utxos) == SetCall(c, [pc |-> "answered", req |-> call[c].req, utxos |-> utxos])

\* The first try_serve_from_cache, after the checkpoint is resolved.
Lookup(c) ==
    LET r == call[c].req
    IN  /\ call[c].pc = "lookup"
        /\ IF IsServable(r.checkpoint, r.toBlock)
           THEN Answer(c, ServeFromCache(r.checkpoint, r.toBlock))
           ELSE SetCall(c, [pc |-> "fill", req |-> r])
        /\ UNCHANGED <<ledger, cache, tip>>

\* fill_cache reads the database ...
FillRead(c) ==
    LET r == call[c].req
        end == FillEnd(r.toBlock)
    IN  /\ call[c].pc = "fill"
        /\ SetCall(c, [pc |-> "store", req |-> r, start |-> GetBlockNumber(r.checkpoint), end |-> end,
                       utxos |-> GetBridgeUtxosTx(r.scripts, FillFrom(r.checkpoint), end)])
        /\ UNCHANGED <<ledger, cache, tip>>

\* ... and set_cached_transfers stores what it read.
FillStore(c) ==
    /\ call[c].pc = "store"
    /\ cache' = [cache EXCEPT !.start = call[c].start, !.end = call[c].end,
                              !.transfers = call[c].utxos]
    /\ SetCall(c, [pc |-> "serve", req |-> call[c].req])
    /\ UNCHANGED <<ledger, tip>>

\* The second try_serve_from_cache; it fails when it finds too little.
Serve(c) ==
    LET r == call[c].req
    IN  /\ call[c].pc = "serve"
        /\ IF IsServable(r.checkpoint, r.toBlock)
           THEN Answer(c, ServeFromCache(r.checkpoint, r.toBlock))
           ELSE SetCall(c, [pc |-> "missing", req |-> r])
        /\ UNCHANGED <<ledger, cache, tip>>

\* A query of the database fails, and so does the call.
Fail(c) ==
    /\ call[c].pc \in {"lookup", "fill"}
    /\ SetCall(c, Idle)
    /\ UNCHANGED <<ledger, cache, tip>>

\* The caller takes the answer or the error.
Finish(c) ==
    /\ call[c].pc \in {"answered", "missing"}
    /\ SetCall(c, Idle)
    /\ UNCHANGED <<ledger, cache, tip>>

\* The database follows Cardano (external).
Extend ==
    /\ tip < MaxMcBlock
    /\ tip' = tip + 1
    /\ UNCHANGED <<ledger, cache, call>>

Init ==
    /\ ledger \in Ledgers
    /\ cache = [scripts |-> NoScripts, start |-> 0, end |-> 0, transfers |-> {}]
    /\ call = [c \in Callers |-> Idle]
    /\ tip = FirstTip

Next ==
    \/ Extend
    \/ \E c \in Callers : \/ Start(c) \/ Lookup(c) \/ FillRead(c) \/ FillStore(c) \/ Serve(c)
                          \/ Fail(c) \/ Finish(c)

Spec == Init /\ [][Next]_vars

-----------------------------------------------------------------------------
(* Properties. *)

\* The cached range stays within Cardano's blocks, which fill_cache must not
\* pass, and calls are in a known state.
TypeOK ==
    /\ ledger \in Ledgers
    /\ cache \in [scripts: Scripts \cup {NoScripts}, start: 0..MaxMcBlock, end: 0..MaxMcBlock,
                  transfers: SUBSET Utxos]
    /\ tip \in 0..MaxMcBlock
    /\ \A c \in Callers :
        /\ call[c].pc \in {"idle", "lookup", "fill", "store", "serve", "answered", "missing"}
        /\ call[c].pc # "idle" => call[c].req \in Requests

\* What the data source without a cache returns (before the limit, which both
\* apply alike).
Uncached(r) == GetBridgeUtxosTx(r.scripts, r.checkpoint, r.toBlock)

\* A call that is answered gets what the database holds, whether the data was
\* cached by this call, by an earlier one, or by one that ran in between.
AnswersAgreeWithDatabase ==
    \A c \in Callers : call[c].pc = "answered" => call[c].utxos = Uncached(call[c].req)

\* The doc of the data source: "The cache is filled with utxos in range:
\* [lower_query_bound, min(upper_query_bound + cache_lookahead,
\* current_stable_tip)]".
FillsLookahead ==
    [][\A c \in Callers : call[c].pc = "fill" /\ call'[c].pc = "store" =>
            \/ call'[c].end >= call[c].req.toBlock + CacheLookahead
            \/ call'[c].end >= StableTip]_vars

=============================================================================
