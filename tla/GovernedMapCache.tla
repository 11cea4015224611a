-------------------------- MODULE GovernedMapCache --------------------------
(***************************************************************************)
(* GovernedMapDataSourceCachedImpl: changes of the Governed Map served from *)
(* a cache of rows.  Block authoring and block import share the data source *)
(* and get_mapping_changes holds the cache's mutex only in single steps, so *)
(* the steps of concurrent calls interleave.                                *)
(***************************************************************************)
EXTENDS GovernedMapData

CONSTANTS
    Callers,           \* the tasks that may call get_mapping_changes
    Requests,          \* [scripts, since, upTo]: the calls they may make
    OverlappingScripts,\* may calls for different scripts run at the same time?
    CacheSize,         \* cache_size
    StableOffset,      \* security parameter and stability margin
    MinAge, MaxAge,    \* ages, in seconds, allowed by get_latest_stable_block_for
    FirstBlockTime,    \* time of Cardano block 0, in seconds since the Unix epoch
    FirstTip           \* highest block of the database at the start

NoScripts == "default"

VARIABLES
    cache,   \* Cache; filled is FALSE while its block numbers are None
    call,    \* call[c]: the running call of task c
    tip      \* highest block of the database

vars == <<ledger, cache, call, tip>>

Idle == [pc |-> "idle"]

-----------------------------------------------------------------------------
(* The cache. *)

\* The rows of all keys, and the block of a row.
GetGovernedMapChanges(scr, since, upTo) ==
    UNION {{[key |-> k, row |-> r] : r \in Rows(scr, k, since, upTo)} : k \in Keys}
RowBlock(change) == BlockOf(change.row.at \div 2)

Empty(scr) == [scripts |-> scr, filled |-> FALSE, lowest |-> 0, highest |-> 0, changes |-> {}]

\* Mutated form of SetMainChainScripts: keeps the changes of the old map.
SetMainChainScriptsOnly(scr) == [cache EXCEPT !.scripts = scr]

\* set_main_chain_scripts
SetMainChainScripts(scr) == IF cache.scripts = scr THEN cache ELSE Empty(scr)

\* get_changes_in_range returns Some
InCache(since, upTo) == cache.filled /\ cache.highest >= upTo /\ since >= cache.lowest

\* filter_changes_in_range
FilterInRange(changes, since, upTo) ==
    {c \in changes : RowBlock(c) <= upTo /\ RowBlock(c) > since}

\* Mutated form of Update: takes the ends for each other.
UpdateSwapped(changes) ==
    LET blocks == {RowBlock(c) : c \in changes} \cup (IF changes = {} THEN {0} ELSE {})
    IN  [cache EXCEPT !.filled = TRUE, !.changes = changes,
                      !.lowest = CHOOSE b \in blocks : \A a \in blocks : a <= b,
                      !.highest = CHOOSE b \in blocks : \A a \in blocks : b <= a]

\* update: the range is that of the changes found, not the one searched.
Update(changes) ==
    LET blocks == {RowBlock(c) : c \in changes} \cup (IF changes = {} THEN {0} ELSE {})
    IN  [cache EXCEPT !.filled = TRUE, !.changes = changes,
                      !.lowest = CHOOSE b \in blocks : \A a \in blocks : b <= a,
                      !.highest = CHOOSE b \in blocks : \A a \in blocks : a <= b]

-----------------------------------------------------------------------------
(* The range to search. *)

BlockTime(number) == FirstBlockTime + number

\* The timestamp of the latest block is in seconds, and
\* get_latest_stable_block_for takes it for milliseconds.
ReferenceTime == BlockTime(tip) \div 1000

\* The highest block that is deep enough, by a saturating subtraction.
StableTip == IF tip >= StableOffset THEN tip - StableOffset ELSE 0

StableBlocks ==
    {b \in 0..tip : /\ b <= StableTip
                    /\ ReferenceTime - MaxAge <= BlockTime(b)
                    /\ BlockTime(b) <= ReferenceTime - MinAge}

\* max_search_block
MaxSearchBlock(since, upTo) ==
    LET latest == IF StableBlocks = {} THEN upTo
                  ELSE CHOOSE b \in StableBlocks : \A a \in StableBlocks : a <= b
        plus == IF upTo >= since + CacheSize THEN upTo ELSE since + CacheSize
    IN  IF latest <= plus THEN latest ELSE plus

-----------------------------------------------------------------------------
(* get_mapping_changes, step by step. *)

SetCall(c, value) == call' = [call EXCEPT ![c] = value]

Answer(c, changes) ==
    SetCall(c, [pc |-> "answered", req |-> call[c].req, changes |-> changes])

\* The call of d still uses the cache.
IsRunning(d) == call[d].pc \in {"lookup", "read", "store"}

\* A restriction of the environment, not of the code.  The scripts are storage of
\* the parent block, so calls differ in them only around a block with
\* set_main_chain_scripts; OverlappingScripts lets those calls overlap.
MayStart(scr) ==
    \/ OverlappingScripts
    \/ \A d \in Callers : IsRunning(d) => call[d].req.scripts = scr

\* A call begins with set_main_chain_scripts.
Start(c) ==
    /\ call[c].pc = "idle"
    /\ \E r \in Requests :
        /\ r.upTo <= tip /\ MayStart(r.scripts)
        /\ SetCall(c, [pc |-> "lookup", req |-> r])
        /\ cache' = SetMainChainScripts(r.scripts)
    /\ UNCHANGED <<ledger, tip>>

\* get_changes_from_cache, after the block numbers are resolved.
Lookup(c) ==
    LET r == call[c].req
    IN  /\ call[c].pc = "lookup"
        /\ IF InCache(r.since, r.upTo)
           THEN Answer(c, FilterInRange(cache.changes, r.since, r.upTo))
           ELSE SetCall(c, [pc |-> "read", req |-> r])
        /\ UNCHANGED <<ledger, cache, tip>>

\* get_changes_in_range_to_cache reads the database ...
Read(c) ==
    LET r == call[c].req
    IN  /\ call[c].pc = "read"
        /\ SetCall(c, [pc |-> "store", req |-> r,
                       changes |-> GetGovernedMapChanges(r.scripts, r.since,
                                                         MaxSearchBlock(r.since, r.upTo))])
        /\ UNCHANGED <<ledger, cache, tip>>

\* ... and update stores what it read; the call returns its part of it.
Store(c) ==
    LET r == call[c].req
    IN  /\ call[c].pc = "store"
        /\ cache' = Update(call[c].changes)
        /\ Answer(c, FilterInRange(call[c].changes, r.since, r.upTo))
        /\ UNCHANGED <<ledger, tip>>

\* A query of the database fails and so does the call, or the caller takes the answer.
Finish(c) ==
    /\ call[c].pc \in {"lookup", "read", "answered"}
    /\ SetCall(c, Idle)
    /\ UNCHANGED <<ledger, cache, tip>>

\* The database follows Cardano (external).
Extend ==
    /\ tip < MaxMcBlock
    /\ tip' = tip + 1
    /\ UNCHANGED <<ledger, cache, call>>

Init ==
    /\ ledger \in Ledgers
    /\ cache = Empty(NoScripts)
    /\ call = [c \in Callers |-> Idle]
    /\ tip = FirstTip

Next ==
    \/ Extend
    \/ \E c \in Callers : Start(c) \/ Lookup(c) \/ Read(c) \/ Store(c) \/ Finish(c)

Spec == Init /\ [][Next]_vars

-----------------------------------------------------------------------------
(* Properties. *)

\* The cached rows lie within the block numbers that update stores with them,
\* and calls are in a known state.
TypeOK ==
    /\ ledger \in Ledgers
    /\ cache.scripts \in Scripts \cup {NoScripts}
    /\ cache.lowest \in 0..MaxMcBlock /\ cache.highest \in cache.lowest..MaxMcBlock
    /\ \A change \in cache.changes : RowBlock(change) \in cache.lowest..cache.highest
    /\ tip \in 0..MaxMcBlock
    /\ \A c \in Callers :
        /\ call[c].pc \in {"idle", "lookup", "read", "store", "answered"}
        /\ call[c].pc # "idle" => call[c].req \in Requests

\* get_mapping_changes "queries all changes that occurred in the mappings of the
\* Governed Map on Cardano in the given range of blocks": a call gets the rows
\* of its range, whether it read them, or an earlier or a concurrent call did.
AnswersAgreeWithDatabase ==
    \A c \in Callers : call[c].pc = "answered" =>
        LET r == call[c].req
        IN  call[c].changes = GetGovernedMapChanges(r.scripts, r.since, r.upTo)

=============================================================================
