------------------------------ MODULE MCCaches ------------------------------
(***************************************************************************)
(* Instances of the caching data sources of a node for model checking:      *)
(* BridgeCache and GovernedMapCache.  They share nothing but the database,  *)
(* so a behaviour exercises one of them, its focus.                         *)
(***************************************************************************)
EXTENDS BridgeCache, TLC

CONSTANTS s1, s2, alice, c1, c2, k1, k2, v1, v2,
          Foci   \* the data sources to exercise

VARIABLES
    focus,
    mapLedger, mapCache, mapCall, mapTip

mapVars == <<mapLedger, mapCache, mapCall, mapTip>>

-----------------------------------------------------------------------------
(* Bridge transfers. *)

Utxo(block, scr) ==
    [block |-> block, scripts |-> scr, tokensOut |-> 1, tokensIn |-> 0, datum |-> alice]

Spread == <<Utxo(1, s1), Utxo(2, s1), Utxo(2, s1), Utxo(3, s2), Utxo(4, s1)>>
Paired == <<Utxo(1, s2), Utxo(1, s1), Utxo(3, s1), Utxo(3, s1), Utxo(4, s2)>>
MCLedgers == {Spread, Paired}

MCRequests ==
    [scripts: Scripts, toBlock: 2..MaxMcBlock, max: {2},
     checkpoint: {AtBlock(n) : n \in 0..MaxMcBlock} \cup {AtUtxo(i) : i \in Utxos}]

-----------------------------------------------------------------------------
(* Changes of the governed map. *)

\* Two transactions in block 1, and one in each of blocks 2, 3 and 4.
MCTxBlock == <<1, 1, 2, 3, 4>>
Never == 6  \* after the last transaction: unspent

An(scr, key, value, created, spent) ==
    [scripts |-> scr, key |-> key, value |-> value, created |-> created, spent |-> spent]

\* A key that is inserted, updated and removed, and a key of another map; and
\* entries of two keys that end and begin in the same blocks.
MCMapLedgers ==
    {<<An(s1, k1, v1, 1, 3), An(s1, k1, v2, 3, 5), An(s2, k1, v1, 2, 4)>>,
     <<An(s1, k2, v1, 1, 2), An(s1, k1, v2, 4, Never), An(s2, k2, v2, 3, 4)>>}

MCMapRequests ==
    {r \in [scripts: Scripts, since: 0..MaxMcBlock, upTo: 0..MaxMcBlock] : r.since <= r.upTo}

MapSource ==
    INSTANCE GovernedMapCache
    WITH Keys <- {k1, k2}, Values <- {v1, v2}, Utxos <- 1..3, NumTxs <- 5,
         TxBlock <- MCTxBlock, Ledgers <- MCMapLedgers, Requests <- MCMapRequests,
         CacheSize <- 2, FirstTip <- 2,
         ledger <- mapLedger, cache <- mapCache, call <- mapCall, tip <- mapTip

\* TypeOK of GovernedMapCache: the cached rows lie within the block numbers that
\* update stores with them, and calls are in a known state.
MapTypeOK == MapSource!TypeOK

\* AnswersAgreeWithDatabase of GovernedMapCache: a call of get_mapping_changes
\* returns the rows of the database in its range, whatever is cached.
MapAnswersAgree == MapSource!AnswersAgreeWithDatabase

-----------------------------------------------------------------------------
MCInit ==
    /\ focus \in Foci
    /\ Init /\ MapSource!Init
    /\ focus # "bridge" => ledger = Spread
    /\ focus # "map" => mapLedger = CHOOSE l \in MCMapLedgers : TRUE

MCNext ==
    /\ \/ focus = "bridge" /\ Next /\ UNCHANGED mapVars
       \/ focus = "map" /\ MapSource!Next /\ UNCHANGED vars
    /\ UNCHANGED focus

MCSpec == MCInit /\ [][MCNext]_<<focus, vars, mapVars>>

MCSymmetry == Permutations(Callers)

=============================================================================
