------------------------- MODULE BridgeCacheProofs -------------------------
(***************************************************************************)
(* A proof about BridgeCache for any number of concurrent calls, any ledger *)
(* and lookahead: as long as calls for different scripts do not overlap, and *)
(* no transfer is in Cardano block 0, every answer is what the database     *)
(* holds.                                                                   *)
(***************************************************************************)
EXTENDS BridgeCache, WellFoundedInduction, TLAPS

\* All UTXOs of scripts s in a range of blocks.
InRange(s, from, to) ==
    {i \in Utxos : /\ ledger[i].scripts = s
                   /\ from <= ledger[i].block /\ ledger[i].block <= to}

\* What is true of the call of one task: while it uses the cache, the cache has
\* its scripts; what it is about to store are all UTXOs in the range it claims.
CallOK(cl, scr) ==
    /\ cl.pc # "idle" => cl.req \in Requests
    /\ cl.pc \in {"lookup", "fill", "store", "serve"} => cl.req.scripts = scr
    /\ cl.pc = "store" => /\ cl.start \in Int /\ cl.end \in Int
                          /\ cl.utxos = InRange(cl.req.scripts, cl.start, cl.end)
    /\ cl.pc = "answered" => cl.utxos = Uncached(cl.req)

\* Why the answers are right: the cache holds every UTXO of its scripts in the
\* range of blocks that it claims.
IInv ==
    /\ ledger \in Ledgers /\ tip \in 0..MaxMcBlock
    /\ call = [c \in Callers |-> call[c]]
    /\ cache = [scripts |-> cache.scripts, start |-> cache.start, end |-> cache.end,
                transfers |-> cache.transfers]
    /\ cache.start \in Int /\ cache.end \in Int
    /\ cache.transfers = InRange(cache.scripts, cache.start, cache.end)
    /\ \A c \in Callers : CallOK(call[c], cache.scripts)

\* Block 0 has no UTXO of the bridge.
NothingInBlockZero == \A l \in Ledgers : \A i \in Utxos : l[i].block >= 1

-----------------------------------------------------------------------------
LEMMA LedgerFacts ==
    ASSUME ledger \in Ledgers
    PROVE  /\ \A i \in Utxos : ledger[i].block \in Nat /\ i \in Nat
           /\ \A i, j \in Utxos : i < j => ledger[i].block <= ledger[j].block
BY LedgerAssumption, SMTT(30) DEF Utxos, UtxoData

(* fill_cache ends at some block. *)
LEMMA FillEndType ==
    ASSUME tip \in 0..MaxMcBlock, NEW toBlock \in 0..MaxMcBlock
    PROVE  FillEnd(toBlock) \in Int
<1> USE LedgerAssumption, CacheAssumption
<1> DEFINE S == StableBlocks
<1>1. ASSUME S # {} PROVE \E b \in S : \A a \in S : a <= b
    <2> DEFINE Bounds == {u \in Nat : \A i \in S : i <= u}
    <2>1. S \subseteq 0..tip
        BY DEF StableBlocks
    <2> HIDE DEF S
    <2>2. tip \in Bounds
        BY <2>1
    <2>3. PICK u \in Bounds : \A v \in Bounds : ~(<<v, u>> \in OpToRel(<, Nat))
        <3>1. Bounds \subseteq Nat /\ Bounds # {}
            BY <2>2
        <3> HIDE DEF Bounds
        <3> QED BY <3>1, NatLessThanWellFounded, WFMin
    <2>4. \A v \in Bounds : ~(v < u)
        BY <2>3 DEF OpToRel
    <2>5. u \in S
        <3> SUFFICES ASSUME u \notin S PROVE FALSE
            OBVIOUS
        <3>1. \A i \in S : i \in Nat /\ i <= u - 1
            BY <2>1
        <3>2. u - 1 \in Bounds /\ u - 1 < u
            BY <1>1, <3>1
        <3> QED BY <2>4, <3>2
    <2> QED BY <2>5
<1>2. S # {} => (CHOOSE b \in S : \A a \in S : a <= b) \in Int
    <2>1. \A b \in S : b \in Int
        BY DEF StableBlocks
    <2> QED BY <1>1, <2>1
<1> QED BY <1>2 DEF FillEnd

(* Data that covers a request answers it as the database would. *)
LEMMA ServedIsUncached ==
    ASSUME IInv, NEW r \in Requests, r.scripts = cache.scripts, IsServable(r.checkpoint, r.toBlock)
    PROVE  ServeFromCache(r.checkpoint, r.toBlock) = Uncached(r)
<1> USE LedgerAssumption, CacheAssumption
<1> DEFINE cp == r.checkpoint
           s == cache.scripts
<1>1. /\ \A i \in Utxos : ledger[i].block \in Nat /\ i \in Nat
      /\ \A i, j \in Utxos : i < j => ledger[i].block <= ledger[j].block
    BY LedgerFacts DEF IInv
<1>2. cp \in Checkpoints /\ r.toBlock \in Nat /\ r.scripts = s
    OBVIOUS
<1>3. /\ cache.end >= r.toBlock
      /\ cache.start <= IF cp.at = "block" THEN cp.no + 1 ELSE ledger[cp.no].block
      /\ cache.start \in Int /\ cache.end \in Int
      /\ cache.transfers = InRange(s, cache.start, cache.end)
    BY DEF IsServable, IInv
<1> HIDE DEF cp, s
<1>4. ASSUME NEW i \in Utxos, After(i, cp)
      PROVE  cache.start <= ledger[i].block
    <2>1. CASE cp.at = "block"
        <3>1. cp.no \in Nat
            BY <1>2, <2>1 DEF Checkpoints
        <3> QED BY <1>1, <1>3, <1>4, <2>1, <3>1 DEF After
    <2>2. CASE cp.at # "block"
        <3>1. cp.no \in Utxos
            BY <1>2, <2>2 DEF Checkpoints
        <3>2. ledger[cp.no].block <= ledger[i].block
            BY <1>1, <1>4, <2>2, <3>1 DEF After
        <3> QED BY <1>1, <1>3, <2>2, <3>1, <3>2
    <2> QED BY <2>1, <2>2
<1>5. ASSUME NEW i \in Utxos
      PROVE  i \in cache.transfers /\ After(i, cp) /\ ledger[i].block <= r.toBlock <=>
             ledger[i].scripts = s /\ After(i, cp) /\ ledger[i].block <= r.toBlock
    BY <1>1, <1>2, <1>3, <1>4 DEF InRange
<1>6. cache.transfers \subseteq Utxos
    BY <1>3 DEF InRange
<1>7. ServeFromCache(cp, r.toBlock) =
        {i \in Utxos : i \in cache.transfers /\ After(i, cp) /\ ledger[i].block <= r.toBlock}
    BY <1>6 DEF ServeFromCache
<1>8. Uncached(r) = {i \in Utxos : ledger[i].scripts = s /\ After(i, cp) /\ ledger[i].block <= r.toBlock}
    BY <1>2 DEF Uncached, GetBridgeUtxosTx, cp
<1>9. ServeFromCache(cp, r.toBlock) = Uncached(r)
    BY <1>5, <1>7, <1>8
<1> QED BY <1>9 DEF cp

(* fill_cache reads all UTXOs of its range. *)
LEMMA FillReadsRange ==
    ASSUME NothingInBlockZero, ledger \in Ledgers, NEW r \in Requests, NEW end \in Int
    PROVE  /\ GetBlockNumber(r.checkpoint) \in Int
           /\ GetBridgeUtxosTx(r.scripts, FillFrom(r.checkpoint), end)
                = InRange(r.scripts, GetBlockNumber(r.checkpoint), end)
<1> USE LedgerAssumption, CacheAssumption
<1>1. \A i \in Utxos : ledger[i].block \in Nat /\ ledger[i].block >= 1
    BY LedgerFacts DEF NothingInBlockZero
<1> DEFINE b == GetBlockNumber(r.checkpoint)
<1>2. b \in Nat
    <2>1. r.checkpoint \in Checkpoints
        OBVIOUS
    <2> QED BY <1>1, <2>1 DEF Checkpoints, GetBlockNumber
<1>3. \A i \in Utxos : After(i, FillFrom(r.checkpoint)) <=>
                         ledger[i].block > (IF b = 0 THEN 0 ELSE b - 1)
    BY DEF After, FillFrom, AtBlock
<1> HIDE DEF b
<1>4. \A i \in Utxos : After(i, FillFrom(r.checkpoint)) <=> b <= ledger[i].block
    BY <1>1, <1>2, <1>3
<1> QED BY <1>2, <1>4 DEF GetBridgeUtxosTx, InRange, b

-----------------------------------------------------------------------------
(* An empty cache holds what it claims. *)
LEMMA EmptyRange ==
    ASSUME NothingInBlockZero, ledger \in Ledgers, NEW scr
    PROVE  InRange(scr, 0, 0) = {}
<1>1. \A i \in Utxos : ledger[i].block \in Nat /\ ledger[i].block >= 1
    BY LedgerFacts DEF NothingInBlockZero
<1> QED BY <1>1 DEF InRange

LEMMA InitIInv == ASSUME NothingInBlockZero, Init PROVE IInv
BY EmptyRange, CacheAssumption DEF Init, IInv, CallOK, Idle

(* A step that changes the call of one task and leaves the cache alone. *)
LEMMA OneCallSteps ==
    ASSUME IInv, NEW c \in Callers, NEW value, CallOK(value, cache.scripts),
           SetCall(c, value), UNCHANGED <<ledger, cache, tip>>
    PROVE  IInv'
<1>1. call' = [d \in Callers |-> IF d = c THEN value ELSE call[d]]
    BY DEF SetCall, IInv
<1>2. \A d \in Callers : CallOK(call'[d], cache.scripts)
    BY <1>1 DEF IInv
<1>3. call' = [d \in Callers |-> call'[d]]
    BY <1>1
<1> QED BY <1>2, <1>3 DEF IInv, CallOK, InRange, Uncached, GetBridgeUtxosTx, After

(* A step that changes the call of one task and the cache, and the scripts of *)
(* the cache only if no other call uses it.                                   *)
LEMMA CacheSteps ==
    ASSUME IInv, NEW c \in Callers, NEW value, NEW scr, CallOK(value, scr),
           SetCall(c, value), UNCHANGED <<ledger, tip>>,
           \A d \in Callers \ {c} : IsRunning(d) => call[d].req.scripts = scr,
           NEW from \in Int, NEW to \in Int,
           cache' = [scripts |-> scr, start |-> from, end |-> to,
                     transfers |-> InRange(scr, from, to)]
    PROVE  IInv'
<1>1. call' = [d \in Callers |-> IF d = c THEN value ELSE call[d]]
    BY DEF SetCall, IInv
<1>2. \A d \in Callers \ {c} : CallOK(call[d], scr)
    BY DEF IInv, CallOK, IsRunning
<1>3. \A d \in Callers : CallOK(call'[d], scr)
    BY <1>1, <1>2
<1>4. call' = [d \in Callers |-> call'[d]]
    BY <1>1
<1>5. cache'.scripts = scr
    OBVIOUS
<1> QED BY <1>3, <1>4, <1>5 DEF IInv, CallOK, InRange, Uncached, GetBridgeUtxosTx, After

LEMMA NextIInv ==
    ASSUME NothingInBlockZero, ~OverlappingScripts, IInv, [Next]_vars
    PROVE  IInv'
<1>1. CASE UNCHANGED vars
    BY <1>1 DEF vars, IInv, CallOK, InRange, Uncached, GetBridgeUtxosTx, After
<1>2. CASE Extend
    BY <1>2, LedgerAssumption DEF Extend, IInv, CallOK, InRange, Uncached, GetBridgeUtxosTx, After
<1>3. ASSUME NEW c \in Callers, Start(c) PROVE IInv'
    <2>1. PICK r \in Requests : /\ MayStart(r.scripts)
                                /\ SetCall(c, [pc |-> "lookup", req |-> r])
                                /\ cache' = SetMcScripts(r.scripts)
        BY <1>3 DEF Start
    <2>2. CallOK([pc |-> "lookup", req |-> r], r.scripts)
        BY DEF CallOK
    <2>3. UNCHANGED <<ledger, tip>>
        BY <1>3 DEF Start
    <2>4. CASE cache.scripts = r.scripts
        BY <2>1, <2>2, <2>3, <2>4, OneCallSteps DEF SetMcScripts
    <2>5. CASE cache.scripts # r.scripts
        <3>1. cache' = [scripts |-> r.scripts, start |-> 0, end |-> 0,
                        transfers |-> InRange(r.scripts, 0, 0)]
            BY <2>1, <2>5, EmptyRange DEF SetMcScripts, IInv
        <3>2. \A d \in Callers \ {c} : IsRunning(d) => call[d].req.scripts = r.scripts
            BY <2>1 DEF MayStart
        <3> QED BY <2>1, <2>2, <2>3, <3>1, <3>2, CacheSteps
    <2> QED BY <2>4, <2>5
<1>4. ASSUME NEW c \in Callers, Lookup(c) \/ Serve(c) PROVE IInv'
    <2> DEFINE r == call[c].req
    <2>1. r \in Requests /\ r.scripts = cache.scripts
        BY <1>4 DEF Lookup, Serve, IInv, CallOK
    <2>2. UNCHANGED <<ledger, cache, tip>>
        BY <1>4 DEF Lookup, Serve
    <2>3. CASE IsServable(r.checkpoint, r.toBlock)
        <3> DEFINE value == [pc |-> "answered", req |-> r,
                             utxos |-> ServeFromCache(r.checkpoint, r.toBlock)]
        <3>1. SetCall(c, value)
            BY <1>4, <2>3 DEF Lookup, Serve, Answer
        <3>2. CallOK(value, cache.scripts)
            BY <2>1, <2>3, ServedIsUncached DEF CallOK
        <3> HIDE DEF value
        <3> QED BY <2>2, <3>1, <3>2, OneCallSteps
    <2>4. CASE ~IsServable(r.checkpoint, r.toBlock)
        <3>1. PICK pc \in {"fill", "missing"} : SetCall(c, [pc |-> pc, req |-> r])
            BY <1>4, <2>4 DEF Lookup, Serve
        <3>2. CallOK([pc |-> pc, req |-> r], cache.scripts)
            BY <2>1 DEF CallOK
        <3> QED BY <2>2, <3>1, <3>2, OneCallSteps
    <2> QED BY <2>3, <2>4
<1>5. ASSUME NEW c \in Callers, FillRead(c) PROVE IInv'
    <2> DEFINE r == call[c].req
               end == FillEnd(r.toBlock)
               value == [pc |-> "store", req |-> r, start |-> GetBlockNumber(r.checkpoint),
                         end |-> end,
                         utxos |-> GetBridgeUtxosTx(r.scripts, FillFrom(r.checkpoint), end)]
    <2>1. r \in Requests /\ r.scripts = cache.scripts
        BY <1>5 DEF FillRead, IInv, CallOK
    <2>2. end \in Int
        BY <2>1, FillEndType, CacheAssumption DEF IInv
    <2>3. SetCall(c, value) /\ UNCHANGED <<ledger, cache, tip>>
        BY <1>5 DEF FillRead
    <2> HIDE DEF end
    <2>4. CallOK(value, cache.scripts)
        BY <2>1, <2>2, FillReadsRange DEF CallOK, IInv
    <2> HIDE DEF value
    <2> QED BY <2>3, <2>4, OneCallSteps
<1>6. ASSUME NEW c \in Callers, FillStore(c) PROVE IInv'
    <2> DEFINE scr == cache.scripts
    <2>1. /\ call[c].req \in Requests /\ call[c].req.scripts = scr
          /\ call[c].start \in Int /\ call[c].end \in Int
          /\ call[c].utxos = InRange(scr, call[c].start, call[c].end)
        BY <1>6 DEF FillStore, IInv, CallOK
    <2>2. cache' = [scripts |-> scr, start |-> call[c].start, end |-> call[c].end,
                    transfers |-> InRange(scr, call[c].start, call[c].end)]
        BY <1>6, <2>1 DEF FillStore, IInv
    <2>3. CallOK([pc |-> "serve", req |-> call[c].req], scr)
        BY <2>1 DEF CallOK
    <2>4. SetCall(c, [pc |-> "serve", req |-> call[c].req]) /\ UNCHANGED <<ledger, tip>>
        BY <1>6 DEF FillStore
    <2>5. \A d \in Callers \ {c} : IsRunning(d) => call[d].req.scripts = scr
        BY DEF IInv, CallOK, IsRunning
    <2> HIDE DEF scr
    <2> QED BY <2>1, <2>2, <2>3, <2>4, <2>5, CacheSteps
<1>7. ASSUME NEW c \in Callers, Fail(c) \/ Finish(c) PROVE IInv'
    <2>1. CallOK(Idle, cache.scripts)
        BY DEF CallOK, Idle
    <2> QED BY <1>7, <2>1, OneCallSteps DEF Fail, Finish
<1> QED BY <1>1, <1>2, <1>3, <1>4, <1>5, <1>6, <1>7 DEF Next

(* As long as calls for different scripts do not overlap and no UTXO of the   *)
(* bridge is in block 0, concurrent get_transfers of the cached data source   *)
(* that return data return what the database holds, however they interleave. *)
THEOREM AnswersAlwaysAgree ==
    ASSUME NothingInBlockZero, ~OverlappingScripts
    PROVE  Spec => []AnswersAgreeWithDatabase
<1>1. Init => IInv
    BY InitIInv
<1>2. IInv /\ [Next]_vars => IInv'
    BY NextIInv
<1>3. IInv => AnswersAgreeWithDatabase
    BY DEF IInv, CallOK, AnswersAgreeWithDatabase
<1> QED BY <1>1, <1>2, <1>3, PTL DEF Spec

=============================================================================
