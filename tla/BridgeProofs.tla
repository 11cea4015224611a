---------------------------- MODULE BridgeProofs ----------------------------
(***************************************************************************)
(* Proofs about Bridge for every ledger, limit and number of configurations *)
(* as long as no configured checkpoint is past the referenced block.        *)
(*                                                                          *)
(* HandledExactlyOnce needs the invariant that the checkpoint is not past   *)
(* the block referenced last: a query of an earlier block would move it     *)
(* back and let transfers be handled again.                                 *)
(***************************************************************************)
EXTENDS Bridge, FiniteSetTheorems, WellFoundedInduction, TLAPS

CheckpointReferenced == checkpoint # None => GetBlockNumber(checkpoint) <= mcBlock

\* The checkpoint is not before the one configured.
CheckpointAdvanced ==
    IsConfigured => \A i \in Utxos : ~After(i, configured.checkpoint) => ~After(i, checkpoint)

IInv == TypeOK /\ CheckpointReferenced /\ CheckpointAdvanced /\ HandledExactlyOnce

-----------------------------------------------------------------------------
(* Sets of UTXOs have a last one. *)
LEMMA LastExists ==
    ASSUME NEW rows \in SUBSET Utxos, rows # {}
    PROVE  LastOf(rows) \in rows /\ \A i \in rows : i <= LastOf(rows)
<1> DEFINE Bounds == {u \in Nat : \A i \in rows : i <= u}
<1>1. NumUtxos \in Bounds
    BY LedgerAssumption DEF Utxos
<1>2. PICK u \in Bounds : \A v \in Bounds : ~(v < u)
    <2>1. IsWellFoundedOn(OpToRel(<, Nat), Nat)
        BY NatLessThanWellFounded
    <2>2. Bounds \subseteq Nat /\ Bounds # {}
        BY <1>1
    <2>3. PICK u \in Bounds : \A v \in Bounds : ~(<<v, u>> \in OpToRel(<, Nat))
        BY <2>1, <2>2, WFMin
    <2> QED BY <2>3 DEF OpToRel
<1>3. u \in rows
    <2> SUFFICES ASSUME u \notin rows PROVE FALSE
        OBVIOUS
    <2>1. \A i \in rows : i \in Nat /\ i >= 1 /\ i <= u - 1
        BY LedgerAssumption DEF Utxos
    <2>2. u - 1 \in Bounds /\ u - 1 < u
        BY <2>1
    <2> QED BY <1>2, <2>2
<1>4. \E l \in rows : \A i \in rows : i <= l
    BY <1>3
<1> QED BY <1>4 DEF LastOf

LEMMA LedgerFacts ==
    ASSUME TypeOK
    PROVE  /\ \A i \in Utxos : ledger[i].block \in 0..MaxMcBlock /\ TokenAmount(i) \in Nat
           /\ \A i, j \in Utxos : i < j => ledger[i].block <= ledger[j].block
           /\ \A i \in Utxos : i \in Nat
<1>1. ledger \in [Utxos -> UtxoData]
    BY LedgerAssumption DEF TypeOK
<1>2. \A i \in Utxos : /\ ledger[i].block \in 0..MaxMcBlock
                       /\ ledger[i].tokensOut \in Nat /\ ledger[i].tokensIn \in Nat
    BY <1>1 DEF UtxoData
<1>3. \A i, j \in Utxos : i < j => ledger[i].block <= ledger[j].block
    BY LedgerAssumption DEF TypeOK
<1>4. \A i \in Utxos : TokenAmount(i) \in Nat
    BY <1>2 DEF TokenAmount
<1>5. \A i \in Utxos : i \in Nat
    BY DEF Utxos
<1> QED BY <1>2, <1>3, <1>4, <1>5

(* What one inherent does to the checkpoint: it moves on over exactly the   *)
(* UTXOs whose transfers it hands to the pallet, and those of other scripts.*)
LEMMA CheckpointMovesOn ==
    ASSUME TypeOK, CheckpointReferenced, IsConfigured,
           NEW toBlock \in 0..MaxMcBlock, mcBlock <= toBlock,
           NEW rows \in SUBSET Utxos, GetTransfers(rows, toBlock)
    PROVE  LET cp == NewCheckpoint(rows, MaxTransfersPerBlock, toBlock)
           IN  /\ cp \in Checkpoints /\ cp # None /\ GetBlockNumber(cp) <= toBlock
               /\ \A i \in Utxos : ~After(i, checkpoint) => ~After(i, cp)
               /\ \A i \in Utxos :
                    i \in rows <=> /\ ledger[i].scripts = scripts
                                   /\ After(i, checkpoint) /\ ~After(i, cp)
<1>1. /\ \A i \in Utxos : ledger[i].block \in 0..MaxMcBlock
      /\ \A i, j \in Utxos : i < j => ledger[i].block <= ledger[j].block
      /\ \A i \in Utxos : i \in Nat
    BY LedgerFacts
<1> USE LedgerAssumption, BridgeAssumption
<1> DEFINE cp == NewCheckpoint(rows, MaxTransfersPerBlock, toBlock)
           query == GetBridgeUtxosTx(scripts, checkpoint, toBlock)
<1>2. mcBlock \in Nat /\ checkpoint \in Checkpoints
    BY DEF TypeOK, IsConfigured
<1>3. GetBlockNumber(checkpoint) <= mcBlock
    BY DEF CheckpointReferenced, IsConfigured
<1>4. \A i \in Utxos : ~After(i, checkpoint) => ledger[i].block <= toBlock
    <2> SUFFICES ASSUME NEW i \in Utxos, ~After(i, checkpoint) PROVE ledger[i].block <= toBlock
        OBVIOUS
    <2>1. CASE checkpoint.at = "block"
        <3>1. checkpoint.no \in Nat
            BY <1>2, <2>1 DEF Checkpoints
        <3> QED BY <1>1, <1>2, <1>3, <2>1, <3>1 DEF After, GetBlockNumber
    <2>2. CASE checkpoint.at # "block"
        <3> DEFINE u == checkpoint.no
        <3>1. u \in Utxos /\ ledger[u].block <= mcBlock
            BY <1>2, <1>3, <2>2 DEF Checkpoints, GetBlockNumber
        <3>2. i <= u
            BY <1>1, <2>2, <3>1 DEF After
        <3> HIDE DEF u
        <3>3. ledger[i].block <= ledger[u].block
            BY <1>1, <3>1, <3>2
        <3> QED BY <1>1, <1>2, <3>1, <3>3
    <2> QED BY <2>1, <2>2
<1>5. /\ rows \subseteq query
      /\ \A i \in rows, j \in query : j < i => j \in rows
      /\ Cardinality(rows) < MaxTransfersPerBlock => rows = query
    BY DEF GetTransfers, AreFirst
<1>6. IsFiniteSet(rows) /\ Cardinality(rows) \in Nat
    <2>1. IsFiniteSet(Utxos)
        BY FS_Interval DEF Utxos
    <2> QED BY <2>1, FS_Subset, FS_CardinalityType
<1>7. \A i \in Utxos : i \in query <=> /\ ledger[i].scripts = scripts /\ After(i, checkpoint)
                                       /\ ledger[i].block <= toBlock
    BY DEF GetBridgeUtxosTx
<1>8. CASE rows # {} /\ Cardinality(rows) >= MaxTransfersPerBlock
    <2> DEFINE l == LastOf(rows)
    <2>1. l \in rows /\ \A i \in rows : i <= l
        BY <1>8, LastExists
    <2>2. cp = AtUtxo(l)
        BY <1>8 DEF NewCheckpoint
    <2> HIDE DEF l, cp, query
    <2>3. l \in Utxos /\ ledger[l].block <= toBlock /\ After(l, checkpoint)
        BY <1>5, <1>7, <2>1
    <2>4. cp \in Checkpoints /\ cp # None /\ GetBlockNumber(cp) = ledger[l].block
        BY <2>2, <2>3 DEF AtUtxo, Checkpoints, None, GetBlockNumber
    <2>5. \A i \in Utxos : After(i, cp) <=> i > l
        BY <2>2 DEF AtUtxo, After
    <2>6. \A i \in Utxos : ~After(i, checkpoint) => i <= l
        <3> SUFFICES ASSUME NEW i \in Utxos, ~After(i, checkpoint), ~(i <= l) PROVE FALSE
            OBVIOUS
        <3>1. CASE checkpoint.at = "block"
            <4>1. checkpoint.no \in Nat
                BY <1>2, <3>1 DEF Checkpoints
            <4>2. ledger[l].block <= ledger[i].block
                BY <1>1, <2>3
            <4> QED BY <1>1, <2>3, <3>1, <4>1, <4>2 DEF After
        <3>2. CASE checkpoint.at # "block"
            <4>1. checkpoint.no \in Nat
                BY <1>2, <3>2 DEF Checkpoints, Utxos
            <4> QED BY <1>1, <2>3, <3>2, <4>1 DEF After
        <3> QED BY <3>1, <3>2
    <2>7. ASSUME NEW i \in Utxos
          PROVE  i \in rows <=> ledger[i].scripts = scripts /\ After(i, checkpoint) /\ i <= l
        <3>1. ASSUME i \in rows PROVE ledger[i].scripts = scripts /\ After(i, checkpoint) /\ i <= l
            BY <1>5, <1>7, <2>1, <3>1
        <3>2. ASSUME ledger[i].scripts = scripts, After(i, checkpoint), i <= l PROVE i \in rows
            <4>1. ledger[i].block <= toBlock
                <5>1. ledger[i].block <= ledger[l].block
                    BY <1>1, <2>3, <3>2
                <5> QED BY <1>1, <2>3, <5>1
            <4>2. i \in query
                BY <1>7, <3>2, <4>1
            <4> QED BY <1>1, <1>5, <2>1, <2>3, <3>2, <4>2
        <3> QED BY <3>1, <3>2
    <2>8. \A i \in Utxos : After(i, cp) <=> ~(i <= l)
        BY <1>1, <2>3, <2>5
    <2>9. GetBlockNumber(cp) <= toBlock
        BY <2>3, <2>4
    <2> QED BY <2>4, <2>6, <2>7, <2>8, <2>9 DEF cp
<1>9. CASE ~(rows # {} /\ Cardinality(rows) >= MaxTransfersPerBlock)
    <2>1. cp = AtBlock(toBlock)
        BY <1>9 DEF NewCheckpoint
    <2>2. rows = query
        <3>1. CASE rows = {}
            <4>1. Cardinality(rows) = 0
                BY <3>1, FS_EmptySet
            <4> QED BY <1>5, <4>1
        <3>2. CASE ~(Cardinality(rows) >= MaxTransfersPerBlock)
            BY <1>5, <1>6, <3>2
        <3> QED BY <1>9, <3>1, <3>2
    <2>3. cp \in Checkpoints /\ cp # None /\ GetBlockNumber(cp) = toBlock
        BY <2>1 DEF AtBlock, Checkpoints, None, GetBlockNumber
    <2> HIDE DEF cp, query
    <2>4. \A i \in Utxos : After(i, cp) <=> ~(ledger[i].block <= toBlock)
        BY <1>1, <2>1 DEF AtBlock, After
    <2> QED BY <1>4, <1>7, <2>2, <2>3, <2>4 DEF cp
<1> QED BY <1>8, <1>9

LEMMA InitIInv ==
    ASSUME ~FutureCheckpoints
    PROVE  Init => IInv
<1> SUFFICES ASSUME Init PROVE IInv
    OBVIOUS
<1> USE LedgerAssumption, BridgeAssumption
<1>1. GenesisCheckpoint \in Checkpoints \cup {None}
    BY DEF Checkpoints
<1>2. TypeOK
    BY <1>1 DEF Init, TypeOK
<1>3. CheckpointReferenced
    <2> SUFFICES ASSUME GenesisCheckpoint # None PROVE GetBlockNumber(GenesisCheckpoint) <= FirstMcBlock
        BY DEF Init, CheckpointReferenced
    <2>1. GenesisCheckpoint.at = "utxo"
        OBVIOUS
    <2> QED BY <2>1 DEF Init, GetBlockNumber
<1>4. CheckpointAdvanced /\ HandledExactlyOnce
    BY DEF Init, CheckpointAdvanced, HandledExactlyOnce
<1> QED BY <1>2, <1>3, <1>4 DEF IInv

LEMMA HandledType ==
    ASSUME TypeOK, NEW rows, HandleIncomingTransfers(rows)
    PROVE  handled' \in [Utxos -> Nat]
BY DEF TypeOK, HandleIncomingTransfers

LEMMA ProduceBlockIInv == IInv /\ ProduceBlock => IInv'
<1> SUFFICES ASSUME IInv, ProduceBlock PROVE IInv'
    OBVIOUS
<1> USE LedgerAssumption, BridgeAssumption
<1>1. /\ mcBlock' \in 0..MaxMcBlock /\ mcBlock <= mcBlock' /\ mcBlock \in Nat
      /\ UNCHANGED <<ledger, scripts, configured>> /\ HandleTransfers(mcBlock')
    BY DEF ProduceBlock, IInv, TypeOK
<1>2. TypeOK /\ CheckpointReferenced /\ CheckpointAdvanced /\ HandledExactlyOnce
    BY DEF IInv
<1>3. CASE ~IsConfigured
    <2>1. UNCHANGED <<checkpoint, handled>>
        BY <1>1, <1>3 DEF HandleTransfers
    <2>2. TypeOK'
        BY <1>1, <1>2, <2>1 DEF TypeOK
    <2>3. CheckpointReferenced'
        <3> SUFFICES ASSUME checkpoint # None PROVE GetBlockNumber(checkpoint) <= mcBlock'
            BY <1>1, <2>1 DEF CheckpointReferenced, GetBlockNumber
        <3>1. checkpoint \in Checkpoints
            BY <1>2 DEF TypeOK
        <3>2. GetBlockNumber(checkpoint) \in Nat
            BY <1>2, <3>1, LedgerFacts DEF Checkpoints, GetBlockNumber
        <3> QED BY <1>1, <1>2, <3>2 DEF CheckpointReferenced
    <2>4. CheckpointAdvanced' /\ HandledExactlyOnce'
        BY <1>1, <1>3, <2>1 DEF CheckpointAdvanced, HandledExactlyOnce, IsConfigured
    <2> QED BY <2>2, <2>3, <2>4 DEF IInv
<1>4. CASE IsConfigured
    <2>1. PICK rows \in SUBSET Utxos :
            /\ GetTransfers(rows, mcBlock') /\ HandleIncomingTransfers(rows)
            /\ checkpoint' = NewCheckpoint(rows, MaxTransfersPerBlock, mcBlock')
        BY <1>1, <1>4 DEF HandleTransfers
    <2>2. /\ checkpoint' \in Checkpoints /\ checkpoint' # None
          /\ GetBlockNumber(checkpoint') <= mcBlock'
          /\ \A i \in Utxos : ~After(i, checkpoint) => ~After(i, checkpoint')
          /\ \A i \in Utxos :
               i \in rows <=> /\ ledger[i].scripts = scripts
                              /\ After(i, checkpoint) /\ ~After(i, checkpoint')
        BY <1>1, <1>2, <1>4, <2>1, CheckpointMovesOn
    <2>3. TypeOK'
        BY <1>1, <1>2, <2>1, <2>2, HandledType DEF TypeOK
    <2>4. CheckpointReferenced'
        BY <1>1, <2>2 DEF CheckpointReferenced, GetBlockNumber
    <2>5. HandledExactlyOnce'
        <3> SUFFICES ASSUME NEW i \in Utxos
                     PROVE  handled'[i] - configured.handled[i] =
                              IF /\ ledger[i].scripts = scripts /\ IsTransfer(i)
                                 /\ After(i, configured.checkpoint) /\ ~After(i, checkpoint')
                              THEN 1 ELSE 0
            BY <1>1 DEF HandledExactlyOnce, IsTransfer, TokenAmount, After
        <3>1. handled[i] - configured.handled[i] =
                IF /\ ledger[i].scripts = scripts /\ IsTransfer(i)
                   /\ After(i, configured.checkpoint) /\ ~After(i, checkpoint)
                THEN 1 ELSE 0
            BY <1>2, <1>4 DEF HandledExactlyOnce
        <3>2. handled'[i] = handled[i] + IF i \in rows /\ IsTransfer(i) THEN 1 ELSE 0
            BY <2>1 DEF HandleIncomingTransfers
        <3>3. handled[i] \in Nat /\ configured.handled[i] \in Nat
            BY <1>2 DEF TypeOK
        <3>4. ~After(i, checkpoint) => ~After(i, checkpoint')
            BY <2>2
        <3>5. i \in rows <=> ledger[i].scripts = scripts /\ After(i, checkpoint) /\ ~After(i, checkpoint')
            BY <2>2
        <3>6. ~After(i, configured.checkpoint) => ~After(i, checkpoint)
            BY <1>2, <1>4 DEF CheckpointAdvanced
        <3> QED BY <3>1, <3>2, <3>3, <3>4, <3>5, <3>6
    <2>6. CheckpointAdvanced'
        BY <1>1, <1>2, <1>4, <2>2 DEF CheckpointAdvanced, After
    <2> QED BY <2>3, <2>4, <2>5, <2>6 DEF IInv
<1> QED BY <1>3, <1>4

LEMMA SettingScriptsIInv ==
    ASSUME ~FutureCheckpoints, IInv, ProduceBlockSettingScripts
    PROVE  IInv'
<1> USE LedgerAssumption, BridgeAssumption
<1>1. TypeOK
    BY DEF IInv
<1>2. handled' \in [Utxos -> Nat]
    BY <1>1, HandledType DEF ProduceBlockSettingScripts, TypeOK
<1>3. /\ mcBlock' \in 0..MaxMcBlock /\ scripts' \in Scripts /\ checkpoint' \in Checkpoints
      /\ GetBlockNumber(checkpoint') <= mcBlock' /\ UNCHANGED ledger
      /\ configured' = [checkpoint |-> checkpoint', handled |-> handled',
                        count |-> configured.count + 1]
    BY <1>1 DEF ProduceBlockSettingScripts, TypeOK
<1>4. configured.count + 1 \in Nat
    BY <1>1 DEF TypeOK
<1>5. TypeOK'
    BY <1>1, <1>2, <1>3, <1>4 DEF TypeOK
<1>6. CheckpointReferenced'
    BY <1>3 DEF CheckpointReferenced, GetBlockNumber
<1>7. CheckpointAdvanced'
    BY <1>3 DEF CheckpointAdvanced
<1>8. HandledExactlyOnce'
    <2>1. \A i \in Utxos : handled'[i] - configured'.handled[i] = 0
        BY <1>2, <1>3
    <2> QED BY <1>3, <2>1 DEF HandledExactlyOnce
<1> QED BY <1>5, <1>6, <1>7, <1>8 DEF IInv

LEMMA NextIInv ==
    ASSUME ~FutureCheckpoints, IInv, [Next]_vars
    PROVE  IInv'
<1>1. CASE UNCHANGED vars
    BY <1>1 DEF vars, IInv, TypeOK, CheckpointReferenced, CheckpointAdvanced, HandledExactlyOnce,
                GetBlockNumber, IsConfigured, IsTransfer, TokenAmount, After
<1> QED BY <1>1, ProduceBlockIInv, SettingScriptsIInv DEF Next

-----------------------------------------------------------------------------
(* The inductive invariant holds as long as configured checkpoints are not  *)
(* past the referenced block.                                               *)
THEOREM InvariantHolds ==
    ASSUME ~FutureCheckpoints
    PROVE  Spec => []IInv
<1>1. IInv /\ [Next]_vars => IInv'
    BY NextIInv
<1> QED BY <1>1, InitIInv, PTL DEF Spec

(* The storage of the bridge pallet keeps its type. *)
THEOREM TypeCorrect ==
    ASSUME ~FutureCheckpoints
    PROVE  Spec => []TypeOK
<1>1. IInv => TypeOK
    BY DEF IInv
<1> QED BY <1>1, InvariantHolds, PTL

(* Whatever the limit, the ledger and the referenced blocks: every transfer *)
(* between the configured and the present checkpoint is handled exactly once,*)
(* and no other is.                                                         *)
THEOREM TransfersHandledExactlyOnce ==
    ASSUME ~FutureCheckpoints
    PROVE  Spec => []HandledExactlyOnce
<1>1. IInv => HandledExactlyOnce
    BY DEF IInv
<1> QED BY <1>1, InvariantHolds, PTL

(* Only governance moves the checkpoint back. *)
THEOREM CheckpointAdvances ==
    ASSUME ~FutureCheckpoints
    PROVE  Spec => CheckpointNeverRegresses
<1>1. ASSUME IInv, [Next]_vars, configured' = configured,
             NEW i \in Utxos, IsConfigured, ~After(i, checkpoint)
      PROVE  ~After(i, checkpoint)'
    <2>1. CASE UNCHANGED vars
        BY <1>1, <2>1 DEF vars, After
    <2>2. CASE ProduceBlock
        <3>1. /\ mcBlock' \in 0..MaxMcBlock /\ mcBlock <= mcBlock' /\ UNCHANGED ledger
              /\ TypeOK /\ CheckpointReferenced
            BY <1>1, <2>2, LedgerAssumption DEF ProduceBlock, IInv, TypeOK
        <3>2. PICK rows \in SUBSET Utxos :
                /\ GetTransfers(rows, mcBlock')
                /\ checkpoint' = NewCheckpoint(rows, MaxTransfersPerBlock, mcBlock')
            BY <1>1, <2>2 DEF ProduceBlock, HandleTransfers
        <3>3. ~After(i, checkpoint')
            BY <1>1, <3>1, <3>2, CheckpointMovesOn
        <3> QED BY <3>1, <3>3 DEF After
    <2>3. CASE ProduceBlockSettingScripts
        BY <1>1, <2>3 DEF ProduceBlockSettingScripts, IInv, TypeOK
    <2> QED BY <1>1, <2>1, <2>2, <2>3 DEF Next
<1>2. IInv /\ [Next]_vars =>
        [configured' = configured =>
           \A i \in Utxos : IsConfigured /\ ~After(i, checkpoint) => ~After(i, checkpoint)']_vars
    BY <1>1
<1> QED BY <1>2, InvariantHolds, PTL DEF Spec, CheckpointNeverRegresses
=============================================================================
