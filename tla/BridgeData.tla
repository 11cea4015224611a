----------------------------- MODULE BridgeData -----------------------------
(***************************************************************************)
(* Bridge transfers on Cardano and the queries that observe them: the UTXOs *)
(* at the bridge's address (BridgeUtxo), positions among them              *)
(* (ResolvedBridgeDataCheckpoint), get_bridge_utxos_tx, and what a data     *)
(* source makes of its result.                                             *)
(*                                                                         *)
(* UTXOs are numbered in the order of their ordering_key (block number,     *)
(* transaction index, output index).                                       *)
(***************************************************************************)
EXTENDS Integers, FiniteSets

CONSTANTS
    Scripts,      \* main chain scripts: an address and a token
    Recipients,   \* partner chain accounts
    NumUtxos,     \* bound of the number of UTXOs
    MaxMcBlock,   \* bound of Cardano block numbers
    Ledgers       \* the possible contents of Cardano's ledger

\* Datums that name no recipient.
Reserve == "reserve"
Invalid == "invalid"

Utxos == 1..NumUtxos
UtxoData == [block: 0..MaxMcBlock, scripts: Scripts, tokensOut: Nat, tokensIn: Nat,
             datum: Recipients \cup {Reserve, Invalid}]

ASSUME LedgerAssumption ==
    /\ NumUtxos \in Nat /\ MaxMcBlock \in Nat
    /\ \A l \in Ledgers : /\ l \in [Utxos -> UtxoData]
                          /\ \A i, j \in Utxos : i < j => l[i].block <= l[j].block

\* The stable part of Cardano's ledger, chosen once.
VARIABLE ledger

-----------------------------------------------------------------------------
\* BridgeDataCheckpoint, as resolved by get_block_info_for_utxo.
AtBlock(number) == [at |-> "block", no |-> number]
AtUtxo(i) == [at |-> "utxo", no |-> i]
Checkpoints == [at: {"block"}, no: 0..MaxMcBlock] \cup [at: {"utxo"}, no: Utxos]

GetBlockNumber(cp) == IF cp.at = "block" THEN cp.no ELSE ledger[cp.no].block

\* UTXO i is past the checkpoint.
After(i, cp) == IF cp.at = "block" THEN ledger[i].block > cp.no ELSE i > cp.no

\* get_bridge_utxos_tx, without its limit
GetBridgeUtxosTx(scripts, cp, toBlock) ==
    {i \in Utxos : ledger[i].scripts = scripts /\ After(i, cp) /\ ledger[i].block <= toBlock}

\* The rows that LIMIT max leaves of the ordered rows utxos.
AreFirst(rows, utxos, max) ==
    /\ rows \subseteq utxos
    /\ \A i \in rows, j \in utxos : j < i => j \in rows
    /\ Cardinality(rows) <= max
    /\ Cardinality(rows) < max => rows = utxos

LastOf(rows) == CHOOSE l \in rows : \A i \in rows : i <= l

\* Mutated forms of NewCheckpoint: the limit may have cut the rows, the next UTXO
\* is not yet handled, and the last block has been handled.
NewCheckpointAtBlock(rows, max, toBlock) == AtBlock(toBlock)
NewCheckpointAtNext(rows, max, toBlock) ==
    IF rows # {} /\ Cardinality(rows) >= max THEN AtUtxo(LastOf(rows) + 1) ELSE AtBlock(toBlock)

NewCheckpointBefore(rows, max, toBlock) ==
    IF rows # {} /\ Cardinality(rows) >= max THEN AtUtxo(LastOf(rows)) ELSE AtBlock(toBlock - 1)

\* The new checkpoint: after the last UTXO when the limit was reached.
NewCheckpoint(rows, max, toBlock) ==
    IF rows # {} /\ Cardinality(rows) >= max THEN AtUtxo(LastOf(rows)) ELSE AtBlock(toBlock)

\* utxo_to_transfer: the tokens moved, none when the balance did not grow.
TokenAmount(i) ==
    IF ledger[i].tokensOut > ledger[i].tokensIn THEN ledger[i].tokensOut - ledger[i].tokensIn ELSE 0

IsTransfer(i) == TokenAmount(i) > 0

=============================================================================
