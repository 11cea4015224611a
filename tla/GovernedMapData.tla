-------------------------- MODULE GovernedMapData --------------------------
(***************************************************************************)
(* The Governed Map on Cardano and the two queries that observe it: the     *)
(* entries at a block, and the rows of changes in a range of blocks.  An    *)
(* entry is a UTXO at the validator address with the policy's token, whose  *)
(* datum is a key and a value.                                              *)
(***************************************************************************)
EXTENDS Integers

CONSTANTS
    Keys, Values,
    Scripts,       \* MainChainScriptsV1: validator address and asset policy
    Utxos,         \* the entries that are ever created
    NumTxs,        \* transactions, numbered in the order of the chain
    TxBlock,       \* TxBlock[t]: the block of transaction t
    MaxMcBlock,    \* highest Cardano block
    Ledgers        \* possible contents: [Utxos -> Entry]

Txs == 1..NumTxs
Unspent == NumTxs + 1
Absent == "absent"

\* An entry, with the transactions that create and spend it.
Entry == [scripts: Scripts, key: Keys, value: Values, created: Txs, spent: Txs \cup {Unspent}]

\* get_utxos_for_key in the UTXOs that a command finds after transaction seen.
UtxosForKey(l, scr, k, seen) ==
    {i \in Utxos : /\ l[i].scripts = scr /\ l[i].key = k
                   /\ l[i].created <= seen /\ seen < l[i].spent}

\* The ledgers that the offchain commands can make.  A command looks for the key's
\* entries, builds a transaction that spends exactly these and creates at most
\* one, and submits it, with several governance members some time later.  An
\* insert finds none, an update changes the value.  Entries that other commands
\* create in between are neither seen nor spent.
BuiltByCommands(l) ==
    \A t \in Txs :
        LET creates == {i \in Utxos : l[i].created = t}
            spends == {i \in Utxos : l[i].spent = t}
        IN  /\ \A i, j \in creates : i = j
            /\ \A i \in creates \cup spends :
                   \E seen \in 0..t - 1 :
                       spends = UtxosForKey(l, l[i].scripts, l[i].key, seen)
            /\ \A i \in creates :
                   spends # {} => \E j \in spends : l[j].value # l[i].value

ASSUME MapDataAssumption ==
    /\ NumTxs \in Nat /\ MaxMcBlock \in Nat
    /\ TxBlock \in [Txs -> 0..MaxMcBlock]
    /\ \A s, t \in Txs : s <= t => TxBlock[s] <= TxBlock[t]
    /\ Absent \notin Values
    /\ Ledgers \subseteq [Utxos -> Entry]
    /\ \A l \in Ledgers, i \in Utxos : l[i].created < l[i].spent
    /\ \A l \in Ledgers, i, j \in Utxos :  \* one entry of a key in a transaction
           /\ i # j
           /\ l[i].scripts = l[j].scripts /\ l[i].key = l[j].key
           => l[i].created # l[j].created

VARIABLE ledger

\* The block of a transaction; an unspent entry is spent after the last block.
BlockOf(t) == IF t = Unspent THEN MaxMcBlock + 1 ELSE TxBlock[t]

-----------------------------------------------------------------------------
(* The entries at a block: get_datums_at_address_with_token. *)

\* Created up to the block and not consumed up to it.
Datums(scr, k, block) ==
    {i \in Utxos : /\ ledger[i].scripts = scr /\ ledger[i].key = k
                   /\ BlockOf(ledger[i].created) <= block
                   /\ BlockOf(ledger[i].spent) > block}

\* get_mappings_entries: entries are inserted in the order of their creation,
\* so that the latest one of a key stays.
GetStateAtBlock(scr, block) ==
    [k \in Keys |->
        IF Datums(scr, k, block) = {} THEN Absent
        ELSE ledger[CHOOSE i \in Datums(scr, k, block) :
                        \A j \in Datums(scr, k, block) :
                            ledger[j].created <= ledger[i].created].value]

\* A transaction up to the block has spent an entry of the key and left others,
\* which were already there: it was built before they were created.  No entry of
\* the key that is left was created later.
LeftBehind(scr, k, block) ==
    /\ Datums(scr, k, block) # {}
    /\ \E i \in Utxos :
           /\ ledger[i].scripts = scr /\ ledger[i].key = k
           /\ BlockOf(ledger[i].spent) <= block
           /\ \A j \in Datums(scr, k, block) : ledger[j].created < ledger[i].spent

-----------------------------------------------------------------------------
(* The changes in a range of blocks: get_governed_map_changes. *)

\* Mutated form of Rows: creates before spends (action_order the other way).
RowsCreatesFirst(scr, k, since, upTo) ==
    {[at |-> 2 * ledger[i].created, value |-> ledger[i].value] :
        i \in {j \in Utxos : /\ ledger[j].scripts = scr /\ ledger[j].key = k
                             /\ BlockOf(ledger[j].created) \in since + 1..upTo}}
    \cup
    {[at |-> 2 * ledger[i].spent + 1, value |-> Absent] :
        i \in {j \in Utxos : /\ ledger[j].scripts = scr /\ ledger[j].key = k
                             /\ BlockOf(ledger[j].spent) \in since + 1..upTo}}

\* A row for every entry of k that is created after block since up to block
\* upTo, and one for every entry spent there.  ORDER BY block_no, block_index,
\* action_order: the spends of a transaction come before its creates.
Rows(scr, k, since, upTo) ==
    {[at |-> 2 * ledger[i].created + 1, value |-> ledger[i].value] :
        i \in {j \in Utxos : /\ ledger[j].scripts = scr /\ ledger[j].key = k
                             /\ BlockOf(ledger[j].created) \in since + 1..upTo}}
    \cup
    {[at |-> 2 * ledger[i].spent, value |-> Absent] :
        i \in {j \in Utxos : /\ ledger[j].scripts = scr /\ ledger[j].key = k
                             /\ BlockOf(ledger[j].spent) \in since + 1..upTo}}

\* The changes, as new_v1 collects them from the rows: the last row of a key
\* stays, also when it removes an entry that was created after since.
ChangesFromRows(scr, since, upTo) ==
    [k \in {c \in Keys : Rows(scr, c, since, upTo) # {}} |->
        (CHOOSE r \in Rows(scr, k, since, upTo) :
            \A q \in Rows(scr, k, since, upTo) : q.at <= r.at).value]

\* The difference between two states: get_mapping_changes of the source without
\* a cache, and the other branch of new_v1.
Diff(old, new) == [k \in {c \in Keys : old[c] # new[c]} |-> new[k]]

=============================================================================
