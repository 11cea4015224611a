----------------------------- MODULE GovernedMap -----------------------------
(***************************************************************************)
(* The Governed Map: every block observes the map on Cardano at the block   *)
(* that it references (GovernedMapInherentDataProvider) and registers the   *)
(* changes since its parent (pallet-governed-map).  Governance may point    *)
(* the pallet to another map.  One step is one block, with one call of      *)
(* register_changes at most, so LastUpdateBlock always allows it.           *)
(***************************************************************************)
EXTENDS GovernedMapData, FiniteSets

CONSTANTS
    DataSources,     \* the data sources that the nodes may use: "cached", "uncached"
    MaxChanges,
    LongKeys, LongValues,  \* those that exceed MaxKeyLength and MaxValueLength
    GenesisScripts   \* the genesis configuration, or NoScripts

NoScripts == "none"

ASSUME MapAssumption ==
    /\ DataSources \subseteq {"cached", "uncached"}
    /\ MaxChanges \in Nat
    /\ NoScripts \notin Scripts
    /\ GenesisScripts \in Scripts \cup {NoScripts}

VARIABLES
    source,        \* the data source of the nodes
    mcBlock,       \* the Cardano block that the last block references
    scripts,       \* MainChainScripts
    initialized,   \* Initialized
    mapping        \* Mapping, Absent where it has no key

vars == <<ledger, source, mcBlock, scripts, initialized, mapping>>

-----------------------------------------------------------------------------
\* get_mapping_changes since the block that the parent references: the data
\* source with a cache reads rows, the other one compares two states.
MappingChanges(upTo) ==
    IF source = "cached" THEN ChangesFromRows(scripts, mcBlock, upTo)
    ELSE Diff(GetStateAtBlock(scripts, mcBlock), GetStateAtBlock(scripts, upTo))

\* new_v1: the inherent data of a block that references upTo, on the parent state.
InherentData(upTo) ==
    IF initialized THEN MappingChanges(upTo)
    ELSE Diff(mapping, GetStateAtBlock(scripts, upTo))

\* Mutated form of InherentCreated: also while the scripts are not set.
InherentCreatedWithoutScripts(changes) == ~(DOMAIN changes = {} /\ initialized)

\* create_inherent: none while the scripts are not set, and none without changes
\* unless they are the first since the scripts were set.
InherentCreated(changes) == scripts # NoScripts /\ ~(DOMAIN changes = {} /\ initialized)

\* create_inherent panics with TooManyChanges, KeyExceedsBounds (also for a key
\* that is removed) or ValueExceedsBounds otherwise: no such block.
Fits(changes) ==
    InherentCreated(changes) =>
        /\ Cardinality(DOMAIN changes) <= MaxChanges
        /\ \A k \in DOMAIN changes : k \notin LongKeys /\ changes[k] \notin LongValues

\* Mapping after the inherent: register_changes
RegisterChanges(changes) ==
    IF InherentCreated(changes)
    THEN [k \in Keys |-> IF k \in DOMAIN changes THEN changes[k] ELSE mapping[k]]
    ELSE mapping

\* A block; references never go back (McReference).
ProduceBlock ==
    /\ mcBlock' \in mcBlock..MaxMcBlock
    /\ LET changes == InherentData(mcBlock')
       IN  /\ Fits(changes)
           /\ mapping' = RegisterChanges(changes)
           /\ initialized' = (initialized \/ InherentCreated(changes))
    /\ UNCHANGED <<ledger, source, scripts>>

\* Mutated form of ProduceBlockSettingScripts: the old map is dropped at once.
ProduceBlockSettingScriptsClearing ==
    /\ mcBlock' \in mcBlock..MaxMcBlock
    /\ Fits(InherentData(mcBlock'))
    /\ mapping' = [k \in Keys |-> Absent]
    /\ scripts' \in Scripts
    /\ initialized' = FALSE
    /\ UNCHANGED <<ledger, source>>

\* A block with set_main_chain_scripts, which runs after the inherent.
ProduceBlockSettingScripts ==
    /\ mcBlock' \in mcBlock..MaxMcBlock
    /\ Fits(InherentData(mcBlock'))
    /\ mapping' = RegisterChanges(InherentData(mcBlock'))
    /\ scripts' \in Scripts
    /\ initialized' = FALSE
    /\ UNCHANGED <<ledger, source>>

Init ==
    /\ ledger \in Ledgers
    /\ source \in DataSources
    /\ mcBlock = 0
    /\ scripts = GenesisScripts
    /\ initialized = FALSE
    /\ mapping = [k \in Keys |-> Absent]

Next == ProduceBlock \/ ProduceBlockSettingScripts

Spec == Init /\ [][Next]_vars

-----------------------------------------------------------------------------
(* Properties. *)

\* Every storage item of the pallet has its type, and Initialized is set only
\* with MainChainScripts (register_changes).
TypeOK ==
    /\ ledger \in [Utxos -> Entry]
    /\ source \in DataSources
    /\ mcBlock \in 0..MaxMcBlock
    /\ scripts \in Scripts \cup {NoScripts}
    /\ initialized \in BOOLEAN
    /\ initialized => scripts # NoScripts
    /\ mapping \in [Keys -> Values \cup {Absent}]

\* Mapping "stores the latest state of the Governed Map that was observed on
\* Cardano" (the doc of Mapping): registering only changes loses and invents
\* nothing, however many Cardano blocks a block skips.
MappingMatchesCardano ==
    initialized => mapping = GetStateAtBlock(scripts, mcBlock)

\* m is the map at the block, but for keys that it lost: with the data source that
\* reads rows, the removal of one entry of a key hides the entry left behind.
MatchesUpToLeftBehind(m, scr, block) ==
    \A k \in Keys :
        \/ m[k] = GetStateAtBlock(scr, block)[k]
        \/ source = "cached" /\ m[k] = Absent /\ LeftBehind(scr, k, block)

\* What remains true of the doc of Mapping for every history of entries: the
\* data source that compares states keeps Mapping equal to the map, and the one
\* that reads rows never shows a value that the map does not have.  It can only
\* lack keys of which an entry was left behind, until the key gets a new one.
OnlyLeftBehindLost ==
    initialized => MatchesUpToLeftBehind(mapping, scripts, mcBlock)

\* Every block brings Mapping to the state of the map that the scripts of its
\* parent point to: the block after set_main_chain_scripts replaces the entries
\* of the old map and finds entries left behind, the others may not see these.
CongruentOnNextBlock ==
    [][scripts # NoScripts =>
        /\ MatchesUpToLeftBehind(mapping', scripts, mcBlock')
        /\ ~initialized => mapping' = GetStateAtBlock(scripts, mcBlock')]_vars

\* The doc of MaxChanges: "Setting this to a value higher than the total number
\* of parameters in the Governed Map guarantees that" all changes are
\* registered in one block.
MaxChangesSuffice ==
    (\A scr \in Scripts, b \in 0..MaxMcBlock :
        Cardinality({k \in Keys : GetStateAtBlock(scr, b)[k] # Absent}) < MaxChanges)
    => \A b \in mcBlock..MaxMcBlock : scripts # NoScripts =>
           Cardinality(DOMAIN InherentData(b)) <= MaxChanges

=============================================================================
