------------------------ MODULE BlockParticipation ------------------------
(***************************************************************************)
(* The block production log and the block participation feature that       *)
(* consumes it, on a chain with committee rotation: pallets                 *)
(* block-production-log and block-participation, their inherent data        *)
(* providers, and the demo runtime's release schedule and data handler.     *)
(*                                                                          *)
(* One step is one block of CommitteeRotation, with the inherents of these  *)
(* pallets and the log's on_finalize.  The features may be in the chain     *)
(* from genesis or be added by a runtime upgrade.                           *)
(***************************************************************************)
EXTENDS CommitteeRotation, FiniteSets

CONSTANTS
    GenesisInstalled,   \* the values `installed` may have at genesis
    GenesisPeriod,      \* participation_data_release_period of the chain specification
    Periods,            \* the release periods that governance may set
    Spos,               \* the committee members that are Cardano stake pools
    Delegations(_)      \* main chain epoch -> pools with a stake distribution

ASSUME ParticipationAssumption ==
    /\ GenesisInstalled \subseteq BOOLEAN
    /\ GenesisPeriod \in Nat /\ Periods \subseteq Nat
    /\ Spos \subseteq Validators
    /\ \A e \in 0..MaxEpoch : Delegations(e) \subseteq Spos

VARIABLES
    blockNumber,    \* frame_system BlockNumber
    installed,      \* the runtime has the two pallets and their APIs
    log,            \* Log
    latestBlock,    \* LatestBlock, -1 when it is not set
    processedUpTo,  \* ProcessedUpToSlot
    period,         \* ParticipationDataReleasePeriod
    latestData,     \* LatestParticipationData of the demo's handler
    released,       \* history: the log entries released so far
    produced        \* history: the blocks made since the log has an entry

logVars == <<blockNumber, installed, log, latestBlock, processedUpTo, period, latestData>>
allVars == <<vars, logVars, released, produced>>

Entries == [slot: Nat, producer: Validators]
NoData == [upToSlot |-> 0, counts |-> {}]

-----------------------------------------------------------------------------
(* The production log. *)

\* Aura's author of slot s on the parent state (external).
AuraAuthor(s) == auraAuthorities[(s % Len(auraAuthorities)) + 1]

\* Mutated form of GetAuthor: the seat instead of its holder.
GetAuthorSeat(s) == s % Len(currentCommittee.committee)

\* get_current_authority_round_robin, which get_author calls on the parent state.
GetAuthor(s) ==
    LET committee == currentCommittee.committee
    IN  committee[(s % Len(committee)) + 1]

\* BlockAuthorInherentProvider gives an author, so create_inherent an `append`.
AppendCreated == installed /\ currentCommittee.committee # <<>>

\* is_inherent_required of the log
AppendRequired == AppendCreated \/ latestBlock # -1

\* The dispatch of `append` succeeds in the next block.
AppendSucceeds == latestBlock = -1 \/ latestBlock < blockNumber + 1

\* The number of entries up to a slot, the prefix that peek_prefix returns and
\* drop_prefix removes.
PrefixLength(upTo) == Cardinality({i \in DOMAIN log : \A j \in 1..i : log[j].slot <= upTo})

PeekPrefix(upTo) == SubSeq(log, 1, PrefixLength(upTo))

DropPrefix(upTo) == SubSeq(log, PrefixLength(upTo) + 1, Len(log))

-----------------------------------------------------------------------------
(* Releasing participation data. *)

\* Mutated form of ShouldReleaseData: releases in every slot, up to the last
\* multiple of the period.
ShouldReleaseDataOften(s) ==
    [release |-> period # 0, upTo |-> IF period = 0 THEN 0 ELSE (s \div period) * period]

\* should_release_participation_data: in every slot that is a multiple of the
\* period (is_multiple_of(0) holds for 0 alone).
ShouldReleaseData(s) ==
    [release |-> IF period = 0 THEN s = 0 ELSE s % period = 0, upTo |-> s]

\* data_mc_epoch_for_slot
DataMcEpochForSlot(s) == DataEpoch(s \div SlotsPerMcEpoch)

\* Mutated form of CountBlocks: one epoch for all the entries.
CountBlocksOneEpoch(entries) ==
    LET keyOf(i) == [epoch |-> DataMcEpochForSlot(entries[1].slot), producer |-> entries[i].producer]
    IN  {[key |-> k, count |-> Cardinality({i \in DOMAIN entries : keyOf(i) = k})] :
            k \in {keyOf(i) : i \in DOMAIN entries}}

\* count_blocks_by_epoch_and_producer, and the producers' breakdowns.
CountBlocks(entries) ==
    LET keyOf(i) == [epoch |-> DataMcEpochForSlot(entries[i].slot), producer |-> entries[i].producer]
    IN  {[key |-> k, count |-> Cardinality({i \in DOMAIN entries : keyOf(i) = k})] :
            k \in {keyOf(i) : i \in DOMAIN entries}}

\* production_breakdown_for fails with DataMissing, or data_mc_epoch_for_slot
\* with McEpochBelowOffset.
DataMissing(entries) ==
    \E i \in DOMAIN entries :
        LET epoch == DataMcEpochForSlot(entries[i].slot)
        IN  \/ epoch < 0
            \/ entries[i].producer \in Spos /\ entries[i].producer \notin Delegations(epoch)

\* The provider is active in the block made in slot s.
Releases(s) == installed /\ ShouldReleaseData(s).release

\* The dispatch of note_processing succeeds.
NoteProcessingSucceeds(s) == ShouldReleaseData(s).upTo > processedUpTo

-----------------------------------------------------------------------------
(* Blocks. *)

\* Mutated form of RecordBlock: the entry is appended by `append` itself, before
\* note_processing runs.
RecordBlockAtOnce(s) ==
    LET upTo == ShouldReleaseData(s).upTo
        entries == IF Releases(s) THEN PeekPrefix(upTo) ELSE <<>>
        entry == [slot |-> s, producer |-> GetAuthor(s)]
    IN  /\ AppendRequired => AppendCreated /\ AppendSucceeds
        /\ Releases(s) => ~DataMissing(entries) /\ NoteProcessingSucceeds(s)
        /\ blockNumber' = blockNumber + 1
        /\ log' = IF Releases(s) THEN <<>> ELSE IF AppendCreated THEN Append(log, entry) ELSE log
        /\ latestBlock' = IF AppendCreated THEN blockNumber + 1 ELSE latestBlock
        /\ processedUpTo' = IF Releases(s) THEN upTo ELSE processedUpTo
        /\ latestData' = IF Releases(s) THEN [upToSlot |-> upTo, counts |-> CountBlocks(entries)]
                         ELSE latestData
        /\ released' = released \o entries
        /\ produced' = IF latestBlock' = -1 THEN produced
                       ELSE Append(produced, [slot |-> s, producer |-> AuraAuthor(s)])

\* The inherents append, note_processing and handle_participation_data of the
\* block made in slot s, with data computed on the parent state, and then
\* on_finalize, which appends the block's own entry.
RecordBlock(s) ==
    LET upTo == ShouldReleaseData(s).upTo
        entries == IF Releases(s) THEN PeekPrefix(upTo) ELSE <<>>
        kept == IF Releases(s) THEN DropPrefix(upTo) ELSE log
        entry == [slot |-> s, producer |-> GetAuthor(s)]
    IN  /\ AppendRequired => AppendCreated /\ AppendSucceeds
        /\ Releases(s) => ~DataMissing(entries) /\ NoteProcessingSucceeds(s)
        /\ blockNumber' = blockNumber + 1
        /\ log' = IF AppendCreated THEN Append(kept, entry) ELSE kept
        /\ latestBlock' = IF AppendCreated THEN blockNumber + 1 ELSE latestBlock
        /\ processedUpTo' = IF Releases(s) THEN upTo ELSE processedUpTo
        /\ latestData' = IF Releases(s) THEN [upToSlot |-> upTo, counts |-> CountBlocks(entries)]
                         ELSE latestData
        /\ released' = released \o entries
        /\ produced' = IF latestBlock' = -1 THEN produced
                       ELSE Append(produced, [slot |-> s, producer |-> AuraAuthor(s)])

\* A block without transactions for these pallets.
MakeBlock(s, lag) ==
    /\ ProduceBlock(s, lag)
    /\ RecordBlock(s)
    /\ UNCHANGED <<period, installed>>

\* A block with the governance transaction set_main_chain_scripts.
MakeBlockSettingScripts(s, lag, newScripts) ==
    /\ ProduceBlockSettingScripts(s, lag, newScripts)
    /\ RecordBlock(s)
    /\ UNCHANGED <<period, installed>>

\* A block with the root call set_block_participation_data_release_period.
MakeBlockSettingPeriod(s, lag, newPeriod) ==
    /\ installed
    /\ ProduceBlock(s, lag)
    /\ RecordBlock(s)
    /\ period' = newPeriod
    /\ UNCHANGED installed

\* A block whose runtime upgrade adds the pallets, from the next block on.
MakeBlockUpgrading(s, lag) ==
    /\ ~installed
    /\ ProduceBlock(s, lag)
    /\ RecordBlock(s)
    /\ installed' = TRUE
    /\ UNCHANGED period

ParticipationInit ==
    /\ Init
    /\ blockNumber = 0
    /\ installed \in GenesisInstalled
    /\ log = <<>>
    /\ latestBlock = -1
    /\ processedUpTo = 0
    /\ period = GenesisPeriod
    /\ latestData = NoData
    /\ released = <<>>
    /\ produced = <<>>

\* The blocks that can be made in slot s.
BlockInSlot(s) ==
    \E lag \in MinLag..MaxLag :
        \/ MakeBlock(s, lag)
        \/ \E newScripts \in Scripts : MakeBlockSettingScripts(s, lag, newScripts)
        \/ \E newPeriod \in Periods : MakeBlockSettingPeriod(s, lag, newPeriod)
        \/ MakeBlockUpgrading(s, lag)

ParticipationNext == \E s \in FirstSlot..MaxSlot : BlockInSlot(s)

ParticipationSpec == ParticipationInit /\ [][ParticipationNext]_allVars

-----------------------------------------------------------------------------
(* Properties. *)

\* Every storage item holds a value of its type.
ParticipationTypeOK ==
    /\ blockNumber \in Nat
    /\ installed \in BOOLEAN
    /\ log \in Seq(Entries)
    /\ latestBlock \in Nat \cup {-1}
    /\ processedUpTo \in Nat
    /\ period \in Nat
    /\ latestData.upToSlot \in Nat
    /\ released \in Seq(Entries)
    /\ produced \in Seq(Entries)

\* The doc of the log: "It is critically important to drop exactly the prefix
\* processed to avoid either skipping or double-counting some blocks."  Every
\* block made since the log's first entry has been released exactly once, or is
\* still in the log, in order and under the author that Aura elected, whatever committees
\* rotated meanwhile and however the release period was changed.
BlocksReleasedExactlyOnce == released \o log = produced

\* The inherents of an honest author never void a block: where `append` is
\* required it is created, and `append` and note_processing succeed, in whatever
\* slot the next block is made, while the committee has members.  (An empty one has
\* no author to append, but Aura still elects one, and a log in use requires it.)
HonestInherentsSucceed ==
    currentCommittee.committee # <<>> => \A s \in FutureSlots :
        /\ AppendRequired => AppendCreated /\ AppendSucceeds
        /\ Releases(s) => NoteProcessingSucceeds(s)

\* The data of a release counts, for each author and main chain epoch, the blocks
\* made from the slot of the release before it up to its own slot, which is
\* excluded: a block is never in the data that it releases itself.
DataCountsWindow ==
    [][processedUpTo' # processedUpTo =>
        \A v \in Validators, e \in 0..MaxEpoch :
            LET blocks == {i \in DOMAIN produced : /\ produced[i].producer = v
                                                   /\ produced[i].slot \in processedUpTo..processedUpTo' - 1
                                                   /\ DataMcEpochForSlot(produced[i].slot) = e}
            IN  {r.count : r \in {r \in latestData'.counts : r.key = [epoch |-> e, producer |-> v]}}
                = IF blocks = {} THEN {} ELSE {Cardinality(blocks)}]_allVars

\* The doc of DataMissing: "Cardano stake delegation is missing for the epoch from
\* which a block producer was selected.  This error should never occur in normal
\* operation of a node".
DataNeverMissing == ~DataMissing(log)

=============================================================================
