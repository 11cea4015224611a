---------------------- MODULE BlockParticipationProofs ----------------------
(***************************************************************************)
(* Proofs about BlockParticipation for every committee selection, every     *)
(* release period and every pattern of skipped slots.                       *)
(***************************************************************************)
EXTENDS BlockParticipation, CommitteeRotationProofs, SequenceTheorems, FiniteSetTheorems

\* Every block is released once: inductive with the invariant of committee
\* rotation, which makes the logged author the one that Aura elects.  A release
\* succeeds because the slot processed last has passed.
ParticipationInv ==
    /\ IInv
    /\ ParticipationTypeOK
    /\ BlocksReleasedExactlyOnce
    /\ processedUpTo <= currentSlot
    /\ latestBlock <= blockNumber
    /\ latestBlock # -1 => installed

-----------------------------------------------------------------------------
(* A prefix of the log and what is left of it. *)

LEMMA PrefixType ==
    ASSUME log \in Seq(Entries), NEW upTo
    PROVE  PrefixLength(upTo) \in 0..Len(log)
<1> DEFINE S == {i \in DOMAIN log : \A j \in 1..i : log[j].slot <= upTo}
<1>1. Len(log) \in Nat /\ DOMAIN log = 1..Len(log)
    BY LenProperties
<1>2. IsFiniteSet(1..Len(log)) /\ Cardinality(1..Len(log)) = Len(log)
    BY <1>1, FS_Interval, SMTT(30)
<1>3. S \subseteq 1..Len(log)
    BY <1>1
<1> HIDE DEF S
<1>4. Cardinality(S) <= Len(log) /\ IsFiniteSet(S)
    BY <1>2, <1>3, FS_Subset
<1>5. Cardinality(S) \in Nat
    BY <1>4, FS_CardinalityType
<1> QED BY <1>1, <1>4, <1>5 DEF PrefixLength, S

(* peek_prefix and drop_prefix split the log in two. *)
LEMMA PrefixSplitsLog ==
    ASSUME log \in Seq(Entries), NEW upTo
    PROVE  /\ PeekPrefix(upTo) \in Seq(Entries)
           /\ DropPrefix(upTo) \in Seq(Entries)
           /\ PeekPrefix(upTo) \o DropPrefix(upTo) = log
<1> DEFINE n == PrefixLength(upTo)
<1>1. Len(log) \in Nat /\ \A i \in 1..Len(log) : log[i] \in Entries
    BY LenProperties, ElementOfSeq
<1>2. n \in 0..Len(log)
    BY PrefixType
<1> HIDE DEF n
<1>3. SubSeq(log, 1, n) \in Seq(Entries)
    BY <1>1, <1>2, SubSeqProperties
<1>4. SubSeq(log, n + 1, Len(log)) \in Seq(Entries)
    BY <1>1, <1>2, SubSeqProperties
<1>5. SubSeq(log, 1, n) \o SubSeq(log, n + 1, Len(log)) = SubSeq(log, 1, Len(log))
    <2>1. 1 \in 1..Len(log) + 1 /\ n \in 1 - 1..Len(log) /\ Len(log) \in n..Len(log)
        BY <1>1, <1>2
    <2> QED BY <2>1, ConcatAdjacentSubSeq, Zenon
<1>6. SubSeq(log, 1, Len(log)) = log
    BY SubSeqFull
<1> QED BY <1>3, <1>4, <1>5, <1>6 DEF PeekPrefix, DropPrefix, n

\* Entries that move from the log to the released ones stay in order.
StayInOrder(before, moved, left, e) ==
    /\ (before \o moved) \o left = before \o (moved \o left)
    /\ (before \o moved) \o Append(left, e) = Append(before \o (moved \o left), e)

(* The order is also kept when the block's own entry follows. *)
LEMMA MoveEntries ==
    ASSUME NEW S, NEW before \in Seq(S), NEW moved \in Seq(S), NEW left \in Seq(S), NEW e \in S
    PROVE  StayInOrder(before, moved, left, e)
<1>1. (before \o moved) \o left = before \o (moved \o left)
    BY ConcatAssociative, SMTT(30)
<1>2. <<e>> \in Seq(S)
    OBVIOUS
<1>3. (before \o moved) \in Seq(S) /\ (moved \o left) \in Seq(S)
    BY ConcatProperties
<1>4. before \o (moved \o left) \in Seq(S)
    BY <1>3, ConcatProperties
<1>5. (before \o moved) \o (left \o <<e>>) = ((before \o moved) \o left) \o <<e>>
    BY <1>2, <1>3, ConcatAssociative, SMTT(30)
<1>6. Append(left, e) = left \o <<e>>
    BY AppendIsConcat
<1>7. Append(before \o (moved \o left), e) = (before \o (moved \o left)) \o <<e>>
    BY <1>4, AppendIsConcat
<1> QED BY <1>1, <1>5, <1>6, <1>7 DEF StayInOrder

\* The same when the block has no entry of its own.
NothingAdded(before, moved, left) == (before \o moved) \o left = before \o (moved \o left)

(* Moving a prefix of the log to the released entries keeps their order. *)
LEMMA MoveAlone ==
    ASSUME NEW S, NEW before \in Seq(S), NEW moved \in Seq(S), NEW left \in Seq(S)
    PROVE  NothingAdded(before, moved, left)
BY ConcatAssociative, SMTT(30) DEF NothingAdded

(* What a block releases and keeps. *)
LEMMA ReleaseSplitsLog ==
    ASSUME log \in Seq(Entries), NEW s
    PROVE  LET upTo == ShouldReleaseData(s).upTo
               entries == IF Releases(s) THEN PeekPrefix(upTo) ELSE <<>>
               kept == IF Releases(s) THEN DropPrefix(upTo) ELSE log
           IN  /\ entries \in Seq(Entries) /\ kept \in Seq(Entries)
               /\ entries \o kept = log
<1>1. CASE Releases(s)
    BY <1>1, PrefixSplitsLog
<1>2. CASE ~Releases(s)
    <2>1. <<>> \in Seq(Entries) /\ <<>> \o log = log
        BY EmptySeq, ConcatEmptySeq
    <2> QED BY <1>2, <2>1
<1> QED BY <1>1, <1>2

(* The author in the log is the author of the block. *)
LEMMA AuthorIsAuras ==
    ASSUME IInv, currentCommittee.committee # <<>>, NEW s \in Nat
    PROVE  GetAuthor(s) = AuraAuthor(s) /\ AuraAuthor(s) \in Validators
<1>1. auraAuthorities = currentCommittee.committee /\ auraAuthorities \in Seq(Validators)
    BY DEF IInv, SessionServesCommittee, TypeOK, Committees
<1>2. Len(auraAuthorities) \in Nat \ {0}
    BY <1>1, EmptySeq, LenProperties
<1>3. (s % Len(auraAuthorities)) + 1 \in 1..Len(auraAuthorities)
    BY <1>2
<1>4. AuraAuthor(s) \in Validators
    BY <1>1, <1>3, ElementOfSeq DEF AuraAuthor
<1> QED BY <1>1, <1>4 DEF GetAuthor, AuraAuthor

-----------------------------------------------------------------------------
LEMMA ParticipationInitInv == ParticipationInit => ParticipationInv
<1> SUFFICES ASSUME ParticipationInit PROVE ParticipationInv
    OBVIOUS
<1>1. IInv
    BY InitIInv DEF ParticipationInit
<1>2. <<>> \in Seq(Entries) /\ <<>> \o <<>> = <<>>
    BY EmptySeq, ConcatEmptySeq
<1>3. ParticipationTypeOK
    BY <1>2, ParticipationAssumption DEF ParticipationInit, ParticipationTypeOK, NoData
<1>4. currentSlot = 0
    BY DEF ParticipationInit, Init
<1> QED BY <1>1, <1>2, <1>3, <1>4 DEF ParticipationInit, ParticipationInv, BlocksReleasedExactlyOnce

(* The step that any block takes. *)
LEMMA BlockKeepsInv ==
    ASSUME ParticipationInv, IInv', NEW s \in Nat, NEW lag, ExecuteBlock(s, lag), RecordBlock(s),
           period' \in Nat, installed' \in BOOLEAN, installed => installed'
    PROVE  ParticipationInv'
<1> DEFINE upTo == ShouldReleaseData(s).upTo
           entries == IF Releases(s) THEN PeekPrefix(upTo) ELSE <<>>
           kept == IF Releases(s) THEN DropPrefix(upTo) ELSE log
           entry == [slot |-> s, producer |-> GetAuthor(s)]
<1>1. /\ log \in Seq(Entries) /\ released \in Seq(Entries) /\ produced \in Seq(Entries)
      /\ released \o log = produced
      /\ blockNumber \in Nat /\ latestBlock \in Nat \cup {-1} /\ processedUpTo \in Nat
      /\ installed \in BOOLEAN /\ latestData.upToSlot \in Nat
      /\ latestBlock <= blockNumber /\ (latestBlock # -1 => installed)
    BY DEF ParticipationInv, ParticipationTypeOK, BlocksReleasedExactlyOnce
<1>2. currentSlot' = s /\ s > currentSlot
    BY DEF ExecuteBlock
<1>3. currentSlot \in Nat /\ processedUpTo <= currentSlot
    BY DEF ParticipationInv, IInv, TypeOK
<1>4. AppendCreated => entry \in Entries /\ entry = [slot |-> s, producer |-> AuraAuthor(s)]
    BY AuthorIsAuras DEF ParticipationInv, AppendCreated, Entries
<1>5. /\ AppendCreated => installed
      /\ ~AppendCreated => latestBlock = -1
    BY DEF RecordBlock, AppendRequired, AppendCreated
<1>6. entries \in Seq(Entries) /\ kept \in Seq(Entries) /\ entries \o kept = log
    BY <1>1, ReleaseSplitsLog
<1>7. upTo = s
    BY DEF ShouldReleaseData
<1>8. /\ blockNumber' = blockNumber + 1
      /\ log' = IF AppendCreated THEN Append(kept, entry) ELSE kept
      /\ latestBlock' = IF AppendCreated THEN blockNumber + 1 ELSE latestBlock
      /\ processedUpTo' = IF Releases(s) THEN s ELSE processedUpTo
      /\ released' = released \o entries
      /\ produced' = IF latestBlock' = -1 THEN produced
                     ELSE Append(produced, [slot |-> s, producer |-> AuraAuthor(s)])
    BY <1>7 DEF RecordBlock
<1>9. produced' = IF AppendCreated THEN Append(produced, entry) ELSE produced
    BY <1>1, <1>4, <1>5, <1>8
<1>10. latestData'.upToSlot \in Nat
    BY <1>1, <1>7 DEF RecordBlock
<1> HIDE DEF upTo, entries, kept, entry
<1>11. released' \in Seq(Entries)
    BY <1>1, <1>6, <1>8, ConcatProperties
<1>12. log' \in Seq(Entries)
    BY <1>4, <1>6, <1>8, AppendProperties
<1>13. produced' \in Seq(Entries)
    BY <1>1, <1>4, <1>9, AppendProperties
<1>14. ParticipationTypeOK'
    BY <1>1, <1>2, <1>8, <1>10, <1>11, <1>12, <1>13 DEF ParticipationTypeOK
<1>15. BlocksReleasedExactlyOnce'
    <2>1. released \o log = produced /\ entries \o kept = log
        BY <1>1, <1>6
    <2>2. CASE AppendCreated
        <3>1. StayInOrder(released, entries, kept, entry)
            BY <1>1, <1>4, <1>6, <2>2, MoveEntries
        <3>2. (released \o entries) \o Append(kept, entry) = Append(produced, entry)
            BY <2>1, <3>1, Zenon DEF StayInOrder
        <3> QED BY <1>8, <1>9, <2>2, <3>2 DEF BlocksReleasedExactlyOnce
    <2>3. CASE ~AppendCreated
        <3>1. NothingAdded(released, entries, kept)
            BY <1>1, <1>6, MoveAlone
        <3>2. (released \o entries) \o kept = produced
            BY <2>1, <3>1, Zenon DEF NothingAdded
        <3> QED BY <1>8, <1>9, <2>3, <3>2 DEF BlocksReleasedExactlyOnce
    <2> QED BY <2>2, <2>3
<1>16. /\ processedUpTo' <= currentSlot' /\ latestBlock' <= blockNumber'
       /\ latestBlock' # -1 => installed'
    BY <1>1, <1>2, <1>3, <1>5, <1>8
<1> QED BY <1>14, <1>15, <1>16 DEF ParticipationInv

(* Every step preserves the invariant. *)
LEMMA ParticipationNextInv ==
    ParticipationInv /\ [ParticipationNext]_allVars => ParticipationInv'
<1> SUFFICES ASSUME ParticipationInv, [ParticipationNext]_allVars PROVE ParticipationInv'
    OBVIOUS
<1>1. [Next]_vars
    BY DEF ParticipationNext, BlockInSlot, allVars, Next, MakeBlock, MakeBlockSettingScripts,
           MakeBlockSettingPeriod, MakeBlockUpgrading
<1>2. IInv'
    BY <1>1, NextIInv DEF ParticipationInv
<1>3. CASE UNCHANGED allVars
    <2>1. UNCHANGED <<currentSlot, logVars, released, produced>>
        BY <1>3 DEF allVars, vars, chainVars
    <2> QED BY <1>2, <2>1 DEF ParticipationInv, ParticipationTypeOK, BlocksReleasedExactlyOnce, logVars
<1>4. CASE ParticipationNext
    <2>1. PICK s \in FirstSlot..MaxSlot, lag \in MinLag..MaxLag :
            \/ MakeBlock(s, lag)
            \/ \E newScripts \in Scripts : MakeBlockSettingScripts(s, lag, newScripts)
            \/ \E newPeriod \in Periods : MakeBlockSettingPeriod(s, lag, newPeriod)
            \/ MakeBlockUpgrading(s, lag)
        BY <1>4 DEF ParticipationNext, BlockInSlot
    <2>2. s \in Nat
        BY SlotAssumption
    <2>3. ExecuteBlock(s, lag) /\ RecordBlock(s)
        BY <2>1 DEF MakeBlock, MakeBlockSettingScripts, MakeBlockSettingPeriod,
                    MakeBlockUpgrading, ProduceBlock, ProduceBlockSettingScripts
    <2>4. period \in Nat /\ installed \in BOOLEAN
        BY DEF ParticipationInv, ParticipationTypeOK
    <2>5. period' \in Nat
        BY <2>1, <2>4, ParticipationAssumption
        DEF MakeBlock, MakeBlockSettingScripts, MakeBlockSettingPeriod, MakeBlockUpgrading
    <2>6. installed' \in BOOLEAN /\ (installed => installed')
        BY <2>1, <2>4 DEF MakeBlock, MakeBlockSettingScripts, MakeBlockSettingPeriod, MakeBlockUpgrading
    <2> QED BY <1>2, <2>2, <2>3, <2>5, <2>6, BlockKeepsInv
<1> QED BY <1>3, <1>4

(* The inductive invariant holds in every state of the chain. *)
THEOREM ParticipationInvariantHolds == ParticipationSpec => []ParticipationInv
BY ParticipationInitInv, ParticipationNextInv, PTL DEF ParticipationSpec

(* Every storage item always has a value of its type. *)
THEOREM ParticipationTypeCorrect == ParticipationSpec => []ParticipationTypeOK
<1>1. ParticipationInv => ParticipationTypeOK
    BY DEF ParticipationInv
<1> QED BY <1>1, ParticipationInvariantHolds, PTL

(* For every selection of committees, every change of the release period and   *)
(* every pattern of slots without a block, each block is in the released data  *)
(* exactly once or still in the log, under the author that Aura elected.       *)
THEOREM BlocksAlwaysReleasedExactlyOnce == ParticipationSpec => []BlocksReleasedExactlyOnce
<1>1. ParticipationInv => BlocksReleasedExactlyOnce
    BY DEF ParticipationInv
<1> QED BY <1>1, ParticipationInvariantHolds, PTL

(* The mandatory inherents of these pallets never void an honest block. *)
THEOREM HonestInherentsAlwaysSucceed == ParticipationSpec => []HonestInherentsSucceed
<1>1. ParticipationInv => HonestInherentsSucceed
    <2> SUFFICES ASSUME ParticipationInv, currentCommittee.committee # <<>>, NEW s \in FutureSlots
                 PROVE  /\ AppendRequired => AppendCreated /\ AppendSucceeds
                        /\ Releases(s) => NoteProcessingSucceeds(s)
        BY DEF HonestInherentsSucceed
    <2>1. s \in Nat /\ s > currentSlot
        BY SlotAssumption DEF FutureSlots
    <2>3. /\ blockNumber \in Nat /\ latestBlock \in Nat \cup {-1} /\ processedUpTo \in Nat
          /\ latestBlock <= blockNumber /\ (latestBlock # -1 => installed)
          /\ processedUpTo <= currentSlot /\ currentSlot \in Nat
        BY DEF ParticipationInv, ParticipationTypeOK, IInv, TypeOK
    <2> QED BY <2>1, <2>3
            DEF AppendRequired, AppendCreated, AppendSucceeds, NoteProcessingSucceeds, ShouldReleaseData
<1> QED BY <1>1, ParticipationInvariantHolds, PTL

=============================================================================
