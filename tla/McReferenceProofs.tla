------------------------- MODULE McReferenceProofs -------------------------
(***************************************************************************)
(* Theorems about McReference for any number of nodes, any security        *)
(* parameter, margin, window, cache size, block times and bounds, from the *)
(* inductive invariant of McReferenceInvariant.                            *)
(***************************************************************************)
EXTENDS McReferenceInvariant

-----------------------------------------------------------------------------
\* The states of a verification.
Verifications ==
    [pc: {"idle", "lookup", "latest", "fillLatest", "fillBlocks"}, target: 0..2, latest: 0..MaxBlock]

(* What a step of a verification must establish: its own next state v, the *)
(* number k of blocks imported after it, and the cache.                    *)
LEMMA VerificationStepIInv ==
    ASSUME IInv, NEW n \in Nodes, NEW v \in Verifications, NEW k \in Nat,
           UNCHANGED <<now, blockTime, view, highest, chain, proposing>>,
           verifying' = [verifying EXCEPT ![n] = v],
           imported' = [imported EXCEPT ![n] = k],
           imported[n] <= k, k <= Len(chain),
           v.pc # "idle" => k < Len(chain) /\ (v.target = 1 \/ (v.target = 2 /\ k > 0)),
           v.pc \in {"fillLatest", "fillBlocks"} =>
               chain[k + 2 - v.target].ref.no + SecurityParameter <= highest[n],
           v.pc = "fillBlocks" => v.latest <= highest[n],
           cache' \in [Nodes -> SUBSET McBlocks], CacheInv'
    PROVE  IInv'
<1>0. TypeOK
    BY DEF IInv
<1>1. imported \in [Nodes -> Nat] /\ verifying \in [Nodes -> Verifications] /\ Len(chain) \in Nat
    <2>1. verifying \in [Nodes -> Verifications]
        BY <1>0 DEF TypeOK, Verifications
    <2> QED BY <1>0, <2>1, Types
<1>2. TypeOK'
    <2>1. imported' \in [Nodes -> Nat]
        BY <1>1
    <2>2. verifying' \in [Nodes -> Verifications]
        BY <1>1
    <2> QED BY <1>0, <2>1, <2>2 DEF TypeOK, Verifications
<1>3. ViewInv'
    BY DEF IInv, ViewInv
<1>4. ProposalInv'
    <2> SUFFICES ASSUME NEW m \in Nodes, proposing[m].pc = "choose"
                 PROVE  proposing[m].parent <= imported'[m]
        BY DEF IInv, ProposalInv
    <2>1. proposing[m].parent \in Nat
        BY <1>0, CallTypes
    <2>2. imported[m] \in Nat /\ imported'[m] \in Nat /\ imported[m] <= imported'[m]
        BY <1>1
    <2>3. proposing[m].parent <= imported[m]
        BY DEF IInv, ProposalInv
    <2> QED BY <2>1, <2>2, <2>3
<1>5. VerificationInv'
    <2> SUFFICES ASSUME NEW m \in Nodes
                 PROVE  /\ imported'[m] <= Len(chain)
                        /\ verifying'[m].pc # "idle" =>
                            /\ imported'[m] < Len(chain)
                            /\ \/ verifying'[m].target = 1
                               \/ verifying'[m].target = 2 /\ imported'[m] > 0
                        /\ verifying'[m].pc \in {"fillLatest", "fillBlocks"} =>
                            chain[imported'[m] + 2 - verifying'[m].target].ref.no
                                + SecurityParameter <= highest[m]
                        /\ verifying'[m].pc = "fillBlocks" => verifying'[m].latest <= highest[m]
        BY DEF VerificationInv, Target
    <2>1. CASE m = n
        <3>1. verifying'[m] = v /\ imported'[m] = k
            BY <1>1, <2>1
        <3> QED BY <2>1, <3>1
    <2>2. CASE m # n
        <3>1. verifying'[m] = verifying[m] /\ imported'[m] = imported[m]
            BY <1>1, <2>2
        <3> QED BY <3>1 DEF IInv, VerificationInv, Target
    <2> QED BY <2>1, <2>2
<1>6. ChainInv'
    BY DEF IInv, ChainInv, ReferencesAreStable, ReferencesNeverRegress, TipsInv, IsBlockTimeValid
<1> QED BY <1>2, <1>3, <1>4, <1>5, <1>6 DEF IInv

(* The end of the verification of one target, and a rejection. *)
LEMMA TargetVerifiedIInv ==
    ASSUME IInv, NEW n \in Nodes, verifying[n].pc # "idle", TargetVerified(n) \/ Reject(n),
           UNCHANGED <<now, blockTime, view, highest, chain, proposing>>,
           cache' \in [Nodes -> SUBSET McBlocks], CacheInv'
    PROVE  IInv'
<1> USE McAssumption
<1>0. TypeOK
    BY DEF IInv
<1>1. imported \in [Nodes -> Nat] /\ Len(chain) \in Nat /\ imported[n] < Len(chain)
    BY <1>0, Types DEF IInv, VerificationInv
<1>2. NoVerification \in Verifications /\ NoVerification.pc = "idle"
    BY DEF NoVerification, Verifications
<1>3. CASE TargetVerified(n) /\ verifying[n].target = 1 /\ imported[n] > 0
    <2> DEFINE v == [pc |-> "lookup", target |-> 2, latest |-> 0]
    <2>1. v \in Verifications /\ v.pc = "lookup" /\ v.target = 2
        BY DEF Verifications
    <2>2. verifying' = [verifying EXCEPT ![n] = v] /\ imported' = [imported EXCEPT ![n] = imported[n]]
        BY <1>1, <1>3 DEF TargetVerified
    <2> DEFINE k == imported[n]
    <2>3. k \in Nat /\ imported[n] <= k /\ k < Len(chain) /\ k <= Len(chain) /\ k > 0
        BY <1>1, <1>3
    <2> HIDE DEF v, k
    <2>4. imported' = [imported EXCEPT ![n] = k]
        BY <2>2 DEF k
    <2> QED BY <2>1, <2>2, <2>3, <2>4, VerificationStepIInv
<1>4. CASE /\ verifying' = [verifying EXCEPT ![n] = NoVerification]
           /\ imported' = [imported EXCEPT ![n] = @ + 1]
    <2> DEFINE k == imported[n] + 1
    <2>1. k \in Nat /\ imported[n] <= k /\ k <= Len(chain)
        BY <1>1
    <2>2. imported' = [imported EXCEPT ![n] = k]
        BY <1>4
    <2> HIDE DEF k
    <2> QED BY <1>2, <1>4, <2>1, <2>2, VerificationStepIInv
<1>5. CASE Reject(n)
    <2>1. imported' = [imported EXCEPT ![n] = imported[n]]
        BY <1>1, <1>5 DEF Reject
    <2>2. verifying' = [verifying EXCEPT ![n] = NoVerification]
        BY <1>5 DEF Reject
    <2> DEFINE k == imported[n]
    <2>3. k \in Nat /\ imported[n] <= k /\ k <= Len(chain)
        BY <1>1
    <2> HIDE DEF k
    <2>4. imported' = [imported EXCEPT ![n] = k]
        BY <2>1 DEF k
    <2> QED BY <1>2, <2>2, <2>3, <2>4, VerificationStepIInv
<1> QED BY <1>3, <1>4, <1>5 DEF TargetVerified

(* The steps of a verification that neither end it nor touch the cache: on *)
(* to the next program counter of the same target.                         *)
LEMMA GoOnIInv ==
    ASSUME IInv, NEW n \in Nodes, NEW v \in Verifications,
           UNCHANGED <<now, blockTime, view, highest, cache, chain, imported, proposing>>,
           verifying' = [verifying EXCEPT ![n] = v],
           imported[n] < Len(chain), v.target = 1 \/ (v.target = 2 /\ imported[n] > 0),
           v.pc \in {"fillLatest", "fillBlocks"} =>
               chain[imported[n] + 2 - v.target].ref.no + SecurityParameter <= highest[n],
           v.pc = "fillBlocks" => v.latest <= highest[n]
    PROVE  IInv'
<1>1. imported \in [Nodes -> Nat] /\ Len(chain) \in Nat
    BY Types DEF IInv
<1>2. cache' \in [Nodes -> SUBSET McBlocks] /\ CacheInv'
    BY DEF IInv, TypeOK, CacheInv
<1> DEFINE k == imported[n]
<1>3. k \in Nat /\ imported[n] <= k /\ k < Len(chain) /\ k <= Len(chain)
    BY <1>1
<1>4. imported' = [imported EXCEPT ![n] = k]
    BY <1>1
<1>5. v.target = 1 \/ (v.target = 2 /\ k > 0)
    OBVIOUS
<1>6. v.pc \in {"fillLatest", "fillBlocks"} =>
        chain[k + 2 - v.target].ref.no + SecurityParameter <= highest[n]
    OBVIOUS
<1> HIDE DEF k
<1> QED BY <1>2, <1>3, <1>4, <1>5, <1>6, VerificationStepIInv

LEMMA VerifyIInv ==
    ASSUME IInv, NEW n \in Nodes,
           VerifyStart(n) \/ VerifyLookup(n) \/ VerifyLatest(n) \/ FillLatest(n)
    PROVE  IInv'
<1> USE McAssumption
<1>0. TypeOK /\ ViewInv /\ VerificationInv
    BY DEF IInv
<1>1. /\ view[n] \in [prefix: 0..MaxBlock, fork: 0..MaxBlock] /\ highest[n] \in 0..MaxBlock
      /\ imported[n] \in Nat /\ Len(chain) \in Nat
    BY <1>0, Types
<1>2. Tip(n) <= highest[n] /\ Tip(n) \in 0..MaxBlock
    BY <1>0, <1>1, SMTT(30) DEF ViewInv, Tip
<1>3. verifying \in [Nodes -> Verifications] /\ verifying[n] \in Verifications
    BY <1>0 DEF TypeOK, Verifications
<1>4. cache \in [Nodes -> SUBSET McBlocks] /\ CacheInv
    BY DEF IInv, TypeOK
<1>5. CASE VerifyStart(n)
    <2> DEFINE v == [pc |-> "lookup", target |-> 1, latest |-> 0]
    <2>1. v \in Verifications /\ v.pc = "lookup" /\ v.target = 1
        BY DEF Verifications
    <2>2. /\ verifying' = [verifying EXCEPT ![n] = v] /\ imported[n] < Len(chain)
          /\ UNCHANGED <<now, blockTime, view, highest, cache, chain, imported, proposing>>
        BY <1>5 DEF VerifyStart, dbVars
    <2> HIDE DEF v
    <2> QED BY <2>1, <2>2, GoOnIInv
<1>6. CASE verifying[n].pc = "lookup" /\ VerifyLookup(n)
    <2>1. UNCHANGED <<now, blockTime, view, highest, chain, cache, proposing>>
        BY <1>6 DEF VerifyLookup, dbVars
    <2>2. cache' \in [Nodes -> SUBSET McBlocks] /\ CacheInv'
        BY <1>4, <2>1 DEF CacheInv
    <2>3. CASE TargetVerified(n) \/ Reject(n)
        BY <1>6, <2>1, <2>2, <2>3, TargetVerifiedIInv
    <2>4. CASE GoTo(n, "latest") /\ UNCHANGED imported
        <3> DEFINE v == [verifying[n] EXCEPT !.pc = "latest"]
        <3>1. v \in Verifications /\ v.pc = "latest" /\ v.target = verifying[n].target
            BY <1>3 DEF Verifications
        <3>2. verifying' = [verifying EXCEPT ![n] = v]
            BY <2>4 DEF GoTo
        <3>3. /\ imported[n] < Len(chain)
              /\ verifying[n].target = 1 \/ (verifying[n].target = 2 /\ imported[n] > 0)
            BY <1>0, <1>6 DEF VerificationInv
        <3> HIDE DEF v
        <3> QED BY <2>1, <2>4, <3>1, <3>2, <3>3, GoOnIInv
    <2> QED BY <1>6, <2>3, <2>4 DEF VerifyLookup
<1>7. CASE verifying[n].pc = "latest" /\ VerifyLatest(n)
    <2>1. UNCHANGED <<now, blockTime, view, highest, chain, cache, proposing>>
        BY <1>7 DEF VerifyLatest, dbVars
    <2>2. cache' \in [Nodes -> SUBSET McBlocks] /\ CacheInv'
        BY <1>4, <2>1 DEF CacheInv
    <2>3. CASE Reject(n)
        BY <1>7, <2>1, <2>2, <2>3, TargetVerifiedIInv
    <2>4. CASE /\ Target(n).ref.no + SecurityParameter <= GetLatestBlockInfo(n)
               /\ GoTo(n, "fillLatest") /\ UNCHANGED imported
        <3> DEFINE v == [verifying[n] EXCEPT !.pc = "fillLatest"]
        <3>1. v \in Verifications /\ v.pc = "fillLatest" /\ v.target = verifying[n].target
            BY <1>3 DEF Verifications
        <3>2. verifying' = [verifying EXCEPT ![n] = v]
            BY <2>4 DEF GoTo
        <3>3. /\ imported[n] < Len(chain)
              /\ verifying[n].target = 1 \/ (verifying[n].target = 2 /\ imported[n] > 0)
            BY <1>0, <1>7 DEF VerificationInv
        <3>4. Target(n).ref.no \in Nat
            BY <1>0, <1>7, TargetInChain
        <3>5. Target(n).ref.no + SecurityParameter <= highest[n]
            BY <1>1, <1>2, <2>4, <3>4 DEF GetLatestBlockInfo
        <3> HIDE DEF v
        <3>6. chain[imported[n] + 2 - v.target].ref.no + SecurityParameter <= highest[n]
            BY <3>1, <3>5 DEF Target
        <3> QED BY <2>1, <2>4, <3>1, <3>2, <3>3, <3>6, GoOnIInv
    <2> QED BY <1>7, <2>3, <2>4 DEF VerifyLatest
<1>8. CASE verifying[n].pc = "fillLatest" /\ FillLatest(n)
    <2>1. UNCHANGED <<now, blockTime, view, highest, chain, cache, imported, proposing>>
        BY <1>8 DEF FillLatest, dbVars
    <2> DEFINE v == [verifying[n] EXCEPT !.pc = "fillBlocks", !.latest = Tip(n)]
    <2>2. v \in Verifications /\ v.pc = "fillBlocks" /\ v.target = verifying[n].target
          /\ v.latest = Tip(n)
        BY <1>2, <1>3 DEF Verifications
    <2>3. verifying' = [verifying EXCEPT ![n] = v]
        BY <1>3, <1>8 DEF FillLatest, GetLatestBlockInfo, Verifications
    <2>4. /\ imported[n] < Len(chain)
          /\ verifying[n].target = 1 \/ (verifying[n].target = 2 /\ imported[n] > 0)
          /\ Target(n).ref.no + SecurityParameter <= highest[n]
        BY <1>0, <1>8 DEF VerificationInv
    <2> HIDE DEF v
    <2>5. chain[imported[n] + 2 - v.target].ref.no + SecurityParameter <= highest[n]
        BY <2>2, <2>4 DEF Target
    <2> QED BY <1>2, <2>1, <2>2, <2>3, <2>4, <2>5, GoOnIInv
<1> QED BY <1>5, <1>6, <1>7, <1>8 DEF VerifyLookup, VerifyLatest, FillLatest

(* fill_cache puts only stable blocks into the cache, although the database *)
(* may have rolled back since it read the latest block.                     *)
LEMMA FillCacheIInv ==
    ASSUME IInv, NEW n \in Nodes, FillCache(n)
    PROVE  IInv'
<1> USE McAssumption
<1> DEFINE b == Target(n).ref
           to == FillUpTo(b.no, verifying[n].latest)
           new == IF to > b.no THEN GetBlocksByNumbers(n, b.no, to) ELSE {b}
<1>0. TypeOK /\ ViewInv /\ VerificationInv /\ verifying[n].pc = "fillBlocks"
    BY DEF IInv, FillCache
<1>1. /\ view[n] \in [prefix: 0..MaxBlock, fork: 0..MaxBlock] /\ highest[n] \in 0..MaxBlock
      /\ verifying[n].latest \in 0..MaxBlock
    BY <1>0, Types, CallTypes
<1>2. /\ verifying[n].latest <= highest[n] /\ b.no + SecurityParameter <= highest[n]
      /\ view[n].prefix >= highest[n] - SecurityParameter
    BY <1>0 DEF ViewInv, VerificationInv
<1>3. b \in McBlocks /\ b.no \in Nat /\ ~b.fork
    <2> DEFINE i == imported[n] + 2 - verifying[n].target
    <2>1. i \in 1..Len(chain) /\ Target(n) = chain[i]
        BY <1>0, TargetInChain
    <2>2. DOMAIN chain = 1..Len(chain)
        BY <1>0, Types
    <2> HIDE DEF i
    <2> QED BY <1>0, <2>1, <2>2, BlockType DEF IInv, ChainInv, ReferencesAreStable
<1>4. /\ UNCHANGED <<now, blockTime, view, highest, chain, proposing>>
      /\ cache' = [cache EXCEPT ![n] = new]
      /\ TargetVerified(n)
    BY DEF FillCache, dbVars
<1> HIDE DEF b
<1>5. to \in Int /\ (to > b.no => to + SecurityParameter <= highest[n])
    <2>1. /\ b.no \in Nat /\ verifying[n].latest \in Nat /\ highest[n] \in Nat
          /\ verifying[n].latest <= highest[n]
        BY <1>1, <1>2, <1>3
    <2> QED BY <2>1 DEF FillUpTo, SaturatingSub
<1> HIDE DEF to
<1>6. ASSUME NEW c \in new
      PROVE  c \in McBlocks /\ ~c.fork /\ c.no + SecurityParameter <= highest[n]
    <2>1. CASE ~(to > b.no)
        BY <1>2, <1>3, <1>6, <2>1
    <2>2. CASE to > b.no
        <3>1. PICK j \in b.no..to : c = BlockAt(n, j)
            BY <1>6, <2>2 DEF GetBlocksByNumbers
        <3>2. j \in Nat /\ j + SecurityParameter <= highest[n]
            BY <1>1, <1>3, <1>5, <2>2
        <3>3. (j > view[n].prefix) = FALSE
            BY <1>1, <1>2, <3>2
        <3>4. c = [no |-> j, fork |-> FALSE]
            BY <3>1, <3>3, Zenon DEF BlockAt
        <3> QED BY <3>2, <3>4 DEF McBlocks
    <2> QED BY <2>1, <2>2
<1> HIDE DEF new
<1>7. cache \in [Nodes -> SUBSET McBlocks] /\ CacheInv
    BY DEF IInv, TypeOK
<1>8. cache' \in [Nodes -> SUBSET McBlocks]
    BY <1>4, <1>6, <1>7
<1>9. CacheInv'
    <2> SUFFICES ASSUME NEW m \in Nodes, NEW c \in cache'[m]
                 PROVE  ~c.fork /\ (c.no = 0 \/ c.no + SecurityParameter <= highest[m])
        BY <1>4 DEF CacheInv
    <2>1. CASE m = n
        <3>1. c \in new
            BY <1>4, <1>7, <2>1
        <3> QED BY <1>6, <2>1, <3>1
    <2>2. CASE m # n
        <3>1. c \in cache[m]
            BY <1>4, <1>7, <2>2
        <3> QED BY <1>7, <3>1 DEF CacheInv
    <2> QED BY <2>1, <2>2
<1> QED BY <1>0, <1>4, <1>8, <1>9, TargetVerifiedIInv

LEMMA NextIInv == IInv /\ [Next]_vars => IInv'
<1> SUFFICES ASSUME IInv, [Next]_vars PROVE IInv'
    OBVIOUS
<1>1. CASE Tick
    BY <1>1, TickIInv
<1>2. ASSUME NEW n \in Nodes, DbExtend(n) \/ DbFork(n) \/ DbRollback(n) PROVE IInv'
    BY <1>2, DatabaseIInv
<1>3. ASSUME NEW n \in Nodes, ProposeReadLatest(n) \/ ProposeFail(n) PROVE IInv'
    BY <1>3, ProposalStartIInv
<1>4. ASSUME NEW n \in Nodes, ProposeChoose(n) PROVE IInv'
    BY <1>4, ProposeChooseIInv
<1>5. ASSUME NEW n \in Nodes, VerifyStart(n) \/ VerifyLookup(n) \/ VerifyLatest(n) \/ FillLatest(n)
      PROVE  IInv'
    BY <1>5, VerifyIInv
<1>6. ASSUME NEW n \in Nodes, FillCache(n) PROVE IInv'
    BY <1>6, FillCacheIInv
<1>7. CASE UNCHANGED vars
    <2>1. TypeOK' /\ ViewInv' /\ CacheInv'
        BY <1>7 DEF vars, dbVars, IInv, TypeOK, ViewInv, CacheInv
    <2>2. ProposalInv' /\ VerificationInv'
        BY <1>7 DEF vars, dbVars, IInv, ProposalInv, VerificationInv, Target
    <2>3. ChainInv'
        BY <1>7 DEF vars, dbVars, IInv, ChainInv, ReferencesAreStable, ReferencesNeverRegress,
                    TipsInv, IsBlockTimeValid
    <2> QED BY <2>1, <2>2, <2>3 DEF IInv
<1> QED BY <1>1, <1>2, <1>3, <1>4, <1>5, <1>6, <1>7 DEF Next

-----------------------------------------------------------------------------
(* The inductive invariant holds in every reachable state. *)
THEOREM InvariantHolds == Spec => []IInv
BY InitIInv, NextIInv, PTL DEF Spec

(* The state of proposals, verifications, databases and caches keeps its type. *)
THEOREM TypeCorrect == Spec => []TypeOK
<1>1. IInv => TypeOK
    BY DEF IInv
<1> QED BY <1>1, InvariantHolds, PTL

(* Whatever forks a database follows between the two queries of                *)
(* get_latest_stable_block_for, every reference is canonical and of a valid    *)
(* age, for every security parameter, margin, window and block times.          *)
THEOREM ReferencesAlwaysStable == Spec => []ReferencesAreStable
<1>1. IInv => ReferencesAreStable
    BY DEF IInv, ChainInv
<1> QED BY <1>1, InvariantHolds, PTL

(* new_proposal never goes back behind the parent's reference. *)
THEOREM ReferencesAlwaysOrdered == Spec => []ReferencesNeverRegress
<1>1. IInv => ReferencesNeverRegress
    BY DEF IInv, ChainInv
<1> QED BY <1>1, InvariantHolds, PTL

(* fill_cache only ever leaves stable blocks in BlocksCache. *)
THEOREM CacheAlwaysStable == Spec => []CacheHoldsStableBlocks
<1>1. ASSUME IInv PROVE CacheHoldsStableBlocks
    <2> SUFFICES ASSUME NEW n \in Nodes, NEW b \in cache[n]
                 PROVE  ~b.fork /\ b.no <= view[n].prefix
        BY DEF CacheHoldsStableBlocks
    <2>1. b.no \in Nat
        BY <1>1, CachedBlockType DEF IInv
    <2>2. view[n].prefix \in Nat /\ highest[n] \in Nat
        BY <1>1, Types DEF IInv
    <2>3. ~b.fork /\ (b.no = 0 \/ b.no + SecurityParameter <= highest[n])
        BY <1>1 DEF IInv, CacheInv
    <2>4. view[n].prefix >= highest[n] - SecurityParameter
        BY <1>1 DEF IInv, ViewInv
    <2> QED BY <2>1, <2>2, <2>3, <2>4, McAssumption
<1> QED BY <1>1, InvariantHolds, PTL

-----------------------------------------------------------------------------
(* A database in which a reference has fewer than k blocks on top of it is  *)
(* more than the margin behind what one of the authors saw.                 *)
LEMMA UnstableMeansLagging ==
    ASSUME IInv, InitialTip >= 2 * SecurityParameter + StabilityMargin,
           NEW n \in Nodes, verifying[n].pc # "idle",
           Tip(n) < Target(n).ref.no + SecurityParameter
    PROVE  \E tip \in TipsUpTo(imported[n] + 1) : Tip(n) < tip - StabilityMargin
<1> USE McAssumption
<1> DEFINE i == imported[n] + 2 - verifying[n].target
<1>1. /\ i \in 1..Len(chain) /\ i <= imported[n] + 1 /\ Target(n) = chain[i]
      /\ Target(n).ref.no \in Nat
    BY TargetInChain DEF IInv
<1>2. DOMAIN chain = 1..Len(chain) /\ Len(chain) \in Nat /\ imported[n] \in Nat
    BY Types DEF IInv
<1> HIDE DEF i
<1>3. PICK j \in 1..i : chain[i].ref.no <= LatestStable(chain[j].tip)
    BY <1>1, <1>2 DEF IInv, ChainInv, TipsInv
<1>4. j \in 1..Len(chain) /\ j \in 1..(imported[n] + 1)
    BY <1>1, <1>2
<1>5. chain[j].tip \in Nat /\ chain[j].tip >= InitialTip - SecurityParameter
    BY <1>2, <1>4, BlockType DEF IInv, ChainInv, TipsInv
<1> DEFINE tip == chain[j].tip
<1>6. tip \in TipsUpTo(imported[n] + 1)
    BY <1>4 DEF TipsUpTo
<1>7. tip \in Nat /\ tip >= InitialTip - SecurityParameter
    BY <1>5
<1>8. Target(n).ref.no <= LatestStable(tip)
    BY <1>1, <1>3
<1>9. Tip(n) \in Int
    <2>1. view[n] \in [prefix: 0..MaxBlock, fork: 0..MaxBlock]
        BY Types DEF IInv
    <2> QED BY <2>1 DEF Tip
<1> HIDE DEF tip
<1>10. LatestStable(tip) = tip - (SecurityParameter + StabilityMargin)
    BY <1>7 DEF LatestStable, SaturatingSub
<1>11. Tip(n) < tip - StabilityMargin
    BY <1>1, <1>7, <1>8, <1>9, <1>10
<1> QED BY <1>6, <1>11

(* Once a target is found valid, the verification goes on or the block is  *)
(* imported: the references are always in order.                           *)
LEMMA NoRegressionRefusal ==
    ASSUME IInv, NEW n \in Nodes, verifying[n].pc # "idle", TargetVerified(n)
    PROVE  verifying'[n].pc # "idle" \/ imported'[n] # imported[n]
<1>1. imported \in [Nodes -> Nat] /\ Len(chain) \in Nat /\ DOMAIN chain = 1..Len(chain)
    BY Types DEF IInv
<1>2. verifying \in [Nodes -> Verifications]
    BY DEF IInv, TypeOK, Verifications
<1>3. CASE verifying[n].target = 1 /\ imported[n] > 0
    BY <1>2, <1>3 DEF TargetVerified
<1>4. CASE ~(verifying[n].target = 1 /\ imported[n] > 0)
    <2>1. imported[n] > 0 => ReferencesInOrder(n)
        <3> SUFFICES ASSUME imported[n] > 0 PROVE ReferencesInOrder(n)
            OBVIOUS
        <3> DEFINE k == imported[n]
        <3>1. imported[n] < Len(chain)
            BY DEF IInv, VerificationInv
        <3>2. k \in 1..Len(chain) /\ k + 1 \in 1..Len(chain) /\ k < k + 1
            BY <1>1, <3>1
        <3> HIDE DEF k
        <3>3. chain[k].ref.no <= chain[k + 1].ref.no
            BY <1>1, <3>2 DEF IInv, ChainInv, ReferencesNeverRegress
        <3>4. chain[k].ref.no \in Nat /\ chain[k + 1].ref.no \in Nat
            BY <3>2, BlockType DEF IInv
        <3>5. chain[k + 1].ref.no >= chain[k].ref.no
            BY <3>3, <3>4
        <3> QED BY <3>5 DEF ReferencesInOrder, k
    <2>2. imported' = [imported EXCEPT ![n] = @ + 1]
        BY <1>4, <2>1 DEF TargetVerified
    <2>3. imported'[n] = imported[n] + 1 /\ imported[n] \in Nat
        BY <1>1, <2>2
    <2> QED BY <2>3
<1> QED BY <1>3, <1>4

(* A reference is missing from a database, or too young there, only when the *)
(* database has fewer than k blocks on top of its number.                    *)
LEMMA RefusalMeansUnstable ==
    ASSUME IInv, NEW n \in Nodes, verifying[n].pc # "idle",
           \/ ~HasBlock(n, Target(n).ref) /\ InitialTip >= SecurityParameter
           \/ ~(/\ Target(n).ref.no + SecurityParameter <= GetLatestBlockInfo(n)
                /\ IsBlockTimeValid(Target(n).ref, Target(n).slot))
    PROVE  Tip(n) < Target(n).ref.no + SecurityParameter
<1> USE McAssumption
<1> DEFINE i == imported[n] + 2 - verifying[n].target
           b == Target(n).ref
<1>1. i \in 1..Len(chain) /\ Target(n) = chain[i]
    BY TargetInChain DEF IInv
<1>2. DOMAIN chain = 1..Len(chain)
    BY Types DEF IInv
<1> HIDE DEF i
<1>3. b \in McBlocks /\ b.no \in Nat /\ ~b.fork /\ IsBlockTimeValid(b, Target(n).slot)
    BY <1>1, <1>2, BlockType DEF IInv, ChainInv, ReferencesAreStable
<1>4. /\ view[n] \in [prefix: 0..MaxBlock, fork: 0..MaxBlock] /\ highest[n] \in 0..MaxBlock
      /\ view[n].prefix + view[n].fork <= highest[n]
      /\ view[n].prefix >= highest[n] - SecurityParameter
    BY Types DEF IInv, ViewInv
<1>5. /\ view[n].prefix \in Nat /\ view[n].fork \in Nat /\ highest[n] \in Nat
      /\ b.no \in Nat /\ SecurityParameter \in Nat
    BY <1>3, <1>4
<1>6. \/ ~HasBlock(n, b)
      \/ ~(b.no + SecurityParameter <= Tip(n))
    BY <1>3 DEF GetLatestBlockInfo
<1>7. SUFFICES Tip(n) < b.no + SecurityParameter
    OBVIOUS
<1> HIDE DEF b
<1>8. CASE ~HasBlock(n, b)
    <2>1. b.no > view[n].prefix
        <3> SUFFICES ASSUME ~(b.no > view[n].prefix) PROVE FALSE
            OBVIOUS
        <3>1. b.no <= Tip(n)
            BY <1>5 DEF Tip
        <3>2. (b.no > view[n].prefix) = FALSE
            OBVIOUS
        <3>3. BlockAt(n, b.no) = [no |-> b.no, fork |-> FALSE]
            BY <3>2, Zenon DEF BlockAt
        <3>4. b = [no |-> b.no, fork |-> b.fork] /\ b.fork = FALSE
            BY <1>3 DEF McBlocks
        <3>5. b = [no |-> b.no, fork |-> FALSE]
            BY <3>4, Zenon
        <3> QED BY <1>8, <3>1, <3>3, <3>5, Zenon DEF HasBlock
    <2>2. /\ view[n].prefix + view[n].fork <= highest[n]
          /\ view[n].prefix >= highest[n] - SecurityParameter
        BY <1>4
    <2> QED BY <1>5, <2>1, <2>2 DEF Tip
<1>9. CASE ~(b.no + SecurityParameter <= Tip(n))
    BY <1>5, <1>9 DEF Tip
<1> QED BY <1>6, <1>8, <1>9

(* A verifying node refuses an honest block only while its own database is   *)
(* more than the margin behind what the authors saw, provided that Cardano   *)
(* is past its first blocks when the partner chain starts.                   *)
THEOREM RefusalMeansLagging ==
    ASSUME InitialTip >= 2 * SecurityParameter + StabilityMargin
    PROVE  Spec => RefusedOnlyWhenLagging
<1>0. InitialTip >= SecurityParameter
    BY McAssumption
<1>1. ASSUME IInv, [Next]_vars, NEW n \in Nodes,
             verifying[n].pc # "idle", verifying'[n].pc = "idle", imported'[n] = imported[n]
      PROVE  \E tip \in TipsUpTo(imported[n] + 1) : Tip(n) < tip - StabilityMargin
    <2>1. verifying \in [Nodes -> Verifications]
        BY <1>1 DEF IInv, TypeOK, Verifications
    <2>2. verifying' # verifying
        BY <1>1
    <2>3. PICK m \in Nodes :
            VerifyStart(m) \/ VerifyLookup(m) \/ VerifyLatest(m) \/ FillLatest(m) \/ FillCache(m)
        BY <1>1, <2>2 DEF Next, vars, dbVars, Tick, DbExtend, DbFork, DbRollback, SetView,
                          ProposeReadLatest, ProposeChoose, ProposeFail
    <2>4. m = n
        BY <1>1, <2>1, <2>3 DEF VerifyStart, VerifyLookup, VerifyLatest, FillLatest, FillCache,
                                TargetVerified, Reject, GoTo
    <2>5. CASE VerifyStart(n) \/ FillLatest(n)
        BY <1>1, <2>1, <2>5 DEF VerifyStart, FillLatest, Verifications
    <2>6. ~TargetVerified(n)
        BY <1>1, NoRegressionRefusal
    <2>7. ~GoTo(n, "latest") /\ ~GoTo(n, "fillLatest")
        BY <1>1, <2>1 DEF GoTo, Verifications
    <2>8. CASE VerifyLookup(n)
        <3>1. ~HasBlock(n, Target(n).ref)
            BY <2>6, <2>7, <2>8 DEF VerifyLookup
        <3> QED BY <1>0, <1>1, <3>1, RefusalMeansUnstable, UnstableMeansLagging
    <2>9. CASE VerifyLatest(n)
        <3>1. ~(/\ Target(n).ref.no + SecurityParameter <= GetLatestBlockInfo(n)
                /\ IsBlockTimeValid(Target(n).ref, Target(n).slot))
            BY <2>7, <2>9 DEF VerifyLatest
        <3> QED BY <1>1, <3>1, RefusalMeansUnstable, UnstableMeansLagging
    <2>10. CASE FillCache(n)
        BY <2>6, <2>10 DEF FillCache
    <2> QED BY <2>3, <2>4, <2>5, <2>8, <2>9, <2>10
<1>2. IInv /\ [Next]_vars =>
        [\A n \in Nodes :
           verifying[n].pc # "idle" /\ verifying'[n].pc = "idle" /\ imported'[n] = imported[n]
           => \E tip \in TipsUpTo(imported[n] + 1) : Tip(n) < tip - StabilityMargin]_vars
    BY <1>1
<1> QED BY <1>2, InvariantHolds, PTL DEF Spec, RefusedOnlyWhenLagging
=============================================================================
