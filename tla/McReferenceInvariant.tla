----------------------- MODULE McReferenceInvariant -----------------------
(***************************************************************************)
(* Proofs about McReference for any number of nodes, any security          *)
(* parameter, margin, window, cache size, block times and bounds.          *)
(*                                                                         *)
(* The inductive invariant says why a block read from a database that may  *)
(* roll back between two queries is stable nevertheless: whatever the      *)
(* database does, it keeps the canonical blocks up to k below the highest  *)
(* tip it ever had (ViewInv), and the tips that a running call remembers   *)
(* are not above that one (ProposalInv, VerificationInv).                  *)
(*                                                                         *)
(* This module has the invariant, and that steps of the databases and of   *)
(* block proposal keep it; McReferenceProofs has block verification and    *)
(* the theorems.                                                           *)
(***************************************************************************)
EXTENDS McReference, TLAPS

ViewInv ==
    \A n \in Nodes : /\ view[n].prefix + view[n].fork <= highest[n]
                     /\ view[n].prefix >= highest[n] - SecurityParameter
                     /\ InitialTip <= highest[n]

ProposalInv ==
    \A n \in Nodes : proposing[n].pc = "choose" =>
        /\ proposing[n].tip <= highest[n]
        /\ proposing[n].tip >= InitialTip - SecurityParameter
        /\ proposing[n].parent <= imported[n]
        /\ proposing[n].parent = Len(chain) /\ chain # <<>>
           => proposing[n].slot > chain[Len(chain)].slot

VerificationInv ==
    \A n \in Nodes :
        /\ imported[n] <= Len(chain)
        /\ verifying[n].pc # "idle" =>
            /\ imported[n] < Len(chain)
            /\ \/ verifying[n].target = 1
               \/ verifying[n].target = 2 /\ imported[n] > 0
        /\ verifying[n].pc \in {"fillLatest", "fillBlocks"} =>
            Target(n).ref.no + SecurityParameter <= highest[n]
        /\ verifying[n].pc = "fillBlocks" => verifying[n].latest <= highest[n]

CacheInv ==
    \A n \in Nodes : \A b \in cache[n] :
        ~b.fork /\ (b.no = 0 \/ b.no + SecurityParameter <= highest[n])

\* A reference was stable in the eyes of its author or of an earlier one.
TipsInv ==
    \A i \in DOMAIN chain :
        /\ chain[i].tip >= InitialTip - SecurityParameter
        /\ \E j \in 1..i : chain[i].ref.no <= LatestStable(chain[j].tip)

ChainInv == ReferencesAreStable /\ ReferencesNeverRegress /\ TipsInv

IInv == TypeOK /\ ViewInv /\ ProposalInv /\ VerificationInv /\ CacheInv /\ ChainInv

-----------------------------------------------------------------------------
(* Later blocks have later times. *)
LEMMA TimesIncrease ==
    ASSUME TypeOK, NEW i \in 0..MaxBlock, NEW j \in 0..MaxBlock, i < j
    PROVE  blockTime[i] \in Nat /\ blockTime[j] \in Nat /\ blockTime[i] < blockTime[j]
BY BlockTimesAssumption DEF TypeOK

LEMMA LatestStableFacts ==
    ASSUME NEW tip \in Nat
    PROVE  /\ LatestStable(tip) \in Nat
           /\ LatestStable(tip) = 0 \/ LatestStable(tip) + SecurityParameter + StabilityMargin = tip
BY McAssumption DEF LatestStable, SaturatingSub

LEMMA InitIInv == Init => IInv
<1> SUFFICES ASSUME Init PROVE IInv
    OBVIOUS
<1> USE McAssumption
<1>1. blockTime[InitialTip] \in Nat
    BY BlockTimesAssumption DEF Init
<1>2. TypeOK
    BY <1>1 DEF Init, TypeOK, NoProposal, NoVerification
<1>3. ViewInv /\ CacheInv
    BY DEF Init, ViewInv, CacheInv
<1>4. ProposalInv /\ VerificationInv
    BY DEF Init, ProposalInv, VerificationInv, NoProposal, NoVerification
<1>5. ChainInv
    BY DEF Init, ChainInv, ReferencesAreStable, ReferencesNeverRegress, TipsInv
<1> QED
    BY <1>2, <1>3, <1>4, <1>5 DEF IInv

(* The types of the parts of the state, one fact each. *)
LEMMA Types ==
    ASSUME TypeOK
    PROVE  /\ now \in Nat
           /\ view \in [Nodes -> [prefix: 0..MaxBlock, fork: 0..MaxBlock]]
           /\ highest \in [Nodes -> 0..MaxBlock]
           /\ imported \in [Nodes -> Nat]
           /\ chain \in Seq(PcBlocks)
           /\ Len(chain) \in Nat /\ DOMAIN chain = 1..Len(chain)
<1>1. chain \in Seq(PcBlocks)
    BY DEF TypeOK
<1>2. Len(chain) \in Nat /\ DOMAIN chain = 1..Len(chain)
    BY <1>1
<1> QED BY <1>1, <1>2 DEF TypeOK

LEMMA CachedBlockType ==
    ASSUME TypeOK, NEW n \in Nodes, NEW b \in cache[n]
    PROVE  b \in McBlocks /\ b.no \in Nat
BY DEF TypeOK, McBlocks

LEMMA BlockType ==
    ASSUME TypeOK, NEW i \in 1..Len(chain)
    PROVE  /\ chain[i] \in PcBlocks
           /\ chain[i].slot \in Nat /\ chain[i].tip \in Nat
           /\ chain[i].ref \in McBlocks /\ chain[i].ref.no \in Nat
<1>1. chain \in Seq(PcBlocks)
    BY DEF TypeOK
<1>2. chain[i] \in PcBlocks
    BY <1>1
<1> QED BY <1>2 DEF PcBlocks, McBlocks

LEMMA CallTypes ==
    ASSUME TypeOK, NEW n \in Nodes
    PROVE  /\ proposing[n].slot \in Nat
           /\ proposing[n].tip \in 0..MaxBlock
           /\ proposing[n].parent \in Nat
           /\ verifying[n].target \in 0..2
           /\ verifying[n].latest \in 0..MaxBlock
BY DEF TypeOK

(* The block a running verification looks at is one of the chain. *)
LEMMA TargetInChain ==
    ASSUME TypeOK, VerificationInv, NEW n \in Nodes, verifying[n].pc # "idle"
    PROVE  /\ imported[n] + 2 - verifying[n].target \in 1..Len(chain)
           /\ imported[n] + 2 - verifying[n].target <= imported[n] + 1
           /\ Target(n) = chain[imported[n] + 2 - verifying[n].target]
           /\ Target(n).ref.no \in Nat
<1> DEFINE i == imported[n] + 2 - verifying[n].target
<1>0. /\ imported[n] \in Nat /\ Len(chain) \in Nat /\ imported[n] < Len(chain)
      /\ verifying[n].target = 1 \/ (verifying[n].target = 2 /\ imported[n] > 0)
    BY Types DEF VerificationInv
<1>1. i \in 1..Len(chain) /\ i <= imported[n] + 1
    BY <1>0
<1>2. Target(n) = chain[i]
    BY DEF Target
<1> HIDE DEF i
<1>3. chain[i].ref.no \in Nat
    BY <1>1, BlockType
<1> QED BY <1>1, <1>2, <1>3 DEF i

(* What the database may do keeps the invariant: the chain is untouched, and *)
(* the highest tip ever seen only grows.                                     *)
LEMMA SetViewIInv ==
    ASSUME IInv, NEW n \in Nodes, NEW v \in [prefix: 0..MaxBlock, fork: 0..MaxBlock],
           SetView(n, v), v.prefix + v.fork \in 0..MaxBlock,
           v.prefix >= highest[n] - SecurityParameter, v.fork <= SecurityParameter
    PROVE  IInv'
<1> USE McAssumption DEF SetView
<1>0. TypeOK
    BY DEF IInv
<1>1. highest \in [Nodes -> 0..MaxBlock] /\ view \in [Nodes -> [prefix: 0..MaxBlock, fork: 0..MaxBlock]]
    BY <1>0, Types
<1>2. \A m \in Nodes : highest'[m] >= highest[m] /\ highest'[m] \in 0..MaxBlock
    BY <1>1
<1>3. TypeOK'
    <2>1. highest' \in [Nodes -> 0..MaxBlock]
        BY <1>1
    <2>2. view' \in [Nodes -> [prefix: 0..MaxBlock, fork: 0..MaxBlock]]
        BY <1>1
    <2> QED BY <1>0, <2>1, <2>2 DEF TypeOK
<1>4. ViewInv'
    BY <1>1 DEF ViewInv, IInv
<1>5. ProposalInv'
    <2> SUFFICES ASSUME NEW m \in Nodes, proposing[m].pc = "choose"
                 PROVE  proposing[m].tip <= highest'[m]
        BY DEF ProposalInv, IInv
    <2>1. proposing[m].tip \in Nat
        BY <1>0, CallTypes
    <2>2. proposing[m].tip <= highest[m]
        BY DEF ProposalInv, IInv
    <2>3. highest[m] \in Nat /\ highest'[m] \in Nat /\ highest[m] <= highest'[m]
        BY <1>1, <1>2
    <2> HIDE DEF SetView
    <2> QED BY <2>1, <2>2, <2>3
<1>6. VerificationInv'
    <2> SUFFICES ASSUME NEW m \in Nodes
                 PROVE  /\ verifying[m].pc \in {"fillLatest", "fillBlocks"} =>
                            Target(m).ref.no + SecurityParameter <= highest'[m]
                        /\ verifying[m].pc = "fillBlocks" => verifying[m].latest <= highest'[m]
        BY DEF VerificationInv, Target, IInv
    <2>1. verifying[m].latest \in Nat
        BY <1>0, CallTypes
    <2>2. ASSUME verifying[m].pc \in {"fillLatest", "fillBlocks"}
          PROVE  Target(m).ref.no \in Nat
        BY <1>0, <2>2, TargetInChain DEF IInv
    <2>3. highest[m] \in Nat /\ highest'[m] \in Nat /\ highest[m] <= highest'[m]
        BY <1>1, <1>2
    <2> HIDE DEF SetView
    <2>4. /\ verifying[m].pc \in {"fillLatest", "fillBlocks"} =>
                Target(m).ref.no + SecurityParameter <= highest[m]
          /\ verifying[m].pc = "fillBlocks" => verifying[m].latest <= highest[m]
        BY DEF VerificationInv, IInv
    <2> QED BY <2>1, <2>2, <2>3, <2>4
<1>7. CacheInv'
    <2> SUFFICES ASSUME NEW m \in Nodes, NEW b \in cache[m]
                 PROVE  ~b.fork /\ (b.no = 0 \/ b.no + SecurityParameter <= highest'[m])
        BY DEF CacheInv
    <2>1. ~b.fork /\ (b.no = 0 \/ b.no + SecurityParameter <= highest[m])
        BY DEF CacheInv, IInv
    <2>2. b.no \in Nat
        BY <1>0, CachedBlockType
    <2>3. highest[m] \in Nat /\ highest'[m] \in Nat /\ highest[m] <= highest'[m]
        BY <1>1, <1>2
    <2> QED BY <2>1, <2>2, <2>3
<1>8. ChainInv'
    BY DEF ChainInv, ReferencesAreStable, ReferencesNeverRegress, TipsInv, IsBlockTimeValid, IInv
<1> QED BY <1>3, <1>4, <1>5, <1>6, <1>7, <1>8 DEF IInv

LEMMA DatabaseIInv ==
    ASSUME IInv, NEW n \in Nodes, DbExtend(n) \/ DbFork(n) \/ DbRollback(n)
    PROVE  IInv'
<1> USE McAssumption
<1>1. /\ highest \in [Nodes -> 0..MaxBlock]
      /\ view \in [Nodes -> [prefix: 0..MaxBlock, fork: 0..MaxBlock]]
      /\ ViewInv
    BY Types DEF IInv
<1>2. CASE DbExtend(n)
    <2> DEFINE v == [view[n] EXCEPT !.prefix = @ + 1]
    <2>1. /\ v \in [prefix: 0..MaxBlock, fork: 0..MaxBlock]
          /\ v.prefix + v.fork \in 0..MaxBlock
          /\ v.prefix >= highest[n] - SecurityParameter
          /\ v.fork <= SecurityParameter
        BY <1>1, <1>2 DEF DbExtend, ViewInv
    <2>2. SetView(n, v)
        BY <1>2 DEF DbExtend
    <2> HIDE DEF v
    <2> QED BY <2>1, <2>2, SetViewIInv
<1>3. CASE DbFork(n)
    <2> DEFINE v == [view[n] EXCEPT !.fork = @ + 1]
    <2>1. view[n].prefix + view[n].fork < MaxBlock
        BY <1>3 DEF DbFork, Tip
    <2>2. /\ v \in [prefix: 0..MaxBlock, fork: 0..MaxBlock]
          /\ v.prefix + v.fork \in 0..MaxBlock
          /\ v.prefix >= highest[n] - SecurityParameter
          /\ v.fork <= SecurityParameter
        BY <1>1, <1>3, <2>1 DEF DbFork, ViewInv
    <2>3. SetView(n, v)
        BY <1>3 DEF DbFork
    <2> HIDE DEF v
    <2> QED BY <2>2, <2>3, SetViewIInv
<1>4. CASE DbRollback(n)
    <2>1. PICK p \in 0..view[n].prefix : /\ p >= highest[n] - SecurityParameter
                                         /\ SetView(n, [prefix |-> p, fork |-> 0])
        BY <1>4 DEF DbRollback
    <2> DEFINE v == [prefix |-> p, fork |-> 0]
    <2>2. /\ v \in [prefix: 0..MaxBlock, fork: 0..MaxBlock]
          /\ v.prefix + v.fork \in 0..MaxBlock
          /\ v.prefix >= highest[n] - SecurityParameter
          /\ v.fork <= SecurityParameter
        BY <1>1, <2>1
    <2>3. SetView(n, v)
        BY <2>1
    <2> HIDE DEF v
    <2> QED BY <2>2, <2>3, SetViewIInv
<1> QED BY <1>2, <1>3, <1>4

(* Time passes. *)
LEMMA TickIInv == IInv /\ Tick => IInv'
<1> SUFFICES ASSUME IInv, Tick PROVE IInv'
    OBVIOUS
<1>1. now' \in Nat
    BY DEF Tick, IInv, TypeOK
<1>2. TypeOK'
    BY <1>1 DEF Tick, IInv, TypeOK, dbVars
<1>3. ViewInv' /\ CacheInv'
    BY DEF Tick, IInv, ViewInv, CacheInv, dbVars
<1>4. ProposalInv' /\ VerificationInv'
    BY DEF Tick, IInv, ProposalInv, VerificationInv, Target, dbVars
<1>5. ChainInv'
    BY DEF Tick, IInv, ChainInv, ReferencesAreStable, ReferencesNeverRegress, TipsInv,
           IsBlockTimeValid, dbVars
<1> QED BY <1>2, <1>3, <1>4, <1>5 DEF IInv

(* The conjuncts that no step of a proposal's start or failure touches. *)
LEMMA ProposalStartIInv ==
    ASSUME IInv, NEW n \in Nodes, ProposeReadLatest(n) \/ ProposeFail(n)
    PROVE  IInv'
<1> USE McAssumption
<1>0. TypeOK /\ ViewInv
    BY DEF IInv
<1>1. UNCHANGED <<now, blockTime, view, highest, cache, chain, imported, verifying>>
    BY DEF ProposeReadLatest, ProposeFail, dbVars
<1>2. PICK p \in [pc: {"idle", "choose"}, slot: Nat, tip: 0..MaxBlock, parent: Nat] :
        /\ proposing' = [proposing EXCEPT ![n] = p]
        /\ p.pc = "choose" => /\ p.tip = Tip(n) /\ p.parent = Len(chain)
                              /\ p.parent = imported[n]
                              /\ chain # <<>> => p.slot > chain[Len(chain)].slot
    <2>1. CASE ProposeReadLatest(n)
        <3> DEFINE p == [pc |-> "choose", slot |-> now, tip |-> GetLatestBlockInfo(n),
                         parent |-> Len(chain)]
        <3>1. now \in Nat /\ Len(chain) \in Nat
            BY <1>0, Types
        <3>2. GetLatestBlockInfo(n) \in 0..MaxBlock
            <4>1. view[n] \in [prefix: 0..MaxBlock, fork: 0..MaxBlock] /\ highest[n] \in 0..MaxBlock
                BY <1>0, Types
            <4> QED BY <1>0, <4>1 DEF ViewInv, GetLatestBlockInfo, Tip
        <3>3. p \in [pc: {"idle", "choose"}, slot: Nat, tip: 0..MaxBlock, parent: Nat]
            BY <3>1, <3>2
        <3> QED BY <2>1, <3>3 DEF ProposeReadLatest, GetLatestBlockInfo
    <2>2. CASE ProposeFail(n)
        <3>1. NoProposal \in [pc: {"idle", "choose"}, slot: Nat, tip: 0..MaxBlock, parent: Nat]
            BY DEF NoProposal
        <3> QED BY <2>2, <3>1 DEF ProposeFail, NoProposal
    <2> QED BY <2>1, <2>2
<1>3. TypeOK'
    BY <1>0, <1>1, <1>2 DEF TypeOK
<1>4. ViewInv' /\ CacheInv'
    BY <1>1 DEF IInv, ViewInv, CacheInv
<1>5. ProposalInv'
    <2> SUFFICES ASSUME NEW m \in Nodes, proposing'[m].pc = "choose"
                 PROVE  /\ proposing'[m].tip <= highest[m]
                        /\ proposing'[m].tip >= InitialTip - SecurityParameter
                        /\ proposing'[m].parent <= imported[m]
                        /\ proposing'[m].parent = Len(chain) /\ chain # <<>>
                           => proposing'[m].slot > chain[Len(chain)].slot
        BY <1>1 DEF ProposalInv
    <2>1. proposing \in [Nodes -> [pc: {"idle", "choose"}, slot: Nat, tip: 0..MaxBlock, parent: Nat]]
        BY <1>0 DEF TypeOK
    <2>2. CASE m = n
        <3>1. /\ view[n] \in [prefix: 0..MaxBlock, fork: 0..MaxBlock] /\ highest[n] \in 0..MaxBlock
              /\ imported[n] \in Nat
            BY <1>0, Types
        <3>2. proposing'[m] = p
            BY <1>2, <2>1, <2>2
        <3>3. p.tip = view[n].prefix + view[n].fork /\ p.parent = imported[n]
            BY <1>2, <3>2 DEF Tip
        <3>4. chain # <<>> => p.slot > chain[Len(chain)].slot
            BY <1>2, <3>2
        <3>5. p.tip <= highest[n] /\ p.tip >= InitialTip - SecurityParameter
            BY <1>0, <3>1, <3>3 DEF ViewInv
        <3> QED BY <2>2, <3>1, <3>2, <3>3, <3>4, <3>5
    <2>3. CASE m # n
        <3>1. proposing'[m] = proposing[m]
            BY <1>2, <2>1, <2>3
        <3> QED BY <3>1 DEF IInv, ProposalInv
    <2> QED BY <2>2, <2>3
<1>6. VerificationInv'
    BY <1>1 DEF IInv, VerificationInv, Target
<1>7. ChainInv'
    BY <1>1 DEF IInv, ChainInv, ReferencesAreStable, ReferencesNeverRegress, TipsInv,
                IsBlockTimeValid
<1> QED BY <1>3, <1>4, <1>5, <1>6, <1>7 DEF IInv

(* A block found in the window below the stable offset is canonical: the  *)
(* database still has k blocks fewer than the highest tip it ever had.    *)
LEMMA FoundIsCanonical ==
    ASSUME IInv, NEW n \in Nodes, proposing[n].pc = "choose",
           NEW i \in InWindow(n, LatestStable(proposing[n].tip), proposing[n].slot)
    PROVE  /\ BlockAt(n, i) = Canonical(i)
           /\ i \in 0..MaxBlock
           /\ i <= LatestStable(proposing[n].tip)
           /\ IsBlockTimeValid(Canonical(i), proposing[n].slot)
<1> USE McAssumption
<1>1. /\ view[n] \in [prefix: 0..MaxBlock, fork: 0..MaxBlock] /\ highest[n] \in 0..MaxBlock
      /\ proposing[n].tip \in 0..MaxBlock
    BY Types, CallTypes DEF IInv
<1>2. /\ view[n].prefix + view[n].fork <= highest[n]
      /\ view[n].prefix >= highest[n] - SecurityParameter
      /\ proposing[n].tip <= highest[n]
    BY DEF IInv, ViewInv, ProposalInv
<1>3. /\ i \in 0..(view[n].prefix + view[n].fork)
      /\ i <= LatestStable(proposing[n].tip)
      /\ IsBlockTimeValid(BlockAt(n, i), proposing[n].slot)
    BY DEF InWindow, Tip
<1>4. i \in 0..MaxBlock
    BY <1>1, <1>2, <1>3
<1>5. i <= view[n].prefix
    BY <1>1, <1>2, <1>3, LatestStableFacts
<1>6. BlockAt(n, i) = Canonical(i)
    <2>1. (i > view[n].prefix) = FALSE
        BY <1>1, <1>3, <1>5
    <2> QED BY <2>1, Zenon DEF BlockAt, Canonical
<1> QED BY <1>3, <1>4, <1>6

LEMMA ProposedRefFacts ==
    ASSUME IInv, NEW n \in Nodes, proposing[n].pc = "choose",
           proposing[n].parent = Len(chain),
           NEW i \in InWindow(n, LatestStable(proposing[n].tip), proposing[n].slot)
    PROVE  LET ref == ProposedRef(BlockAt(n, i))
               last == chain[Len(chain)]
           IN  /\ ref \in McBlocks /\ ~ref.fork /\ ref.no \in 0..MaxBlock
               /\ IsBlockTimeValid(ref, proposing[n].slot)
               /\ \/ ref.no <= LatestStable(proposing[n].tip)
                  \/ chain # <<>> /\ ref = last.ref
               /\ chain # <<>> => last.ref.no <= ref.no
<1> USE McAssumption
<1> DEFINE ref == ProposedRef(BlockAt(n, i))
           last == chain[Len(chain)]
<1>1. /\ BlockAt(n, i) = Canonical(i) /\ i \in 0..MaxBlock
      /\ i <= LatestStable(proposing[n].tip)
      /\ IsBlockTimeValid(Canonical(i), proposing[n].slot)
    BY FoundIsCanonical
<1>2. Canonical(i) \in McBlocks /\ ~Canonical(i).fork /\ Canonical(i).no = i
    BY <1>1 DEF Canonical, McBlocks
<1>3. CASE chain = <<>>
    BY <1>1, <1>2, <1>3 DEF ProposedRef
<1>4. CASE chain # <<>>
    <2>1. Len(chain) \in 1..Len(chain) /\ DOMAIN chain = 1..Len(chain)
        <3>1. chain \in Seq(PcBlocks)
            BY Types DEF IInv
        <3> QED BY <1>4, <3>1
    <2>2. /\ last.ref \in McBlocks /\ last.ref.no \in 0..MaxBlock /\ ~last.ref.fork
          /\ last.slot \in Nat
          /\ IsBlockTimeValid(last.ref, last.slot)
        BY <2>1, BlockType DEF IInv, ChainInv, ReferencesAreStable
    <2>3. proposing[n].slot \in Nat /\ proposing[n].slot > last.slot
        BY <1>4, CallTypes DEF IInv, ProposalInv
    <2>4. ref = IF i >= last.ref.no THEN Canonical(i) ELSE last.ref
        BY <1>1, <1>2, <1>4 DEF ProposedRef, LaterReference
    <2>5. CASE i >= last.ref.no
        BY <1>1, <1>2, <2>4, <2>5
    <2>6. CASE ~(i >= last.ref.no)
        <3>1. /\ blockTime[i] \in Nat /\ blockTime[last.ref.no] \in Nat
              /\ blockTime[i] < blockTime[last.ref.no]
            BY <1>1, <2>2, <2>6, TimesIncrease DEF IInv
        <3>2. proposing[n].slot - MaxAge <= blockTime[i]
            BY <1>1, <1>2 DEF IsBlockTimeValid
        <3>3. blockTime[last.ref.no] <= last.slot - MinAge
            BY <2>2 DEF IsBlockTimeValid
        <3>4. /\ proposing[n].slot - MaxAge <= blockTime[last.ref.no]
              /\ blockTime[last.ref.no] <= proposing[n].slot - MinAge
            <4> DEFINE s == proposing[n].slot
                       l == last.slot
                       t == blockTime[i]
                       u == blockTime[last.ref.no]
            <4>1. s \in Nat /\ l \in Nat /\ t \in Nat /\ u \in Nat
                BY <2>2, <2>3, <3>1
            <4>2. s > l /\ t < u /\ s - MaxAge <= t /\ u <= l - MinAge
                BY <2>3, <3>1, <3>2, <3>3
            <4> HIDE DEF s, l, t, u
            <4>3. s - MaxAge <= u /\ u <= s - MinAge
                BY <4>1, <4>2
            <4> QED BY <4>3 DEF s, u
        <3>5. IsBlockTimeValid(last.ref, proposing[n].slot)
            BY <3>4 DEF IsBlockTimeValid
        <3> QED BY <1>4, <2>2, <2>4, <2>6, <3>5
    <2> QED BY <2>5, <2>6
<1> QED BY <1>3, <1>4

LEMMA AppendFacts ==
    ASSUME NEW S, NEW q \in Seq(S), NEW e \in S
    PROVE  /\ Append(q, e) \in Seq(S)
           /\ Len(Append(q, e)) = Len(q) + 1
           /\ \A k \in 1..Len(q) : Append(q, e)[k] = q[k]
           /\ Append(q, e)[Len(q) + 1] = e
           /\ Append(q, e) # <<>>
OBVIOUS

(* A new block: it is stable, does not go back behind its parent, and no     *)
(* running verification or proposal of another node is disturbed.            *)
LEMMA ProposeChooseIInv ==
    ASSUME IInv, NEW n \in Nodes, ProposeChoose(n)
    PROVE  IInv'
<1> USE McAssumption
<1> DEFINE L == Len(chain)
<1>0. TypeOK /\ proposing[n].pc = "choose" /\ proposing[n].parent = L
    BY DEF IInv, ProposeChoose
<1>1. PICK i \in InWindow(n, LatestStable(proposing[n].tip), proposing[n].slot) :
        chain' = Append(chain, [slot |-> proposing[n].slot, tip |-> proposing[n].tip,
                                ref |-> ProposedRef(BlockAt(n, i))])
    BY DEF ProposeChoose, IsHighest
<1> DEFINE ref == ProposedRef(BlockAt(n, i))
           blk == [slot |-> proposing[n].slot, tip |-> proposing[n].tip, ref |-> ref]
<1>2. /\ UNCHANGED <<now, blockTime, view, highest, cache, verifying>>
      /\ imported' = [imported EXCEPT ![n] = @ + 1]
      /\ proposing' = [proposing EXCEPT ![n] = NoProposal]
    BY DEF ProposeChoose, dbVars
<1>3. /\ ref \in McBlocks /\ ~ref.fork /\ ref.no \in 0..MaxBlock
      /\ IsBlockTimeValid(ref, proposing[n].slot)
      /\ \/ ref.no <= LatestStable(proposing[n].tip)
         \/ chain # <<>> /\ ref = chain[L].ref
      /\ chain # <<>> => chain[L].ref.no <= ref.no
    BY <1>0, ProposedRefFacts
<1> HIDE DEF ref
<1>4. proposing[n].slot \in Nat /\ proposing[n].tip \in 0..MaxBlock
    BY <1>0, CallTypes
<1>5. blk \in PcBlocks /\ blk.ref = ref /\ blk.slot = proposing[n].slot /\ blk.tip = proposing[n].tip
    BY <1>3, <1>4 DEF PcBlocks
<1>6. chain \in Seq(PcBlocks) /\ L \in Nat /\ imported \in [Nodes -> Nat] /\ DOMAIN chain = 1..L
    BY <1>0, Types
<1>7. chain' = Append(chain, blk)
    BY <1>1 DEF ref
<1> HIDE DEF blk
<1>8. /\ chain' \in Seq(PcBlocks) /\ Len(chain') = L + 1 /\ DOMAIN chain' = 1..(L + 1)
      /\ \A k \in 1..L : chain'[k] = chain[k]
      /\ chain'[L + 1] = blk /\ chain' # <<>>
    BY <1>5, <1>6, <1>7, AppendFacts
<1>9. chain # <<>> => L \in 1..L
    BY <1>6
<1>10. TypeOK'
    <2>1. imported' \in [Nodes -> Nat]
        BY <1>2, <1>6
    <2>2. proposing' \in [Nodes -> [pc: {"idle", "choose"}, slot: Nat, tip: 0..MaxBlock,
                                    parent: Nat]]
        <3>1. NoProposal \in [pc: {"idle", "choose"}, slot: Nat, tip: 0..MaxBlock, parent: Nat]
            BY DEF NoProposal
        <3>2. proposing \in [Nodes -> [pc: {"idle", "choose"}, slot: Nat, tip: 0..MaxBlock,
                                       parent: Nat]]
            BY <1>0 DEF TypeOK
        <3> QED BY <1>2, <3>1, <3>2
    <2> QED BY <1>0, <1>2, <1>8, <2>1, <2>2 DEF TypeOK
<1>11. ViewInv' /\ CacheInv'
    BY <1>2 DEF IInv, ViewInv, CacheInv
<1>12. imported[n] = L
    BY <1>0, <1>6 DEF IInv, ProposalInv, VerificationInv
<1>13. ProposalInv'
    <2> SUFFICES ASSUME NEW m \in Nodes, proposing'[m].pc = "choose"
                 PROVE  /\ proposing'[m].tip <= highest[m]
                        /\ proposing'[m].tip >= InitialTip - SecurityParameter
                        /\ proposing'[m].parent <= imported'[m]
                        /\ proposing'[m].parent # Len(chain')
        BY <1>2 DEF ProposalInv
    <2>1. proposing \in [Nodes -> [pc: {"idle", "choose"}, slot: Nat, tip: 0..MaxBlock, parent: Nat]]
        BY <1>0 DEF TypeOK
    <2>2. m # n
        BY <1>2, <2>1 DEF NoProposal
    <2>3. proposing'[m] = proposing[m] /\ imported'[m] = imported[m]
        BY <1>2, <1>6, <2>1, <2>2
    <2>4. proposing[m].parent <= imported[m] /\ imported[m] <= L
        BY <2>3 DEF IInv, ProposalInv, VerificationInv
    <2>5. proposing[m].parent \in Nat /\ imported[m] \in Nat
        BY <1>0, <1>6, CallTypes
    <2>6. proposing[m].parent # L + 1
        BY <1>6, <2>4, <2>5
    <2> QED BY <1>8, <2>3, <2>4, <2>6 DEF IInv, ProposalInv
<1>14. VerificationInv'
    <2> SUFFICES ASSUME NEW m \in Nodes
                 PROVE  /\ imported'[m] <= Len(chain')
                        /\ verifying[m].pc # "idle" =>
                            /\ imported'[m] < Len(chain')
                            /\ \/ verifying[m].target = 1
                               \/ verifying[m].target = 2 /\ imported'[m] > 0
                        /\ verifying[m].pc \in {"fillLatest", "fillBlocks"} =>
                            Target(m)'.ref.no + SecurityParameter <= highest[m]
                        /\ verifying[m].pc = "fillBlocks" => verifying[m].latest <= highest[m]
        BY <1>2 DEF VerificationInv
    <2>1. CASE m = n
        <3>1. verifying[m].pc = "idle"
            BY <1>6, <1>12, <2>1 DEF IInv, VerificationInv
        <3>2. imported'[m] = L + 1
            BY <1>2, <1>6, <1>12, <2>1
        <3> QED BY <1>6, <1>8, <3>1, <3>2
    <2>2. CASE m # n
        <3>1. imported'[m] = imported[m]
            BY <1>2, <1>6, <2>2
        <3>2. ASSUME verifying[m].pc # "idle"
              PROVE  Target(m)' = Target(m)
            <4> DEFINE j == imported[m] + 2 - verifying[m].target
            <4>1. j \in 1..L /\ Target(m) = chain[j]
                BY <1>0, <3>2, TargetInChain DEF IInv
            <4>2. Target(m)' = chain'[j]
                BY <1>2, <3>1 DEF Target
            <4> HIDE DEF j
            <4> QED BY <1>8, <4>1, <4>2
        <3>3. imported[m] \in Nat
            BY <1>6
        <3> HIDE DEF L
        <3>4. imported[m] <= L /\ (verifying[m].pc # "idle" => imported[m] < L)
            BY DEF L, IInv, VerificationInv
        <3> QED BY <1>6, <1>8, <3>1, <3>2, <3>3, <3>4 DEF IInv, VerificationInv
    <2> QED BY <2>1, <2>2
<1> HIDE DEF L
<1>15. ReferencesAreStable'
    <2> SUFFICES ASSUME NEW k \in 1..(L + 1)
                 PROVE  /\ ~chain'[k].ref.fork /\ chain'[k].ref.no \in 0..MaxBlock
                        /\ IsBlockTimeValid(chain'[k].ref, chain'[k].slot)
        BY <1>2, <1>8 DEF ReferencesAreStable, IsBlockTimeValid
    <2>1. CASE k \in 1..L
        BY <1>6, <1>8, <2>1 DEF IInv, ChainInv, ReferencesAreStable
    <2>2. CASE k = L + 1
        BY <1>3, <1>5, <1>8, <2>2
    <2> QED BY <1>6, <2>1, <2>2
<1>16. ReferencesNeverRegress'
    <2> SUFFICES ASSUME NEW k \in 1..(L + 1), NEW l \in 1..(L + 1), k < l
                 PROVE  chain'[k].ref.no <= chain'[l].ref.no
        BY <1>8 DEF ReferencesNeverRegress
    <2>1. k \in 1..L
        BY <1>6
    <2>2. CASE l \in 1..L
        BY <1>6, <1>8, <2>1, <2>2 DEF IInv, ChainInv, ReferencesNeverRegress
    <2>3. CASE l = L + 1
        <3>1. chain # <<>> /\ L \in 1..L
            BY <1>6, <2>1 DEF L
        <3>2. chain[k].ref.no <= chain[L].ref.no
            <4>1. CASE k < L
                BY <1>6, <2>1, <3>1, <4>1 DEF IInv, ChainInv, ReferencesNeverRegress
            <4>2. CASE k = L
                <5>1. chain[L].ref.no \in Nat
                    BY <1>0, <3>1, BlockType DEF L
                <5> QED BY <4>2, <5>1
            <4> QED BY <1>6, <2>1, <4>1, <4>2
        <3>3. chain[L].ref.no <= ref.no
            BY <1>3, <3>1
        <3>4. chain[k].ref.no \in Nat /\ chain[L].ref.no \in Nat /\ ref.no \in Nat
            BY <1>0, <1>3, <2>1, <3>1, BlockType DEF L
        <3>5. chain[k].ref.no <= ref.no
            BY <3>2, <3>3, <3>4
        <3> QED BY <1>5, <1>8, <2>1, <2>3, <3>5
    <2> QED BY <1>6, <2>2, <2>3
<1>17. TipsInv'
    <2> SUFFICES ASSUME NEW k \in 1..(L + 1)
                 PROVE  /\ chain'[k].tip >= InitialTip - SecurityParameter
                        /\ \E j \in 1..k : chain'[k].ref.no <= LatestStable(chain'[j].tip)
        BY <1>8 DEF TipsInv, LatestStable
    <2>1. CASE k \in 1..L
        <3>1. /\ chain[k].tip >= InitialTip - SecurityParameter
              /\ \E j \in 1..k : chain[k].ref.no <= LatestStable(chain[j].tip)
            BY <1>6, <2>1 DEF IInv, ChainInv, TipsInv
        <3>2. \A j \in 1..k : chain'[j] = chain[j]
            BY <1>6, <1>8, <2>1
        <3> QED BY <1>8, <2>1, <3>1, <3>2
    <2>2. CASE k = L + 1
        <3>1. blk.tip >= InitialTip - SecurityParameter
            BY <1>0, <1>5 DEF IInv, ProposalInv
        <3>2. CASE ref.no <= LatestStable(proposing[n].tip)
            BY <1>5, <1>6, <1>8, <2>2, <3>1, <3>2
        <3>3. CASE chain # <<>> /\ ref = chain[L].ref
            <4>1. L \in 1..L
                BY <1>9, <3>3
            <4>2. PICK j \in 1..L : chain[L].ref.no <= LatestStable(chain[j].tip)
                BY <1>6, <4>1 DEF IInv, ChainInv, TipsInv
            <4>3. j \in 1..k /\ chain'[j] = chain[j]
                BY <1>6, <1>8, <2>2
            <4> QED BY <1>5, <1>8, <2>2, <3>1, <3>3, <4>2, <4>3
        <3> QED BY <1>3, <3>2, <3>3
    <2> QED BY <1>6, <2>1, <2>2
<1> QED BY <1>10, <1>11, <1>13, <1>14, <1>15, <1>16, <1>17 DEF IInv, ChainInv

=============================================================================
