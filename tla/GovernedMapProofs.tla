------------------------- MODULE GovernedMapProofs -------------------------
(***************************************************************************)
(* Proofs about GovernedMap, for all maps, histories and limits.  The main  *)
(* lemma is that the last row of changes of a key is its new value, unless  *)
(* it removes one entry of the key and another one is left behind.          *)
(***************************************************************************)
EXTENDS GovernedMap, TLAPS, WellFoundedInduction

-----------------------------------------------------------------------------
(* The ledger. *)

\* A non-empty bounded set of numbers has a greatest element.
LEMMA GreatestExists ==
    ASSUME NEW S, S \subseteq Nat, S # {}, NEW b \in Nat, \A x \in S : x <= b
    PROVE  \E m \in S : \A x \in S : x <= m
<1> DEFINE Bounds == {n \in Nat : \A x \in S : x <= n}
<1>1. IsWellFoundedOn(OpToRel(<, Nat), Nat)
    BY NatLessThanWellFounded
<1>2. Bounds \subseteq Nat /\ Bounds # {}
    OBVIOUS
<1>3. PICK m \in Bounds : \A v \in Bounds : ~(<<v, m>> \in OpToRel(<, Nat))
    BY <1>1, <1>2, WFMin
<1>4. \A v \in Bounds : ~(v < m)
    BY <1>3 DEF OpToRel
<1>5. m \in S
    <2> SUFFICES ASSUME m \notin S PROVE FALSE
        OBVIOUS
    <2>1. \A x \in S : x \in Nat /\ x <= m - 1
        OBVIOUS
    <2>2. PICK x \in S : x \in Nat /\ x <= m - 1
        BY <2>1
    <2>3. m \in Nat
        OBVIOUS
    <2>4. m - 1 \in Nat
        BY <2>2, <2>3
    <2>5. m - 1 \in Bounds /\ m - 1 < m
        BY <2>1, <2>4
    <2> QED BY <1>4, <2>5
<1> QED BY <1>5

\* The transactions and blocks of entries.
LEMMA LedgerFacts ==
    ASSUME ledger \in Ledgers
    PROVE  /\ \A i \in Utxos : /\ ledger[i].created \in Nat /\ ledger[i].spent \in Nat
                               /\ ledger[i].created < ledger[i].spent
                               /\ ledger[i].spent <= NumTxs + 1
                               /\ ledger[i].value \in Values
                               /\ BlockOf(ledger[i].created) \in Nat
                               /\ BlockOf(ledger[i].spent) \in Nat
           /\ \A i, j \in Utxos :
                /\ ledger[i].created <= ledger[j].created =>
                       BlockOf(ledger[i].created) <= BlockOf(ledger[j].created)
                /\ ledger[i].created <= ledger[j].spent =>
                       BlockOf(ledger[i].created) <= BlockOf(ledger[j].spent)
                /\ ledger[i].spent <= ledger[j].created =>
                       BlockOf(ledger[i].spent) <= BlockOf(ledger[j].created)
                /\ ledger[i].spent <= ledger[j].spent =>
                       BlockOf(ledger[i].spent) <= BlockOf(ledger[j].spent)
           /\ \A i, j \in Utxos :
                /\ ledger[i].scripts = ledger[j].scripts /\ ledger[i].key = ledger[j].key
                /\ ledger[i].created = ledger[j].created
                => i = j
<1>1. ledger \in [Utxos -> Entry]
    BY MapDataAssumption
<1>2. \A i \in Utxos : /\ ledger[i].created \in 1..NumTxs
                       /\ ledger[i].spent \in (1..NumTxs) \cup {NumTxs + 1}
                       /\ ledger[i].value \in Values
    BY <1>1 DEF Entry, Txs, Unspent
<1>3. \A t \in (1..NumTxs) \cup {NumTxs + 1} : BlockOf(t) \in Nat
    BY MapDataAssumption DEF BlockOf, Txs, Unspent
<1>4. \A s, t \in (1..NumTxs) \cup {NumTxs + 1} : s <= t => BlockOf(s) <= BlockOf(t)
    BY MapDataAssumption DEF BlockOf, Txs, Unspent
<1>5. /\ \A i \in Utxos : ledger[i].created < ledger[i].spent
      /\ \A i, j \in Utxos :
            /\ ledger[i].scripts = ledger[j].scripts /\ ledger[i].key = ledger[j].key
            /\ ledger[i].created = ledger[j].created
            => i = j
    BY MapDataAssumption
<1>6. NumTxs \in Nat
    BY MapDataAssumption
<1>7. \A i \in Utxos : /\ ledger[i].created \in Nat /\ ledger[i].spent \in Nat
                       /\ ledger[i].spent <= NumTxs + 1
    BY <1>2, <1>6
<1> HIDE DEF BlockOf
<1> QED BY <1>1, <1>2, <1>3, <1>4, <1>5, <1>7

-----------------------------------------------------------------------------
(* The two queries. *)

\* The state of a key is the value of the latest of its entries.
LEMMA StateOfKey ==
    ASSUME ledger \in Ledgers, NEW scr, NEW k \in Keys, NEW block,
           NEW i \in Datums(scr, k, block),
           \A j \in Datums(scr, k, block) : ledger[j].created <= ledger[i].created
    PROVE  GetStateAtBlock(scr, block)[k] = ledger[i].value
<1> DEFINE D == Datums(scr, k, block)
<1>1. \A j \in D : /\ j \in Utxos /\ ledger[j].scripts = scr /\ ledger[j].key = k
                   /\ ledger[j].created \in Nat
    BY LedgerFacts DEF Datums
<1>2. \A j, l \in D : ledger[j].created = ledger[l].created => j = l
    BY <1>1, LedgerFacts
<1> DEFINE c == CHOOSE d \in D : \A j \in D : ledger[j].created <= ledger[d].created
<1> HIDE DEF D
<1>3. c \in D /\ \A j \in D : ledger[j].created <= ledger[c].created
    BY DEF D
<1>4. ledger[c].created = ledger[i].created
    BY <1>1, <1>3 DEF D
<1>5. c = i
    BY <1>2, <1>3, <1>4 DEF D
<1>6. GetStateAtBlock(scr, block)[k] = ledger[c].value
    BY DEF GetStateAtBlock, D
<1> QED BY <1>5, <1>6

\* The rows of a key and the entries that they come from.
LEMMA RowFacts ==
    ASSUME ledger \in Ledgers, NEW scr, NEW k \in Keys, NEW since \in Nat, NEW upTo \in Nat
    PROVE  /\ \A r \in Rows(scr, k, since, upTo) :
                /\ r.at \in Nat /\ r.at <= 2 * NumTxs + 3
                /\ \E i \in Utxos :
                    /\ ledger[i].scripts = scr /\ ledger[i].key = k
                    /\ \/ /\ r.at = 2 * ledger[i].created + 1 /\ r.value = ledger[i].value
                          /\ since < BlockOf(ledger[i].created)
                          /\ BlockOf(ledger[i].created) <= upTo
                       \/ /\ r.at = 2 * ledger[i].spent /\ r.value = Absent
                          /\ since < BlockOf(ledger[i].spent)
                          /\ BlockOf(ledger[i].spent) <= upTo
           /\ \A i \in Utxos : ledger[i].scripts = scr /\ ledger[i].key = k =>
                /\ since < BlockOf(ledger[i].created) /\ BlockOf(ledger[i].created) <= upTo =>
                       \E r \in Rows(scr, k, since, upTo) : r.at = 2 * ledger[i].created + 1
                /\ since < BlockOf(ledger[i].spent) /\ BlockOf(ledger[i].spent) <= upTo =>
                       \E r \in Rows(scr, k, since, upTo) : r.at = 2 * ledger[i].spent
<1> DEFINE Cr == {j \in Utxos : /\ ledger[j].scripts = scr /\ ledger[j].key = k
                               /\ BlockOf(ledger[j].created) \in since + 1..upTo}
           Sp == {j \in Utxos : /\ ledger[j].scripts = scr /\ ledger[j].key = k
                               /\ BlockOf(ledger[j].spent) \in since + 1..upTo}
           R == {[at |-> 2 * ledger[i].created + 1, value |-> ledger[i].value] : i \in Cr}
                \cup {[at |-> 2 * ledger[i].spent, value |-> Absent] : i \in Sp}
<1>1. Rows(scr, k, since, upTo) = R
    BY Zenon DEF Rows
<1>2. NumTxs \in Nat
    BY MapDataAssumption
<1>3. \A i \in Utxos :
        /\ i \in Cr <=> /\ ledger[i].scripts = scr /\ ledger[i].key = k
                         /\ since < BlockOf(ledger[i].created)
                         /\ BlockOf(ledger[i].created) <= upTo
        /\ i \in Sp <=> /\ ledger[i].scripts = scr /\ ledger[i].key = k
                         /\ since < BlockOf(ledger[i].spent)
                         /\ BlockOf(ledger[i].spent) <= upTo
    BY LedgerFacts
<1>4. Cr \subseteq Utxos /\ Sp \subseteq Utxos
    OBVIOUS
<1> HIDE DEF Cr, Sp
<1>5. ASSUME NEW r \in R
      PROVE  \/ \E i \in Cr : r.at = 2 * ledger[i].created + 1 /\ r.value = ledger[i].value
             \/ \E i \in Sp : r.at = 2 * ledger[i].spent /\ r.value = Absent
    OBVIOUS
<1>6. ASSUME NEW r \in R PROVE r.at \in Nat /\ r.at <= 2 * NumTxs + 3
    <2>1. \A i \in Utxos : /\ ledger[i].created \in Nat /\ ledger[i].spent \in Nat
                           /\ ledger[i].created < ledger[i].spent
                           /\ ledger[i].spent <= NumTxs + 1
        BY LedgerFacts
    <2>2. \E t \in Nat : t <= NumTxs + 1 /\ (r.at = 2 * t + 1 \/ r.at = 2 * t)
        BY <1>2, <1>4, <1>5, <2>1
    <2> QED BY <1>2, <2>2
<1>7. \A i \in Cr : \E r \in R : r.at = 2 * ledger[i].created + 1
    <2> TAKE i \in Cr
    <2> WITNESS [at |-> 2 * ledger[i].created + 1, value |-> ledger[i].value] \in R
    <2> QED OBVIOUS
<1>8. \A i \in Sp : \E r \in R : r.at = 2 * ledger[i].spent
    <2> TAKE i \in Sp
    <2> WITNESS [at |-> 2 * ledger[i].spent, value |-> Absent] \in R
    <2> QED OBVIOUS
<1> HIDE DEF R
<1>9. \A r \in R : \E i \in Utxos :
        /\ ledger[i].scripts = scr /\ ledger[i].key = k
        /\ \/ /\ r.at = 2 * ledger[i].created + 1 /\ r.value = ledger[i].value
              /\ since < BlockOf(ledger[i].created) /\ BlockOf(ledger[i].created) <= upTo
           \/ /\ r.at = 2 * ledger[i].spent /\ r.value = Absent
              /\ since < BlockOf(ledger[i].spent) /\ BlockOf(ledger[i].spent) <= upTo
    BY <1>3, <1>4, <1>5
<1> QED BY <1>1, <1>3, <1>6, <1>7, <1>8, <1>9

\* A key without rows has the same entries at both ends of the range.
LEMMA NoRows ==
    ASSUME ledger \in Ledgers, NEW scr, NEW k \in Keys, NEW since \in Nat, NEW upTo \in Nat,
           since <= upTo, Rows(scr, k, since, upTo) = {}
    PROVE  /\ GetStateAtBlock(scr, upTo)[k] = GetStateAtBlock(scr, since)[k]
           /\ LeftBehind(scr, k, since) => LeftBehind(scr, k, upTo)
<1>1. \A i \in Utxos : ledger[i].scripts = scr /\ ledger[i].key = k =>
        /\ ~(since < BlockOf(ledger[i].created) /\ BlockOf(ledger[i].created) <= upTo)
        /\ ~(since < BlockOf(ledger[i].spent) /\ BlockOf(ledger[i].spent) <= upTo)
    BY RowFacts, ZenonT(60)
<1>2. \A i \in Utxos : /\ BlockOf(ledger[i].created) \in Nat
                       /\ BlockOf(ledger[i].spent) \in Nat
    BY LedgerFacts
<1>3. Datums(scr, k, upTo) = Datums(scr, k, since)
    BY <1>1, <1>2 DEF Datums
<1>4. \A i \in Utxos : BlockOf(ledger[i].spent) <= since => BlockOf(ledger[i].spent) <= upTo
    BY <1>2
<1> HIDE DEF BlockOf
<1>5. LeftBehind(scr, k, since) => LeftBehind(scr, k, upTo)
    BY <1>3, <1>4 DEF LeftBehind
<1> QED BY <1>3, <1>5 DEF GetStateAtBlock

\* The value of the last row of a key is its state at the end of the range, unless
\* it removes one entry of the key and another one is left behind.
LEMMA LastRow ==
    ASSUME ledger \in Ledgers, NEW scr, NEW k \in Keys, NEW since \in Nat, NEW upTo \in Nat,
           since <= upTo,
           NEW r \in Rows(scr, k, since, upTo),
           \A q \in Rows(scr, k, since, upTo) : q.at <= r.at
    PROVE  \/ r.value = GetStateAtBlock(scr, upTo)[k]
           \/ r.value = Absent /\ LeftBehind(scr, k, upTo)
<1> DEFINE R == Rows(scr, k, since, upTo)
           Of == {j \in Utxos : ledger[j].scripts = scr /\ ledger[j].key = k}
           cr(i) == ledger[i].created
           sp(i) == ledger[i].spent
           bc(i) == BlockOf(ledger[i].created)
           bs(i) == BlockOf(ledger[i].spent)
<1>1. \A i \in Of : /\ cr(i) \in Nat /\ sp(i) \in Nat /\ cr(i) < sp(i)
                    /\ bc(i) \in Nat /\ bs(i) \in Nat
    BY LedgerFacts
<1>2. \A i, j \in Of : /\ cr(i) <= cr(j) => bc(i) <= bc(j)
                       /\ sp(i) <= cr(j) => bs(i) <= bc(j)
                       /\ cr(i) <= sp(j) => bc(i) <= bs(j)
                       /\ sp(i) <= sp(j) => bs(i) <= bs(j)
    BY LedgerFacts
<1>3. \A i \in Of :
        /\ bs(i) <= upTo /\ Datums(scr, k, upTo) # {}
        /\ \A j \in Datums(scr, k, upTo) : cr(j) < sp(i)
        => LeftBehind(scr, k, upTo)
    BY DEF LeftBehind
<1>4. \A i \in Of : /\ since < bc(i) /\ bc(i) <= upTo => \E q \in R : q.at = 2 * cr(i) + 1
                    /\ since < bs(i) /\ bs(i) <= upTo => \E q \in R : q.at = 2 * sp(i)
    BY RowFacts
<1>5. r.at \in Nat
    BY RowFacts
<1>6. \E i \in Of : \/ /\ r.at = 2 * cr(i) + 1 /\ r.value = ledger[i].value
                        /\ since < bc(i) /\ bc(i) <= upTo
                     \/ /\ r.at = 2 * sp(i) /\ r.value = Absent
                        /\ since < bs(i) /\ bs(i) <= upTo
    BY RowFacts, SMTT(30)
<1>7. \A j : j \in Datums(scr, k, upTo) <=> j \in Of /\ bc(j) <= upTo /\ bs(j) > upTo
    BY DEF Datums
<1> HIDE DEF R, Of, cr, sp, bc, bs
\* No row of an entry comes after r.
<1>8. \A i \in Of : /\ since < bc(i) /\ bc(i) <= upTo => 2 * cr(i) + 1 <= r.at
                    /\ since < bs(i) /\ bs(i) <= upTo => 2 * sp(i) <= r.at
    BY <1>4 DEF R
<1>9. CASE \E i \in Of : /\ r.at = 2 * cr(i) + 1 /\ r.value = ledger[i].value
                         /\ since < bc(i) /\ bc(i) <= upTo
    <2>1. PICK i \in Of : /\ r.at = 2 * cr(i) + 1 /\ r.value = ledger[i].value
                          /\ since < bc(i) /\ bc(i) <= upTo
        BY <1>9
    <2>2. bs(i) > upTo
        <3> SUFFICES ASSUME bs(i) <= upTo PROVE FALSE
            BY <1>1
        <3>1. bc(i) <= bs(i)
            BY <1>1, <1>2
        <3>2. 2 * sp(i) <= 2 * cr(i) + 1
            BY <1>1, <1>8, <2>1, <3>1
        <3> QED BY <1>1, <3>2
    <2>3. i \in Datums(scr, k, upTo)
        BY <1>7, <2>1, <2>2
    <2>4. ASSUME NEW j \in Datums(scr, k, upTo) PROVE cr(j) <= cr(i)
        <3>1. j \in Of /\ bc(j) <= upTo
            BY <1>7
        <3>2. CASE since < bc(j)
            <4>1. 2 * cr(j) + 1 <= 2 * cr(i) + 1
                BY <1>8, <2>1, <3>1, <3>2
            <4> QED BY <1>1, <3>1, <4>1
        <3>3. CASE ~(since < bc(j))
            <4>1. ~(bc(i) <= bc(j))
                BY <1>1, <2>1, <3>1, <3>3
            <4> QED BY <1>1, <1>2, <3>1, <4>1
        <3> QED BY <3>2, <3>3
    <2>5. \A j \in Datums(scr, k, upTo) : ledger[j].created <= ledger[i].created
        BY <2>4 DEF cr
    <2>6. GetStateAtBlock(scr, upTo)[k] = ledger[i].value
        BY <2>3, <2>5, StateOfKey
    <2> QED BY <2>1, <2>6
<1>10. CASE \E i \in Of : /\ r.at = 2 * sp(i) /\ r.value = Absent
                          /\ since < bs(i) /\ bs(i) <= upTo
    <2>1. PICK i \in Of : /\ r.at = 2 * sp(i) /\ r.value = Absent
                          /\ since < bs(i) /\ bs(i) <= upTo
        BY <1>10
    <2>2. ASSUME NEW j \in Datums(scr, k, upTo) PROVE cr(j) < sp(i)
        <3> SUFFICES ASSUME ~(cr(j) < sp(i)) PROVE FALSE
            OBVIOUS
        <3>1. j \in Of /\ bc(j) <= upTo
            BY <1>7
        <3>2. sp(i) <= cr(j)
            BY <1>1, <3>1
        <3>3. bs(i) <= bc(j)
            BY <1>2, <3>1, <3>2
        <3>4. since < bc(j)
            BY <1>1, <2>1, <3>1, <3>3
        <3>5. 2 * cr(j) + 1 <= 2 * sp(i)
            BY <1>8, <2>1, <3>1, <3>4
        <3> QED BY <1>1, <3>1, <3>2, <3>5
    <2>3. LeftBehind(scr, k, upTo) \/ Datums(scr, k, upTo) = {}
        BY <1>3, <2>1, <2>2
    <2>4. Datums(scr, k, upTo) = {} => GetStateAtBlock(scr, upTo)[k] = Absent
        BY DEF GetStateAtBlock
    <2> QED BY <2>1, <2>3, <2>4
<1> QED BY <1>6, <1>9, <1>10

\* Applying the rows of a range to the state before it gives the state after it,
\* but for keys of which an entry is left behind.
LEMMA RowsGiveState ==
    ASSUME ledger \in Ledgers, NEW scr, NEW k \in Keys, NEW since \in Nat, NEW upTo \in Nat,
           since <= upTo
    PROVE  IF k \in DOMAIN ChangesFromRows(scr, since, upTo)
           THEN \/ ChangesFromRows(scr, since, upTo)[k] = GetStateAtBlock(scr, upTo)[k]
                \/ /\ ChangesFromRows(scr, since, upTo)[k] = Absent
                   /\ LeftBehind(scr, k, upTo)
           ELSE /\ GetStateAtBlock(scr, since)[k] = GetStateAtBlock(scr, upTo)[k]
                /\ LeftBehind(scr, k, since) => LeftBehind(scr, k, upTo)
<1> DEFINE R == Rows(scr, k, since, upTo)
           Last == CHOOSE r \in R : \A q \in R : q.at <= r.at
           C == ChangesFromRows(scr, since, upTo)
<1>1. k \in DOMAIN C <=> R # {}
    BY DEF ChangesFromRows
<1>2. k \in DOMAIN C => C[k] = Last.value
    BY DEF ChangesFromRows
<1>3. CASE R = {}
    BY <1>1, <1>3, NoRows
<1>4. CASE R # {}
    <2>1. \A r \in R : r.at \in Nat /\ r.at <= 2 * NumTxs + 3
        BY RowFacts
    <2> DEFINE At == {r.at : r \in R}
    <2>2. At \subseteq Nat /\ At # {} /\ \A a \in At : a <= 2 * NumTxs + 3
        BY <1>4, <2>1
    <2>3. 2 * NumTxs + 3 \in Nat
        BY MapDataAssumption
    <2>4. PICK m \in At : \A a \in At : a <= m
        <3> HIDE DEF At
        <3> QED BY <2>2, <2>3, GreatestExists
    <2>5. \E r \in R : \A q \in R : q.at <= r.at
        BY <2>4
    <2>6. Last \in R /\ \A q \in R : q.at <= Last.at
        <3> HIDE DEF R
        <3> QED BY <2>5
    <2>7. \/ Last.value = GetStateAtBlock(scr, upTo)[k]
          \/ Last.value = Absent /\ LeftBehind(scr, k, upTo)
        <3> HIDE DEF Last
        <3> QED BY <2>6, LastRow
    <2> QED BY <1>1, <1>2, <1>4, <2>7
<1> QED BY <1>3, <1>4

-----------------------------------------------------------------------------
(* The chain. *)

\* The state of a map has the type of Mapping.
LEMMA StateType ==
    ASSUME ledger \in Ledgers, NEW scr, NEW block
    PROVE  /\ GetStateAtBlock(scr, block) \in [Keys -> Values \cup {Absent}]
           /\ GetStateAtBlock(scr, block) = [k \in Keys |-> GetStateAtBlock(scr, block)[k]]
<1>1. ASSUME NEW k \in Keys PROVE GetStateAtBlock(scr, block)[k] \in Values \cup {Absent}
    <2> DEFINE D == Datums(scr, k, block)
    <2>1. CASE D = {}
        BY <2>1 DEF GetStateAtBlock
    <2>2. CASE D # {}
        <3>1. \A i \in D : /\ i \in Utxos /\ ledger[i].created \in Nat
                           /\ ledger[i].created <= NumTxs + 1 /\ ledger[i].value \in Values
            <4>1. D \subseteq Utxos
                BY DEF Datums
            <4>2. NumTxs \in Nat
                BY MapDataAssumption
            <4> QED BY <4>1, <4>2, LedgerFacts
        <3> DEFINE Cr == {ledger[i].created : i \in D}
        <3>2. Cr \subseteq Nat /\ Cr # {} /\ \A c \in Cr : c <= NumTxs + 1
            BY <2>2, <3>1
        <3>3. NumTxs + 1 \in Nat
            BY MapDataAssumption
        <3>4. PICK m \in Cr : \A c \in Cr : c <= m
            <4> HIDE DEF Cr
            <4> QED BY <3>2, <3>3, GreatestExists
        <3>5. PICK i \in D : \A j \in D : ledger[j].created <= ledger[i].created
            BY <3>4
        <3>6. GetStateAtBlock(scr, block)[k] = ledger[i].value
            BY <3>5, StateOfKey
        <3> QED BY <3>1, <3>6
    <2> QED BY <2>1, <2>2
<1>2. GetStateAtBlock(scr, block) = [k \in Keys |-> GetStateAtBlock(scr, block)[k]]
    BY DEF GetStateAtBlock
<1> QED BY <1>1, <1>2

\* The inductive invariant.
Inv == TypeOK /\ ledger \in Ledgers /\ OnlyLeftBehindLost

\* What a key has after the inherent of a block.
Applied(changes, k) == IF k \in DOMAIN changes THEN changes[k] ELSE mapping[k]

\* The inherent of a block brings Mapping to the observed state, but for keys of
\* which an entry is left behind; exactly to it when the pallet is not initialized.
LEMMA Registered ==
    ASSUME Inv, scripts # NoScripts, NEW upTo \in Nat, mcBlock <= upTo
    PROVE  /\ RegisterChanges(InherentData(upTo)) \in [Keys -> Values \cup {Absent}]
           /\ MatchesUpToLeftBehind(RegisterChanges(InherentData(upTo)), scripts, upTo)
           /\ ~initialized => RegisterChanges(InherentData(upTo)) = GetStateAtBlock(scripts, upTo)
           /\ initialized \/ InherentCreated(InherentData(upTo))
<1> DEFINE S == GetStateAtBlock(scripts, upTo)
           changes == InherentData(upTo)
           Lost(k) == source = "cached" /\ LeftBehind(scripts, k, upTo)
<1>1. ledger \in Ledgers /\ mcBlock \in Nat /\ initialized \in BOOLEAN
    BY MapDataAssumption DEF Inv, TypeOK
<1>2. mapping = [k \in Keys |-> mapping[k]]
    BY DEF Inv, TypeOK
<1>3. ASSUME NEW k \in Keys
      PROVE  /\ ~initialized => Applied(changes, k) = S[k]
             /\ Applied(changes, k) = S[k] \/ (Applied(changes, k) = Absent /\ Lost(k))
    <2>1. CASE ~initialized
        <3>1. changes = Diff(mapping, S)
            BY <2>1 DEF InherentData
        <3> HIDE DEF S, changes
        <3> QED BY <3>1 DEF Diff, Applied
    <2>2. CASE initialized
        <3>1. \/ mapping[k] = GetStateAtBlock(scripts, mcBlock)[k]
              \/ /\ source = "cached" /\ mapping[k] = Absent
                 /\ LeftBehind(scripts, k, mcBlock)
            BY <2>2 DEF Inv, OnlyLeftBehindLost, MatchesUpToLeftBehind
        <3>2. CASE source = "cached"
            <4>1. changes = ChangesFromRows(scripts, mcBlock, upTo)
                BY <2>2, <3>2 DEF InherentData, MappingChanges
            <4>2. IF k \in DOMAIN changes
                  THEN \/ changes[k] = S[k]
                       \/ changes[k] = Absent /\ LeftBehind(scripts, k, upTo)
                  ELSE /\ GetStateAtBlock(scripts, mcBlock)[k] = S[k]
                       /\ LeftBehind(scripts, k, mcBlock) => LeftBehind(scripts, k, upTo)
                BY <1>1, <4>1, RowsGiveState
            <4> HIDE DEF S, changes
            <4> QED BY <2>2, <3>1, <3>2, <4>2 DEF Applied
        <3>3. CASE source # "cached"
            <4>1. changes = Diff(GetStateAtBlock(scripts, mcBlock), S)
                BY <2>2, <3>3 DEF InherentData, MappingChanges
            <4>2. mapping[k] = GetStateAtBlock(scripts, mcBlock)[k]
                BY <3>1, <3>3
            <4> HIDE DEF S, changes
            <4> QED BY <2>2, <4>1, <4>2 DEF Diff, Applied
        <3> QED BY <3>2, <3>3
    <2> QED BY <1>1, <2>1, <2>2
<1>4. S \in [Keys -> Values \cup {Absent}] /\ S = [k \in Keys |-> S[k]]
    BY <1>1, StateType
<1>5. RegisterChanges(changes) = [k \in Keys |-> Applied(changes, k)]
    <2> HIDE DEF changes
    <2>1. CASE InherentCreated(changes)
        BY <2>1 DEF RegisterChanges, Applied
    <2>2. CASE ~InherentCreated(changes)
        <3>1. DOMAIN changes = {}
            BY <2>2 DEF InherentCreated
        <3>2. [k \in Keys |-> Applied(changes, k)] = mapping
            BY <1>2, <3>1 DEF Applied
        <3> QED BY <2>2, <3>2 DEF RegisterChanges
    <2> QED BY <2>1, <2>2
<1> HIDE DEF S, changes
<1>6. [k \in Keys |-> Applied(changes, k)] \in [Keys -> Values \cup {Absent}]
    BY <1>3, <1>4
<1>7. MatchesUpToLeftBehind([k \in Keys |-> Applied(changes, k)], scripts, upTo)
    BY <1>3 DEF MatchesUpToLeftBehind, S
<1>8. ~initialized => [k \in Keys |-> Applied(changes, k)] = S
    BY <1>3, <1>4
<1>9. initialized \/ InherentCreated(changes)
    BY <1>1 DEF InherentCreated
<1> QED BY <1>5, <1>6, <1>7, <1>8, <1>9 DEF S, changes

\* What a block does to Mapping, whether or not it also sets the scripts.
LEMMA BlockEffect ==
    ASSUME Inv, mcBlock' \in mcBlock..MaxMcBlock,
           mapping' = RegisterChanges(InherentData(mcBlock'))
    PROVE  /\ mcBlock' \in 0..MaxMcBlock
           /\ mapping' \in [Keys -> Values \cup {Absent}]
           /\ scripts # NoScripts =>
                /\ MatchesUpToLeftBehind(mapping', scripts, mcBlock')
                /\ ~initialized => mapping' = GetStateAtBlock(scripts, mcBlock')
                /\ initialized \/ InherentCreated(InherentData(mcBlock'))
           /\ scripts = NoScripts => ~initialized /\ ~InherentCreated(InherentData(mcBlock'))
<1>1. mcBlock \in 0..MaxMcBlock /\ MaxMcBlock \in Nat
    BY MapDataAssumption DEF Inv, TypeOK
<1>2. mcBlock' \in 0..MaxMcBlock /\ mcBlock' \in Nat /\ mcBlock <= mcBlock'
    BY <1>1
<1>3. CASE scripts # NoScripts
    BY <1>2, <1>3, Registered
<1>4. CASE scripts = NoScripts
    <2>1. ~InherentCreated(InherentData(mcBlock'))
        BY <1>4 DEF InherentCreated
    <2>2. mapping' = mapping
        BY <2>1 DEF RegisterChanges
    <2> QED BY <1>2, <1>4, <2>1, <2>2 DEF Inv, TypeOK
<1> QED BY <1>3, <1>4

\* The map on Cardano does not depend on the state of the chain.
LEMMA SameMap ==
    ASSUME UNCHANGED <<ledger, source, scripts>>
    PROVE  OnlyLeftBehindLost' <=>
               (initialized' => MatchesUpToLeftBehind(mapping', scripts, mcBlock'))
BY DEF OnlyLeftBehindLost, MatchesUpToLeftBehind, GetStateAtBlock, LeftBehind, Datums

\* Every step preserves the invariant.
LEMMA NextPreservesInv ==
    ASSUME Inv, [Next]_vars
    PROVE  Inv'
<1>1. CASE ProduceBlock
    <2>1. /\ mapping' = RegisterChanges(InherentData(mcBlock'))
          /\ initialized' = (initialized \/ InherentCreated(InherentData(mcBlock')))
          /\ mcBlock' \in mcBlock..MaxMcBlock
          /\ ledger' = ledger /\ source' = source /\ scripts' = scripts
        BY <1>1 DEF ProduceBlock
    <2>2. /\ mcBlock' \in 0..MaxMcBlock
          /\ mapping' \in [Keys -> Values \cup {Absent}]
          /\ scripts # NoScripts => MatchesUpToLeftBehind(mapping', scripts, mcBlock')
          /\ scripts = NoScripts => ~initialized /\ ~InherentCreated(InherentData(mcBlock'))
        BY <2>1, BlockEffect
    <2>3. TypeOK'
        BY <2>1, <2>2 DEF Inv, TypeOK
    <2>4. OnlyLeftBehindLost'
        BY <2>1, <2>2, SameMap
    <2> QED BY <2>1, <2>3, <2>4 DEF Inv
<1>2. CASE ProduceBlockSettingScripts
    <2>1. /\ mapping' = RegisterChanges(InherentData(mcBlock'))
          /\ mcBlock' \in mcBlock..MaxMcBlock
          /\ ledger' = ledger /\ source' = source
          /\ scripts' \in Scripts /\ initialized' = FALSE
        BY <1>2 DEF ProduceBlockSettingScripts
    <2>2. mcBlock' \in 0..MaxMcBlock /\ mapping' \in [Keys -> Values \cup {Absent}]
        BY <2>1, BlockEffect
    <2>3. TypeOK'
        BY <2>1, <2>2 DEF Inv, TypeOK
    <2> QED BY <2>1, <2>3 DEF Inv, OnlyLeftBehindLost
<1>3. CASE UNCHANGED vars
    <2>1. UNCHANGED <<ledger, source, mcBlock, scripts, initialized, mapping>>
        BY <1>3 DEF vars
    <2>2. TypeOK'
        BY <2>1 DEF Inv, TypeOK
    <2>3. initialized => MatchesUpToLeftBehind(mapping, scripts, mcBlock)
        BY DEF Inv, OnlyLeftBehindLost
    <2>4. OnlyLeftBehindLost'
        BY <2>1, <2>3, SameMap
    <2> QED BY <2>1, <2>2, <2>4 DEF Inv
<1> QED BY <1>1, <1>2, <1>3 DEF Next

\* The invariant holds in every reachable state: block after block, for every
\* map and every sequence of references.
THEOREM InvariantHolds == Spec => []Inv
<1>1. ASSUME Init PROVE Inv
    <2>1. mcBlock \in 0..MaxMcBlock /\ ledger \in [Utxos -> Entry]
        BY <1>1, MapDataAssumption DEF Init
    <2>2. mapping \in [Keys -> Values \cup {Absent}]
        BY <1>1 DEF Init
    <2> QED BY <1>1, <2>1, <2>2, MapAssumption DEF Init, Inv, TypeOK, OnlyLeftBehindLost
<1>2. Inv /\ [Next]_vars => Inv'
    BY NextPreservesInv
<1> QED BY <1>1, <1>2, PTL DEF Spec

\* TypeOK holds: among others, the pallet is initialized only with scripts.
THEOREM TypeCorrect == Spec => []TypeOK
<1>1. Inv => TypeOK
    BY DEF Inv
<1> QED BY <1>1, InvariantHolds, PTL

\* For every history of entries, with one entry of a key per transaction:
\* registering only changes (register_changes, get_mapping_changes) keeps Mapping
\* equal to the map on Cardano, but for keys that the data source with a cache
\* loses because a transaction left an entry behind.
THEOREM OnlyLeftBehindAlwaysLost == Spec => []OnlyLeftBehindLost
<1>1. Inv => OnlyLeftBehindLost
    BY DEF Inv
<1> QED BY <1>1, InvariantHolds, PTL

\* Every block brings Mapping to the state of the map of its parent's scripts,
\* exactly so in the block after set_main_chain_scripts.
THEOREM AlwaysCongruentOnNextBlock == Spec => CongruentOnNextBlock
<1> DEFINE Congruent ==
        scripts # NoScripts =>
            /\ MatchesUpToLeftBehind(mapping', scripts, mcBlock')
            /\ ~initialized => mapping' = GetStateAtBlock(scripts, mcBlock')
<1>1. Inv /\ [Next]_vars => [Congruent]_vars
    <2> SUFFICES ASSUME Inv, Next PROVE Congruent
        OBVIOUS
    <2>1. /\ mapping' = RegisterChanges(InherentData(mcBlock'))
          /\ mcBlock' \in mcBlock..MaxMcBlock
        BY DEF Next, ProduceBlock, ProduceBlockSettingScripts
    <2> QED BY <2>1, BlockEffect
<1> QED BY <1>1, InvariantHolds, PTL DEF Spec, CongruentOnNextBlock

=============================================================================
