--------------------------- MODULE MCGovernedMap ---------------------------
(* Instances of GovernedMap for model checking. *)
EXTENDS GovernedMap, TLC

CONSTANTS k1, k2, k3, k4, v1, v2, v3, s1, s2

\* Two transactions in block 1 and one in each of blocks 2 and 3.
MCTxBlock == <<1, 1, 2, 3>>

\* The entries of the i-th UTXO created, when the fourth transaction may create the third.
MCEntries(i) == {e \in Entry : e.created \in {i, i + 1} /\ e.created < e.spent}

\* All ledgers of three UTXOs that the commands can make.
MCLedgers ==
    {l \in MCEntries(1) \X MCEntries(2) \X MCEntries(3) :
        /\ l[1].created < l[2].created /\ l[2].created < l[3].created
        /\ BuiltByCommands(l)}

\* Two maps without a common key.
Kept(scr, key) ==
    [scripts |-> scr, key |-> key, value |-> v1, created |-> 1, spent |-> Unspent]
MCTwoMaps == {<<Kept(s1, k1), Kept(s1, k2), Kept(s2, k3), Kept(s2, k4)>>}

\* No scripts are set at genesis.
MCSymmetry ==
    Permutations(Keys) \cup Permutations(Scripts) \cup Permutations(Values \ LongValues)

=============================================================================
