--------------------------- MODULE MCMcReference ---------------------------
(* Instances of McReference for model checking. *)
EXTENDS McReference, FiniteSetsExt, TLC

CONSTANTS n1, n2

\* Block times from the gaps between blocks: a main chain that is quiet for a
\* while, and one with gaps of different lengths.
TimesFromGaps(gaps) ==
    [i \in 0..MaxBlock |-> 1 + MapThenSumSet(LAMBDA j : gaps[j], 1..i)]

MCSymmetry == Permutations(Nodes)

MCBlockTimes ==
    {TimesFromGaps(gaps) : gaps \in {[j \in 1..MaxBlock |-> IF j = 3 THEN 3 ELSE 1],
                                     [j \in 1..MaxBlock |-> IF j % 2 = 0 THEN 2 ELSE 1]}}

=============================================================================
