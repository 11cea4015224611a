----------------------- MODULE MCBlockParticipation -----------------------
(* Instances of BlockParticipation for model checking. *)
EXTENDS BlockParticipation

CONSTANTS v1, v2, v3, s1, s2,
          MaxLoggedSlot   \* bound of the slots of a chain that logs its blocks

MCGenesisCommittee == <<v1, v2>>

\* Each main chain epoch has its own pools with stake: v2 in even ones, v3 in odd
\* ones.
MCDelegations(epoch) == IF epoch % 2 = 0 THEN {v2} ELSE {v3}
MCAllDelegations(epoch) == {v2, v3}

\* A selection that depends on all its inputs.  With s1, the committee is v1, which
\* is permissioned, and a pool with stake in the data epoch of the inputs; in every
\* fourth epoch there are no candidates.  With s2, the D-parameter has no seats in
\* these epochs, and there are no candidates in the ones after them.
MCSelectAuthorities(scripts, mcEpoch, epoch) ==
    [found |-> epoch % 4 # (IF scripts = s1 THEN 3 ELSE 0),
     committee |-> CASE scripts = s1 /\ mcEpoch % 2 = 0 -> <<v2, v1>>
                     [] scripts = s1 -> <<v1, v3, v3>>
                     [] scripts = s2 /\ epoch % 4 = 3 -> <<>>
                     [] scripts = s2 /\ (mcEpoch + epoch) % 2 = 0 -> <<v3>>
                     [] OTHER -> <<v3, v1>>]

\* A chain that starts with permissioned members alone and never fails to select.
MCPermissionedGenesis == <<v1, v1>>
MCAlwaysSelected(scripts, mcEpoch, epoch) ==
    [MCSelectAuthorities(scripts, mcEpoch, epoch) EXCEPT !.found = TRUE]

\* The history of logged blocks multiplies the states: a chain without the log is
\* followed for longer.
MCNext ==
    \E s \in FirstSlot..(IF installed THEN MaxLoggedSlot ELSE MaxSlot) : BlockInSlot(s)

MCSpec == ParticipationInit /\ [][MCNext]_allVars

=============================================================================
