------------------------------ MODULE MCBridge ------------------------------
(* Instances of Bridge for model checking. *)
EXTENDS Bridge, TLC

CONSTANTS s1, s2, alice

Utxo(block, scr, out, in, datum) ==
    [block |-> block, scripts |-> scr, tokensOut |-> out, tokensIn |-> in, datum |-> datum]

\* Three transfers in one block, more than a block of the partner chain takes.
Crowded == <<Utxo(1, s2, 0, 0, Invalid), Utxo(2, s1, 3, 0, alice), Utxo(2, s1, 7, 5, Reserve),
             Utxo(2, s1, 1, 0, alice), Utxo(3, s1, 2, 0, Invalid)>>

\* Transfers of two scripts, and a UTXO that only moves tokens of the bridge.
Mixed == <<Utxo(1, s1, 1, 0, alice), Utxo(1, s2, 2, 0, alice), Utxo(2, s1, 4, 4, Reserve),
           Utxo(3, s1, 5, 0, Reserve), Utxo(3, s2, 1, 3, alice)>>

MCLedgers == {Crowded, Mixed}
MCGenesisCheckpoint == AtUtxo(1)

\* Alice is new to the partner chain.
MCGenesisBalances == alice :> 0 @@ Reserve :> 2

=============================================================================
