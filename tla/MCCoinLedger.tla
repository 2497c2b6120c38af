---------------------------- MODULE MCCoinLedger ----------------------------
(* Values for CoinLedger's constants. *)
EXTENDS CoinLedger

Symmetry == Permutations(Addresses)

MCTs    == <<10, 20, 30>>
MCPrice == <<2, 1, 2>>
=============================================================================
