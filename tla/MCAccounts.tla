----------------------------- MODULE MCAccounts -----------------------------
(***************************************************************************)
(* Instances of AccountPool for TLC.                                       *)
(***************************************************************************)
EXTENDS AccountPool, TLC

CONSTANTS a1, a2, a3, j1, m1

ConfiguredSymmetry == Permutations(Configured)
=============================================================================
