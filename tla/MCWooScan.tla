----------------------------- MODULE MCWooScan ------------------------------
(* Small instances of WooScan for TLC.                                     *)
EXTENDS WooScan, TLC

CONSTANTS p1, p2

ProcessSymmetry == Permutations(Process)
=============================================================================
