------------------------- MODULE MCFindingLifecycle -------------------------
(* Small instances of FindingLifecycle for TLC.                            *)
EXTENDS FindingLifecycle, TLC

CONSTANTS p1, p2, u1, u2, f1, f2

RunnerSymmetry == Permutations(Runner) \union Permutations(Operator)
=============================================================================
