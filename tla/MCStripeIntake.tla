--------------------------- MODULE MCStripeIntake ---------------------------
(* Small instances of StripeIntake for TLC.                                *)
EXTENDS StripeIntake, TLC

CONSTANTS p1, p2, r1, t1, t2, s1, s2

WorkerSymmetry == Permutations(Worker)
ScanSymmetry == Permutations(Worker) \union Permutations(Scans) \union Permutations(Ticks)

(* A bound: an operator replays a row only in a behaviour without crashes  *)
(* and with one scan.                                                      *)
ReplayAlone == replays > 0 => crashes = 0 /\ \E s \in Scans : scan[s].status = "absent"

(* The histories effects and reports guard no action, and the properties   *)
(* of this component do not read them.                                     *)
WithoutHistory == <<intent, unreported, sourceVars, crashes, replays>>
=============================================================================
