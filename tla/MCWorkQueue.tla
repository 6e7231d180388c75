---------------------------- MODULE MCWorkQueue -----------------------------
(* Small instances of WorkQueue for TLC.                                   *)
EXTENDS WorkQueue, TLC

CONSTANTS p1, p2, w1, w2

(* A bound: an operator replays a row only in a behaviour without faults   *)
(* and with one row.  Each fair action of WorkQueue can still be taken,    *)
(* without rows that follow, so that liveness is checked as it is stated.  *)
ReplayAlone == replays > 0 => faults = 0 /\ \E w \in Work : row[w].status = "absent"
=============================================================================
