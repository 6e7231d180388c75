----------------------------- MODULE MCFindings -----------------------------
(* A finding from the evidence to the operator, in three small instances:  *)
(* what the engine makes of what the server knows, the life of a finding   *)
(* while two runs and two operators are at it, and the same life under an  *)
(* owner who switches shadow mode.  In each behaviour one of them moves.   *)
EXTENDS MCEvidence, FindingLifecycle

CONSTANTS r1, r2, r3, u1, u2, u3, f1

VARIABLES part, sCoverage, sClock, sShadow, sFinding, sAlerts, sStarted, sSeen, sStreak

Shadowed == INSTANCE FindingLifecycle WITH
  Runner <- {r3}, Operator <- {u3}, CoverageRule <- {}, Gap <- 1, MaxSuppress <- 1,
  MayShadow <- TRUE, MaxTime <- 3, MaxVersion <- 3, MaxCoverage <- 0,
  coverage <- sCoverage, clock <- sClock, shadow <- sShadow, finding <- sFinding,
  alerts <- sAlerts, started <- sStarted, seen <- sSeen, streak <- sStreak

shadowVars == <<sCoverage, sClock, sShadow, sFinding, sAlerts, sStarted, sSeen, sStreak>>
findingsVars == <<part, evidenceVars, vars, shadowVars>>

FindingsInit ==
  /\ part \in {"evidence", "life", "shadow"}
  /\ EvidenceInit /\ (part # "evidence" => case = 1)
  /\ Init /\ Shadowed!Init

FindingsNext ==
  \/ part = "evidence" /\ EvidenceNext /\ UNCHANGED <<part, vars, shadowVars>>
  \/ part = "life" /\ Next /\ UNCHANGED <<part, evidenceVars, shadowVars>>
  \/ part = "shadow" /\ Shadowed!Next /\ UNCHANGED <<part, evidenceVars, vars>>

FindingsSpec == FindingsInit /\ [][FindingsNext]_findingsVars

(* Every occurrence is alerted (see FindingLifecycle), also while an owner  *)
(* switches shadow mode (findings/service.py:170, 197, 287).               *)
EitherLifeIsAlerted == OccurrencesAreAlerted /\ Shadowed!OccurrencesAreAlerted

RunnerSymmetry == Permutations(Runner) \union Permutations(Operator)
=============================================================================
