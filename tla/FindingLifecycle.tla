-------------------------- MODULE FindingLifecycle --------------------------
(***************************************************************************)
(* The life of the findings of one store, src/modules/findings/service.py: *)
(* reconciliation runs open, refresh, resolve and reopen them, operators   *)
(* acknowledge, suppress and annotate them through an optimistic lock, and *)
(* the owner switches shadow mode and the tenant's sources move coverage.  *)
(*                                                                         *)
(* What a run finds out about a finding is nondeterministic here: the rule *)
(* engine is a pure function of a snapshot that this module does not have. *)
(***************************************************************************)
EXTENDS Integers

CONSTANTS
    Findings,     \* finding keys of the store
    CoverageRule, \* those of rule PI-009, which needs coverage to advance
    Runner,       \* workers that run reconcile_store
    Operator,     \* people with a finding's page open
    Gap,          \* time between the two clean evaluations (5 minutes)
    MaxSuppress,  \* longest suppression (7 days)
    MayShadow,    \* whether the owner ever switches shadow mode
    MaxTime,      \* bound: the clock
    MaxVersion,   \* bound: lock_version of a finding
    MaxCoverage   \* bound: advances of coverage

ASSUME LifecycleAssumption ==
    /\ Findings # {}
    /\ CoverageRule \subseteq Findings
    /\ Gap \in Nat \ {0}
    /\ MaxSuppress \in Nat \ {0}
    /\ MayShadow \in BOOLEAN
    /\ MaxTime \in Nat \ {0}
    /\ MaxVersion \in Nat
    /\ MaxCoverage \in Nat

VARIABLES
    clock,        \* wall-clock time, from 1; 0 stands for null
    coverage,     \* stands for the digest of the sources' covered_through
    shadow,       \* Store.shadow_rules
    finding,      \* the finding table
    alerts,       \* alerts[f]: notify intents written for f
    started,      \* started[p]: the evaluation time p took, null if idle
    seen,         \* seen[u]: the finding on u's page, and what it showed
    streak        \* history: the clean evaluations of f since the last one
                  \* that was not clean, or since a remediation was recorded

findingVars == <<finding, alerts, streak>>
vars == <<clock, coverage, shadow, findingVars, started, seen>>

Null == 0
State ==
    {"absent", "provisional", "open", "reopened", "acknowledged", "suppressed", "resolved"}
Finding ==
    [state : State, clean_since : Nat, clean_coverage : Nat, suppressed_until : Nat,
     occurrences : Nat, version : Nat]
Page == [of : Findings, shown : Finding]

TypeOK ==
    /\ clock \in Nat \ {Null}
    /\ coverage \in Nat
    /\ shadow \in BOOLEAN
    /\ finding \in [Findings -> Finding]
    /\ alerts \in [Findings -> Nat]
    /\ started \in [Runner -> Nat]
    /\ seen \in [Operator -> Page]
    /\ streak \in [Findings -> SUBSET (Nat \X Nat)]

Absent ==
    [state |-> "absent", clean_since |-> Null, clean_coverage |-> 0,
     suppressed_until |-> Null, occurrences |-> 0, version |-> 0]

Init ==
    /\ clock = 1
    /\ coverage = 0
    /\ shadow = FALSE
    /\ finding = [f \in Findings |-> Absent]
    /\ alerts = [f \in Findings |-> 0]
    /\ started = [p \in Runner |-> Null]
    /\ seen = [u \in Operator |-> [of |-> CHOOSE f \in Findings : TRUE, shown |-> Absent]]
    /\ streak = [f \in Findings |-> {}]

-----------------------------------------------------------------------------
(* What a run makes of one finding                                         *)

(* "ready" and "early": proposed, past its grace time or not.  "clean":    *)
(* its rule was evaluated and did not propose it.  "blocked": its rule was *)
(* not evaluated, or an ambiguous fact touches its identities.             *)
Verdict == {"ready", "early", "clean", "blocked"}

(* Mutant: the row is created in a state the lifecycle does not know.      *)
PreviousNew(r) == IF r.state = "absent" THEN "new" ELSE r.state

(* A finding proposed for the first time starts provisional.               *)
Previous(r) == IF r.state = "absent" THEN "provisional" ELSE r.state

(* The finding becomes visible: for the first time, or again.              *)
Appears(r, verdict) == verdict = "ready" /\ Previous(r) \in {"provisional", "resolved"}

(* Mutant: a suppressed finding is brought back by the next proposal.      *)
ExpiresAtOnce(r, verdict, now) == verdict = "ready" /\ r.state = "suppressed"

(* A proposal after suppressed_until ends the suppression.                 *)
Expires(r, verdict, now) ==
    /\ verdict = "ready" /\ r.state = "suppressed"
    /\ r.suppressed_until # Null /\ r.suppressed_until <= now

(* Mutant: no notice when a provisional finding matures.                   *)
AlertedOnce(r, verdict, now) == verdict = "ready" /\ r.state \in {"absent", "resolved"}

(* "opened", "reopened" and "unsuppressed" events enqueue a notice.        *)
Alerted(r, verdict, now) == Appears(r, verdict) \/ Expires(r, verdict, now)

(* A proposal refreshes the finding and forgets any clean evaluation.      *)
Proposed(r, verdict, now) ==
    [state |->
        IF Appears(r, verdict) THEN IF r.state = "resolved" THEN "reopened" ELSE "open"
        ELSE IF Expires(r, verdict, now) THEN "open"
        ELSE Previous(r),
     clean_since |-> Null,
     clean_coverage |-> 0,
     suppressed_until |-> IF Expires(r, verdict, now) THEN Null ELSE r.suppressed_until,
     occurrences |-> IF Appears(r, verdict) THEN r.occurrences + 1 ELSE r.occurrences,
     version |-> r.version + 1]

(* Mutant: PI-009 resolves without a coverage advance.                     *)
ResolvesAnyhow(f, r, now) == r.clean_since # Null /\ now - r.clean_since >= Gap

(* The second clean evaluation resolves, if the first is old enough and,   *)
(* for PI-009, coverage has moved since.                                   *)
Resolves(f, r, now) ==
    /\ r.clean_since # Null
    /\ now - r.clean_since >= Gap
    /\ f \in CoverageRule => r.clean_coverage # coverage

Cleaned(f, r, now) ==
    [r EXCEPT
        !.state = IF Resolves(f, r, now) THEN "resolved" ELSE @,
        !.clean_coverage = IF r.clean_since = Null THEN coverage ELSE @,
        !.clean_since = IF @ = Null THEN now ELSE @,
        !.version = @ + 1]

(* Mutant: a blocked evaluation ends the streak without moving the version.*)
BlockedSilently(r) == [r EXCEPT !.clean_since = Null, !.clean_coverage = 0]

(* An evaluation that says nothing about the finding ends its streak.      *)
Blocked(r) ==
    IF r.clean_since = Null THEN r
    ELSE [r EXCEPT !.clean_since = Null, !.clean_coverage = 0, !.version = @ + 1]

Evaluated(f, verdict, now) ==
    LET r == finding[f]
    IN  IF verdict \in {"ready", "early"} THEN Proposed(r, verdict, now)
        ELSE IF r.state \in {"absent", "resolved"} THEN r
        ELSE IF verdict = "clean" THEN Cleaned(f, r, now)
        ELSE Blocked(r)

(* The history is kept for every evaluation, shadow or not.                *)
Judged(verdict, now) ==
    [f \in Findings |->
        IF verdict[f] = "clean" THEN streak[f] \union {<<now, coverage>>} ELSE {}]

-----------------------------------------------------------------------------
(* Reconciliation runs                                                     *)

(* reconcile() reads the clock before it waits for the store's row lock,   *)
(* so runs may commit in another order than their evaluation times.        *)
StartRun(p) ==
    /\ started[p] = Null
    /\ started' = [started EXCEPT ![p] = clock]
    /\ UNCHANGED <<clock, coverage, shadow, findingVars, seen>>

EndRun(p) ==
    /\ started[p] # Null
    /\ started' = [started EXCEPT ![p] = Null]
    /\ UNCHANGED <<clock, coverage, shadow, seen>>

Reconcile(p, verdict) ==
    LET now == started[p]
    IN  /\ ~shadow
        /\ \A f \in Findings : finding[f].version < MaxVersion
        /\ EndRun(p)
        /\ finding' = [f \in Findings |-> Evaluated(f, verdict[f], now)]
        /\ alerts' = [f \in Findings |->
                        IF Alerted(finding[f], verdict[f], now) THEN alerts[f] + 1 ELSE alerts[f]]
        /\ streak' = Judged(verdict, now)

(* In shadow mode the run is recorded and no finding is touched.           *)
ShadowRun(p, verdict) ==
    /\ shadow
    /\ EndRun(p)
    /\ streak' = Judged(verdict, started[p])
    /\ UNCHANGED <<finding, alerts>>

-----------------------------------------------------------------------------
(* Operators                                                               *)

Look(u, f) ==
    /\ finding[f].state # "absent"
    /\ seen' = [seen EXCEPT ![u] = [of |-> f, shown |-> finding[f]]]
    /\ UNCHANGED <<clock, coverage, shadow, findingVars, started>>

(* An action carries the version its page showed and is refused if the     *)
(* finding has another one; it replaces the finding by r.                  *)
Act(u, r) ==
    LET f == seen[u].of
    IN  /\ finding[f].state # "absent"
        /\ finding[f].version = seen[u].shown.version
        /\ finding[f].version < MaxVersion
        /\ finding' = [finding EXCEPT ![f] = [r EXCEPT !.version = finding[f].version + 1]]
        /\ UNCHANGED <<clock, coverage, shadow, alerts, started, seen>>

Acknowledge(u) ==
    LET r == finding[seen[u].of]
    IN  /\ r.state \in {"open", "reopened", "acknowledged"}
        /\ Act(u, [r EXCEPT !.state = "acknowledged"])
        /\ UNCHANGED streak

Suppress(u, until) ==
    LET r == finding[seen[u].of]
    IN  /\ r.state \in {"open", "reopened", "acknowledged", "suppressed"}
        /\ clock < until /\ until <= clock + MaxSuppress
        /\ Act(u, [r EXCEPT !.state = "suppressed", !.suppressed_until = until])
        /\ UNCHANGED streak

Note(u) ==
    /\ Act(u, finding[seen[u].of])
    /\ UNCHANGED streak

(* "resolve" only records that something was done about it.                *)
RecordRemediation(u) ==
    /\ Act(u, [finding[seen[u].of] EXCEPT !.clean_since = Null])
    /\ streak' = [streak EXCEPT ![seen[u].of] = {}]

-----------------------------------------------------------------------------
Tick ==
    /\ clock < MaxTime
    /\ clock' = clock + 1
    /\ UNCHANGED <<coverage, shadow, findingVars, started, seen>>

AdvanceCoverage ==
    /\ coverage < MaxCoverage
    /\ coverage' = coverage + 1
    /\ UNCHANGED <<clock, shadow, findingVars, started, seen>>

SwitchShadow ==
    /\ MayShadow
    /\ shadow' = ~shadow
    /\ UNCHANGED <<clock, coverage, findingVars, started, seen>>

OperatorActs(u) ==
    \/ Acknowledge(u)
    \/ \E until \in 1..(MaxTime + MaxSuppress) : Suppress(u, until)
    \/ Note(u)
    \/ RecordRemediation(u)

Next ==
    \/ \E p \in Runner :
        \/ StartRun(p)
        \/ \E verdict \in [Findings -> Verdict] :
            Reconcile(p, verdict) \/ ShadowRun(p, verdict)
    \/ \E u \in Operator :
        \/ OperatorActs(u)
        \/ \E f \in Findings : Look(u, f)
    \/ Tick
    \/ AdvanceCoverage
    \/ SwitchShadow

Spec == Init /\ [][Next]_vars

-----------------------------------------------------------------------------
(* docs/architecture.md:27: "Two consecutive clean evaluations at least    *)
(* five minutes apart resolve a finding; PI-009 also requires a coverage   *)
(* advance."  No evaluation that was not clean and no recorded remediation *)
(* lies between the two (service.py:280-289, 316-318).                     *)
CleanTwice(f) ==
    \E a, b \in streak'[f] :
        /\ b[1] - a[1] >= Gap
        /\ f \in CoverageRule => a[2] # b[2]

ResolvedAfterCleanStreak ==
    [][\A f \in Findings :
        finding[f].state # "resolved" /\ finding'[f].state = "resolved" => CleanTwice(f)]_vars

(* A page whose version is still current shows the finding as it is, so no *)
(* operator acts on a finding that changed under the page: every change    *)
(* moves lock_version (service.py:256, 276, 291, 302, 319).                *)
VersionNamesContent ==
    \A u \in Operator :
        LET now == finding[seen[u].of]
        IN  now.version = seen[u].shown.version => now = seen[u].shown

(* A finding leaves suppression early only because an operator acknowledged*)
(* it or because it was resolved; runs alone never bring it back before    *)
(* suppressed_until, however late they get the lock (service.py:249).      *)
SuppressionHolds ==
    [][\A f \in Findings :
        /\ finding[f].state = "suppressed"
        /\ finding'[f].state \in {"provisional", "open", "reopened"}
        => finding[f].suppressed_until <= clock]_vars

(* Whoever can be asked to act on a finding was alerted to it: each        *)
(* occurrence that became visible wrote a notify intent (service.py:170).  *)
OccurrencesAreAlerted ==
    \A f \in Findings :
        /\ alerts[f] >= finding[f].occurrences
        /\ finding[f].state \in {"open", "reopened", "acknowledged", "suppressed"} =>
            alerts[f] > 0
=============================================================================
