----------------------- MODULE FindingLifecycleProofs -----------------------
(* Machine-checked facts about FindingLifecycle, for any number of         *)
(* findings, runners, operators and for any clock.                         *)
EXTENDS FindingLifecycle, TLAPS

-----------------------------------------------------------------------------
(* The inductive invariant                                                 *)

(* Without shadow mode, the first clean evaluation a finding remembers is  *)
(* one of the current streak.                                              *)
NeverInShadow == ~MayShadow => ~shadow
RemembersTheStreak ==
    ~MayShadow =>
        \A f \in Findings :
            finding[f].state # "resolved" /\ finding[f].clean_since # Null
                => <<finding[f].clean_since, finding[f].clean_coverage>> \in streak[f]

(* A page is never ahead of the table.                                     *)
PagesAreBehind ==
    \A u \in Operator :
        LET page == seen[u]
        IN  /\ page.shown.version <= finding[page.of].version
            /\ page.shown.version = finding[page.of].version => page.shown = finding[page.of]

(* A row that does not exist remembers nothing.                            *)
AbsentIsNew == \A f \in Findings : finding[f].state = "absent" => finding[f].clean_since = Null

(* What an operator can be asked to act on.                                *)
Visible == {"open", "reopened", "acknowledged", "suppressed"}

IInv == TypeOK /\ NeverInShadow /\ RemembersTheStreak /\ PagesAreBehind /\ AbsentIsNew

(* A proposed finding remembers no clean evaluation and has the next       *)
(* version (service.py:231-261).                                           *)
LEMMA ProposedFields ==
    ASSUME NEW r \in Finding, NEW verdict \in Verdict, NEW now \in Nat
    PROVE  LET q == Proposed(r, verdict, now)
           IN  q \in Finding /\ q.clean_since = Null /\ q.version = r.version + 1
BY DEF Proposed, Previous, Finding, State, Null

(* A clean finding has the next version and remembers this evaluation or   *)
(* the one it remembered (service.py:280-292).                             *)
LEMMA CleanedFields ==
    ASSUME NEW f \in Findings, NEW r \in Finding, NEW now \in Nat, coverage \in Nat
    PROVE  LET q == Cleaned(f, r, now)
           IN  /\ q \in Finding
               /\ q.version = r.version + 1
               /\ r.clean_since = Null => q.clean_since = now /\ q.clean_coverage = coverage
               /\ r.clean_since # Null =>
                    q.clean_since = r.clean_since /\ q.clean_coverage = r.clean_coverage
               /\ q.state = "resolved" => r.state = "resolved" \/ Resolves(f, r, now)
<1> DEFINE st == IF Resolves(f, r, now) THEN "resolved" ELSE r.state
           cc == IF r.clean_since = Null THEN coverage ELSE r.clean_coverage
           cs == IF r.clean_since = Null THEN now ELSE r.clean_since
           q == Cleaned(f, r, now)
<1>1. st \in State /\ cc \in Nat /\ cs \in Nat /\ r.version + 1 \in Nat
  BY DEF Finding, State
<1>2. q = [[[[r EXCEPT !.state = st] EXCEPT !.clean_coverage = cc] EXCEPT !.clean_since = cs]
              EXCEPT !.version = r.version + 1]
  BY DEF Cleaned, Finding
<1>3. /\ q.state = st /\ q.clean_coverage = cc /\ q.clean_since = cs /\ q.version = r.version + 1
      /\ q \in Finding
  <2> HIDE DEF st, cc, cs, q
  <2> QED
    BY <1>1, <1>2 DEF Finding
<1> QED
  BY <1>3

(* A blocked finding is as it was or has forgotten its clean evaluation    *)
(* under the next version (service.py:273-279).                            *)
LEMMA BlockedFields ==
    ASSUME NEW r \in Finding
    PROVE  LET q == Blocked(r)
           IN  /\ q \in Finding
               /\ q.clean_since = Null
               /\ q = r \/ q.version = r.version + 1
<1>1. CASE r.clean_since = Null
  BY <1>1 DEF Blocked
<1>2. CASE r.clean_since # Null
  <2> DEFINE q == Blocked(r)
  <2>1. q = [[[r EXCEPT !.clean_since = Null] EXCEPT !.clean_coverage = 0]
              EXCEPT !.version = r.version + 1]
    BY <1>2 DEF Blocked, Finding
  <2>2. Null \in Nat /\ r.version + 1 \in Nat
    BY DEF Null, Finding
  <2>3. q \in Finding /\ q.clean_since = Null /\ q.version = r.version + 1
    <3> HIDE DEF q, Null
    <3> QED
      BY <2>1, <2>2 DEF Finding
  <2> QED
    BY <2>3
<1> QED
  BY <1>1, <1>2

(* What a run makes of a finding is a finding.                             *)
LEMMA EvaluatedType ==
    ASSUME TypeOK, NEW f \in Findings, NEW verdict \in Verdict, NEW now \in Nat
    PROVE  Evaluated(f, verdict, now) \in Finding
<1> DEFINE r == finding[f]
<1>1. r \in Finding
  BY DEF TypeOK
<1>2. Proposed(r, verdict, now) \in Finding
  BY <1>1, ProposedFields
<1>3. Cleaned(f, r, now) \in Finding
  BY <1>1, CleanedFields DEF TypeOK
<1>4. Blocked(r) \in Finding
  BY <1>1, BlockedFields
<1> QED
  BY <1>1, <1>2, <1>3, <1>4 DEF Evaluated

(* A run leaves a finding alone or raises its version.                     *)
LEMMA EvaluatedVersion ==
    ASSUME TypeOK, NEW f \in Findings, NEW verdict \in Verdict, NEW now \in Nat
    PROVE  \/ Evaluated(f, verdict, now) = finding[f]
           \/ Evaluated(f, verdict, now).version > finding[f].version
<1> DEFINE r == finding[f]
<1>1. r \in Finding
  BY DEF TypeOK
<1>2. Proposed(r, verdict, now).version = r.version + 1
  BY <1>1, ProposedFields
<1>3. Cleaned(f, r, now).version = r.version + 1
  BY <1>1, CleanedFields DEF TypeOK
<1>4. Blocked(r) = r \/ Blocked(r).version = r.version + 1
  BY <1>1, BlockedFields
<1> QED
  BY <1>1, <1>2, <1>3, <1>4 DEF Evaluated, Finding

(* An unresolved finding that remembers a clean evaluation after a run     *)
(* remembers one of the streak, and this run was clean.                    *)
LEMMA EvaluatedStreak ==
    ASSUME TypeOK, NEW f \in Findings, NEW verdict \in Verdict, NEW now \in Nat,
           finding[f].state # "resolved" /\ finding[f].clean_since # Null
             => <<finding[f].clean_since, finding[f].clean_coverage>> \in streak[f],
           Evaluated(f, verdict, now).state # "resolved",
           Evaluated(f, verdict, now).clean_since # Null,
           finding[f].state = "absent" => finding[f].clean_since = Null
    PROVE  /\ verdict = "clean"
           /\ <<Evaluated(f, verdict, now).clean_since, Evaluated(f, verdict, now).clean_coverage>>
                 \in streak[f] \union {<<now, coverage>>}
<1> DEFINE r == finding[f]
<1>1. r \in Finding
  BY DEF TypeOK
<1>2. Proposed(r, verdict, now).clean_since = Null
  BY <1>1, ProposedFields
<1>3. Blocked(r).clean_since = Null
  BY <1>1, BlockedFields
<1>4. /\ verdict = "clean"
      /\ r.state \notin {"absent", "resolved"}
      /\ Evaluated(f, verdict, now) = Cleaned(f, r, now)
  BY <1>2, <1>3 DEF Evaluated, Verdict
<1> HIDE DEF Null
<1>5. CASE r.clean_since = Null
  <2>1. /\ Cleaned(f, r, now).clean_since = now
        /\ Cleaned(f, r, now).clean_coverage = coverage
    BY <1>1, <1>5, CleanedFields DEF TypeOK
  <2> QED
    BY <1>4, <2>1
<1>6. CASE r.clean_since # Null
  <2>1. /\ Cleaned(f, r, now).clean_since = r.clean_since
        /\ Cleaned(f, r, now).clean_coverage = r.clean_coverage
    BY <1>1, <1>6, CleanedFields DEF TypeOK
  <2> QED
    BY <1>4, <1>6, <2>1
<1> QED
  BY <1>4, <1>5, <1>6

-----------------------------------------------------------------------------
(* The invariant is inductive                                              *)

(* The initial states satisfy it.                                          *)
LEMMA InitIInv == Init => IInv
<1> SUFFICES ASSUME Init PROVE IInv
  OBVIOUS
<1> DEFINE f0 == CHOOSE f \in Findings : TRUE
<1>1. f0 \in Findings
  BY LifecycleAssumption
<1>2. /\ Absent \in Finding /\ Absent.clean_since = Null /\ Absent.version \in Nat
      /\ 0 \in Nat /\ Null \in Nat
  BY DEF Absent, Finding, State, Null
<1>3. [of |-> f0, shown |-> Absent] \in Page
  <2> HIDE DEF f0
  <2> QED
    BY <1>1, <1>2 DEF Page
<1>4. /\ clock \in Nat \ {Null} /\ coverage \in Nat
      /\ streak = [f \in Findings |-> {}] /\ alerts = [f \in Findings |-> 0]
      /\ started = [p \in Runner |-> Null] /\ shadow = FALSE
  BY DEF Init, Null
<1>5. /\ finding = [f \in Findings |-> Absent]
      /\ seen = [u \in Operator |-> [of |-> f0, shown |-> Absent]]
  BY DEF Init
<1>6. TypeOK
  <2> HIDE DEF f0, Null
  <2>1. finding \in [Findings -> Finding] /\ started \in [Runner -> Nat]
    BY <1>2, <1>4, <1>5
  <2>2. alerts \in [Findings -> Nat] /\ streak \in [Findings -> SUBSET (Nat \X Nat)]
    BY <1>4
  <2>3. seen \in [Operator -> Page]
    BY <1>3, <1>5
  <2>4. shadow \in BOOLEAN
    BY <1>4
  <2> QED
    BY <1>4, <2>1, <2>2, <2>3, <2>4 DEF TypeOK
<1>7. AbsentIsNew /\ RemembersTheStreak /\ NeverInShadow
  <2> HIDE DEF f0, Null, Absent
  <2> QED
    BY <1>2, <1>4, <1>5 DEF AbsentIsNew, RemembersTheStreak, NeverInShadow
<1>8. PagesAreBehind
  <2> HIDE DEF f0, Absent
  <2> QED
    BY <1>1, <1>2, <1>5 DEF PagesAreBehind
<1> QED
  BY <1>6, <1>7, <1>8 DEF IInv

(* The record an operator's action writes.                                 *)
LEMMA ActFields ==
    ASSUME TypeOK, NEW u \in Operator, NEW r \in Finding, Act(u, r)
    PROVE  LET f == seen[u].of
               q == finding'[f]
           IN  /\ f \in Findings
               /\ finding' = [finding EXCEPT ![f] = q]
               /\ q \in Finding
               /\ q.version = finding[f].version + 1
               /\ q.state = r.state /\ q.clean_since = r.clean_since
               /\ q.clean_coverage = r.clean_coverage /\ q.occurrences = r.occurrences
               /\ finding[f].version = seen[u].shown.version
<1> DEFINE f == seen[u].of
           n == finding[f].version + 1
           q == [r EXCEPT !.version = n]
<1>1. f \in Findings /\ finding[f] \in Finding /\ n \in Nat
  BY DEF TypeOK, Page, Finding
<1>2. finding' = [finding EXCEPT ![f] = q] /\ finding[f].version = seen[u].shown.version
  BY DEF Act
<1>3. finding'[f] = q
  BY <1>1, <1>2 DEF TypeOK
<1>4. /\ q \in Finding /\ q.version = n /\ q.state = r.state
      /\ q.clean_since = r.clean_since /\ q.clean_coverage = r.clean_coverage
      /\ q.occurrences = r.occurrences
  <2> HIDE DEF n
  <2> QED
    BY <1>1 DEF Finding
<1> QED
  BY <1>1, <1>2, <1>3, <1>4

(* What any action of an operator does to the finding of its page.         *)
LEMMA OperatorChange ==
    ASSUME TypeOK, NEW u \in Operator, OperatorActs(u)
    PROVE  LET f == seen[u].of
               q == finding'[f]
           IN  /\ f \in Findings
               /\ finding' = [finding EXCEPT ![f] = q]
               /\ q \in Finding
               /\ q.version = finding[f].version + 1
               /\ q.state # "absent"
               /\ q.state = "resolved" <=> finding[f].state = "resolved"
               /\ q.clean_coverage = finding[f].clean_coverage
               /\ q.occurrences = finding[f].occurrences
               /\ \/ q.state = finding[f].state
                  \/ finding[f].state \in Visible /\ q.state \in {"acknowledged", "suppressed"}
               /\ \/ q.clean_since = finding[f].clean_since /\ streak' = streak
                  \/ q.clean_since = Null /\ streak' = [streak EXCEPT ![f] = {}]
               /\ UNCHANGED <<clock, coverage, shadow, alerts, started, seen>>
<1> DEFINE f == seen[u].of
           r == finding[f]
           q == finding'[f]
           Changes(x) ==
               /\ finding' = [finding EXCEPT ![f] = q]
               /\ q \in Finding
               /\ q.version = r.version + 1
               /\ q.state = x.state /\ q.clean_since = x.clean_since
               /\ q.clean_coverage = x.clean_coverage /\ q.occurrences = x.occurrences
               /\ r.state # "absent"
               /\ UNCHANGED <<clock, coverage, shadow, alerts, started, seen>>
<1>1. f \in Findings /\ r \in Finding
  BY DEF TypeOK, Page
<1>2. ASSUME NEW x \in Finding, Act(u, x)
      PROVE  Changes(x)
  <2>1. r.state # "absent" /\ UNCHANGED <<clock, coverage, shadow, alerts, started, seen>>
    BY <1>2 DEF Act
  <2> QED
    BY <1>2, <2>1, ActFields
<1>3. CASE Acknowledge(u)
  <2> DEFINE x == [r EXCEPT !.state = "acknowledged"]
  <2>1. x \in Finding /\ x.state = "acknowledged" /\ x.clean_since = r.clean_since
        /\ x.clean_coverage = r.clean_coverage /\ x.occurrences = r.occurrences
    BY <1>1 DEF Finding, State
  <2>2. Act(u, x) /\ streak' = streak /\ r.state # "resolved" /\ r.state \in Visible
    BY <1>3 DEF Acknowledge, Visible
  <2>3. Changes(x)
    BY <1>2, <2>1, <2>2
  <2> QED
    BY <1>1, <2>1, <2>2, <2>3
<1>4. ASSUME NEW until \in 1..(MaxTime + MaxSuppress), Suppress(u, until)
      PROVE  /\ Changes([r EXCEPT !.state = "suppressed", !.suppressed_until = until])
             /\ q.state = "suppressed" /\ q.clean_since = r.clean_since
             /\ q.clean_coverage = r.clean_coverage /\ streak' = streak
             /\ q.occurrences = r.occurrences
             /\ r.state # "resolved" /\ r.state \in Visible
  <2> DEFINE x == [r EXCEPT !.state = "suppressed", !.suppressed_until = until]
  <2>1. x \in Finding /\ x.state = "suppressed" /\ x.clean_since = r.clean_since
        /\ x.clean_coverage = r.clean_coverage /\ x.occurrences = r.occurrences
    <3>1. x = [[r EXCEPT !.state = "suppressed"] EXCEPT !.suppressed_until = until]
      BY <1>1 DEF Finding
    <3>2. until \in Nat
      BY LifecycleAssumption
    <3> HIDE DEF x
    <3> QED
      BY <1>1, <3>1, <3>2 DEF Finding, State
  <2>2. Act(u, x) /\ streak' = streak /\ r.state # "resolved" /\ r.state \in Visible
    BY <1>4 DEF Suppress, Visible
  <2>3. Changes(x)
    BY <1>2, <2>1, <2>2
  <2> QED
    BY <2>1, <2>2, <2>3
<1>5. CASE Note(u)
  <2>1. Act(u, r) /\ streak' = streak
    BY <1>5 DEF Note
  <2>2. Changes(r)
    BY <1>1, <1>2, <2>1
  <2> QED
    BY <1>1, <2>1, <2>2
<1>6. CASE RecordRemediation(u)
  <2> DEFINE x == [r EXCEPT !.clean_since = Null]
  <2>1. x \in Finding /\ x.state = r.state /\ x.clean_since = Null
        /\ x.clean_coverage = r.clean_coverage /\ x.occurrences = r.occurrences
    BY <1>1 DEF Finding, Null
  <2>2. Act(u, x) /\ streak' = [streak EXCEPT ![f] = {}]
    BY <1>6 DEF RecordRemediation
  <2>3. Changes(x)
    BY <1>2, <2>1, <2>2
  <2> QED
    BY <1>1, <2>1, <2>2, <2>3
<1> QED
  BY <1>1, <1>3, <1>4, <1>5, <1>6 DEF OperatorActs

(* A run keeps the invariant.                                              *)
LEMMA RunStep ==
    ASSUME IInv, NEW p \in Runner, NEW verdict \in [Findings -> Verdict],
           Reconcile(p, verdict)
    PROVE  IInv'
<1> DEFINE now == started[p]
<1>1. TypeOK /\ NeverInShadow /\ RemembersTheStreak /\ PagesAreBehind /\ AbsentIsNew
  BY DEF IInv
<1>2. /\ now \in Nat
      /\ finding' = [f \in Findings |-> Evaluated(f, verdict[f], now)]
      /\ streak' = Judged(verdict, now)
      /\ started' = [started EXCEPT ![p] = Null]
      /\ UNCHANGED <<clock, coverage, shadow, seen>>
  BY <1>1 DEF TypeOK, Reconcile, EndRun
<1>3. \A f \in Findings :
        /\ finding'[f] = Evaluated(f, verdict[f], now)
        /\ verdict[f] \in Verdict
        /\ streak'[f] = IF verdict[f] = "clean" THEN streak[f] \union {<<now, coverage>>} ELSE {}
  BY <1>2 DEF Judged
<1>4. TypeOK'
  <2>1. finding' \in [Findings -> Finding]
    BY <1>1, <1>2, EvaluatedType
  <2>2. alerts' \in [Findings -> Nat]
    BY <1>1 DEF Reconcile, TypeOK
  <2>3. streak' \in [Findings -> SUBSET (Nat \X Nat)]
    BY <1>1, <1>2 DEF TypeOK, Judged
  <2>4. started' \in [Runner -> Nat]
    BY <1>1, <1>2 DEF TypeOK, Null
  <2> QED
    BY <1>1, <1>2, <2>1, <2>2, <2>3, <2>4 DEF TypeOK
<1>5. RemembersTheStreak'
  <2> SUFFICES ASSUME ~MayShadow, NEW f \in Findings,
                      finding'[f].state # "resolved", finding'[f].clean_since # Null
               PROVE  <<finding'[f].clean_since, finding'[f].clean_coverage>> \in streak'[f]
    BY DEF RemembersTheStreak
  <2>1. finding[f].state # "resolved" /\ finding[f].clean_since # Null
          => <<finding[f].clean_since, finding[f].clean_coverage>> \in streak[f]
    BY <1>1 DEF RemembersTheStreak
  <2>2. finding[f].state = "absent" => finding[f].clean_since = Null
    BY <1>1 DEF AbsentIsNew
  <2>3. /\ verdict[f] = "clean"
        /\ <<Evaluated(f, verdict[f], now).clean_since,
             Evaluated(f, verdict[f], now).clean_coverage>>
              \in streak[f] \union {<<now, coverage>>}
    BY <1>1, <1>2, <1>3, <2>1, <2>2, EvaluatedStreak
  <2> QED
    BY <1>3, <2>3
<1>6. PagesAreBehind'
  <2> SUFFICES ASSUME NEW u \in Operator
               PROVE  LET page == seen[u]
                      IN  /\ page.shown.version <= finding'[page.of].version
                          /\ page.shown.version = finding'[page.of].version
                               => page.shown = finding'[page.of]
    BY <1>2 DEF PagesAreBehind
  <2> DEFINE f == seen[u].of
  <2>1. /\ f \in Findings /\ seen[u].shown.version \in Nat
        /\ finding[f].version \in Nat /\ finding'[f].version \in Nat
    BY <1>1, <1>4 DEF TypeOK, Page, Finding
  <2>2. finding'[f] = finding[f] \/ finding'[f].version > finding[f].version
    BY <1>1, <1>2, <1>3, <2>1, EvaluatedVersion
  <2>3. /\ seen[u].shown.version <= finding[f].version
        /\ seen[u].shown.version = finding[f].version => seen[u].shown = finding[f]
    BY <1>1 DEF PagesAreBehind
  <2> QED
    BY <2>1, <2>2, <2>3
<1>7. AbsentIsNew'
  <2> SUFFICES ASSUME NEW f \in Findings, finding'[f].state = "absent"
               PROVE  finding'[f].clean_since = Null
    BY DEF AbsentIsNew
  <2>1. finding[f] \in Finding
    BY <1>1 DEF TypeOK
  <2>2. CASE finding[f].state = "absent" /\ verdict[f] \notin {"ready", "early"}
    BY <1>1, <1>3, <2>2 DEF AbsentIsNew, Evaluated
  <2>3. Evaluated(f, verdict[f], now).state = "absent"
    BY <1>3
  <2>4. Proposed(finding[f], verdict[f], now).state # "absent"
    BY <2>1 DEF Proposed, Previous
  <2>5. Blocked(finding[f]).state = finding[f].state
    BY <2>1 DEF Blocked, Finding
  <2>6. Cleaned(f, finding[f], now).state \in {finding[f].state, "resolved"}
    BY <2>1 DEF Cleaned, Finding
  <2> QED
    BY <2>2, <2>3, <2>4, <2>5, <2>6 DEF Evaluated
<1>8. NeverInShadow'
  BY <1>1, <1>2 DEF NeverInShadow
<1> QED
  BY <1>4, <1>5, <1>6, <1>7, <1>8 DEF IInv

(* An operator's action keeps the invariant.                               *)
LEMMA OperatorStep ==
    ASSUME IInv, NEW u \in Operator, OperatorActs(u)
    PROVE  IInv'
<1> DEFINE f == seen[u].of
           q == finding'[f]
<1>1. TypeOK /\ NeverInShadow /\ RemembersTheStreak /\ PagesAreBehind /\ AbsentIsNew
  BY DEF IInv
<1>2. /\ f \in Findings
      /\ finding' = [finding EXCEPT ![f] = q]
      /\ q \in Finding
      /\ q.version = finding[f].version + 1
      /\ q.state # "absent"
      /\ q.state = "resolved" <=> finding[f].state = "resolved"
      /\ q.clean_coverage = finding[f].clean_coverage
      /\ \/ q.clean_since = finding[f].clean_since /\ streak' = streak
         \/ q.clean_since = Null /\ streak' = [streak EXCEPT ![f] = {}]
      /\ UNCHANGED <<clock, coverage, shadow, alerts, started, seen>>
  BY <1>1, OperatorChange
<1>3. \A g \in Findings : g # f => finding'[g] = finding[g] /\ streak'[g] = streak[g]
  <2> HIDE DEF q
  <2> QED
    BY <1>1, <1>2 DEF TypeOK
<1>4. TypeOK'
  <2> HIDE DEF q
  <2>1. finding' \in [Findings -> Finding] /\ streak' \in [Findings -> SUBSET (Nat \X Nat)]
    BY <1>1, <1>2 DEF TypeOK
  <2> QED
    BY <1>1, <1>2, <2>1 DEF TypeOK
<1>5. RemembersTheStreak'
  <2> SUFFICES ASSUME ~MayShadow, NEW g \in Findings,
                      finding'[g].state # "resolved", finding'[g].clean_since # Null
               PROVE  <<finding'[g].clean_since, finding'[g].clean_coverage>> \in streak'[g]
    BY DEF RemembersTheStreak
  <2>1. CASE g = f
    <3>1. finding'[f].clean_since = finding[f].clean_since /\ streak' = streak
      BY <1>2, <2>1
    <3> QED
      BY <1>1, <1>2, <2>1, <3>1 DEF RemembersTheStreak
  <2>2. CASE g # f
    BY <1>1, <1>3, <2>2 DEF RemembersTheStreak
  <2> QED
    BY <2>1, <2>2
<1>6. PagesAreBehind'
  <2> SUFFICES ASSUME NEW v \in Operator
               PROVE  LET page == seen[v]
                      IN  /\ page.shown.version <= finding'[page.of].version
                          /\ page.shown.version = finding'[page.of].version
                               => page.shown = finding'[page.of]
    BY <1>2 DEF PagesAreBehind
  <2>1. seen[v].shown.version \in Nat /\ finding[f].version \in Nat
    BY <1>1, <1>2 DEF TypeOK, Page, Finding
  <2>2. /\ seen[v].shown.version <= finding[seen[v].of].version
        /\ seen[v].shown.version = finding[seen[v].of].version
             => seen[v].shown = finding[seen[v].of]
    BY <1>1 DEF PagesAreBehind
  <2>3. CASE seen[v].of = f
    BY <1>2, <2>1, <2>2, <2>3
  <2>4. CASE seen[v].of # f
    BY <1>1, <1>3, <2>2, <2>4 DEF TypeOK, Page
  <2> QED
    BY <2>3, <2>4
<1>7. AbsentIsNew'
  BY <1>1, <1>2, <1>3 DEF AbsentIsNew
<1>8. NeverInShadow'
  BY <1>1, <1>2 DEF NeverInShadow
<1> QED
  BY <1>4, <1>5, <1>6, <1>7, <1>8 DEF IInv

(* A run in shadow mode keeps it: then the streak is not claimed.          *)
LEMMA ShadowStep ==
    ASSUME IInv, NEW p \in Runner, NEW verdict \in [Findings -> Verdict],
           ShadowRun(p, verdict)
    PROVE  IInv'
<1>1. /\ shadow /\ finding' = finding /\ alerts' = alerts
      /\ streak' = Judged(verdict, started[p])
      /\ started' = [started EXCEPT ![p] = Null]
      /\ UNCHANGED <<clock, coverage, shadow, seen>>
  BY DEF ShadowRun, EndRun
<1>2. TypeOK'
  <2>1. started[p] \in Nat /\ started' \in [Runner -> Nat]
    BY <1>1 DEF IInv, TypeOK, Null
  <2>2. streak' \in [Findings -> SUBSET (Nat \X Nat)]
    BY <1>1, <2>1 DEF IInv, TypeOK, Judged
  <2> QED
    BY <1>1, <2>1, <2>2 DEF IInv, TypeOK
<1>3. MayShadow
  BY <1>1 DEF IInv, NeverInShadow
<1> QED
  BY <1>1, <1>2, <1>3 DEF IInv, NeverInShadow, RemembersTheStreak, PagesAreBehind, AbsentIsNew

(* The steps that leave the findings and their history alone.              *)
LEMMA QuietStep ==
    ASSUME IInv, UNCHANGED findingVars, clock' \in Nat \ {Null}, coverage' \in Nat,
           shadow' \in BOOLEAN, shadow' => MayShadow, started' \in [Runner -> Nat],
           \/ seen' = seen
           \/ \E u \in Operator, f \in Findings :
                seen' = [seen EXCEPT ![u] = [of |-> f, shown |-> finding[f]]]
    PROVE  IInv'
<1>1. finding' = finding /\ alerts' = alerts /\ streak' = streak
  BY DEF findingVars
<1>2. seen' \in [Operator -> Page] /\ PagesAreBehind'
  <2>1. CASE seen' = seen
    BY <1>1, <2>1 DEF IInv, TypeOK, PagesAreBehind
  <2>2. ASSUME NEW u \in Operator, NEW f \in Findings,
               seen' = [seen EXCEPT ![u] = [of |-> f, shown |-> finding[f]]]
        PROVE  seen' \in [Operator -> Page] /\ PagesAreBehind'
    <3>1. finding[f] \in Finding /\ finding[f].version \in Nat
      BY DEF IInv, TypeOK, Finding
    <3>2. seen' \in [Operator -> Page]
      BY <2>2, <3>1 DEF IInv, TypeOK, Page
    <3>3. seen'[u] = [of |-> f, shown |-> finding[f]]
      BY <2>2 DEF IInv, TypeOK
    <3>4. \A v \in Operator : v # u => seen'[v] = seen[v]
      BY <2>2 DEF IInv, TypeOK
    <3>5. PagesAreBehind'
      BY <1>1, <3>1, <3>3, <3>4 DEF IInv, PagesAreBehind
    <3> QED
      BY <3>2, <3>5
  <2> QED
    BY <2>1, <2>2
<1> QED
  BY <1>1, <1>2 DEF IInv, TypeOK, NeverInShadow, RemembersTheStreak, AbsentIsNew

(* Every step keeps the invariant.                                         *)
LEMMA NextIInv == IInv /\ [Next]_vars => IInv'
<1> SUFFICES ASSUME IInv, [Next]_vars PROVE IInv'
  OBVIOUS
<1> USE DEF findingVars
<1>1. ASSUME NEW p \in Runner, StartRun(p) PROVE IInv'
  <2>1. started' \in [Runner -> Nat]
    BY <1>1 DEF StartRun, IInv, TypeOK
  <2> QED
    BY <1>1, <2>1, QuietStep DEF StartRun, IInv, TypeOK, NeverInShadow
<1>2. ASSUME NEW p \in Runner, NEW verdict \in [Findings -> Verdict], Reconcile(p, verdict)
      PROVE  IInv'
  BY <1>2, RunStep
<1>3. ASSUME NEW p \in Runner, NEW verdict \in [Findings -> Verdict], ShadowRun(p, verdict)
      PROVE  IInv'
  BY <1>3, ShadowStep
<1>4. ASSUME NEW u \in Operator, OperatorActs(u) PROVE IInv'
  BY <1>4, OperatorStep
<1>5. ASSUME NEW u \in Operator, NEW f \in Findings, Look(u, f) PROVE IInv'
  BY <1>5, QuietStep DEF Look, IInv, TypeOK, NeverInShadow
<1>6. CASE Tick
  <2>1. clock' \in Nat \ {Null}
    BY <1>6 DEF Tick, IInv, TypeOK, Null
  <2> QED
    BY <1>6, <2>1, QuietStep DEF Tick, IInv, TypeOK, NeverInShadow
<1>7. CASE AdvanceCoverage
  BY <1>7, QuietStep DEF AdvanceCoverage, IInv, TypeOK, NeverInShadow
<1>8. CASE SwitchShadow
  <2>1. shadow' \in BOOLEAN
    BY <1>8 DEF SwitchShadow
  <2> QED
    BY <1>8, <2>1, QuietStep DEF SwitchShadow, IInv, TypeOK
<1>9. CASE UNCHANGED vars
  BY <1>9, QuietStep DEF vars, IInv, TypeOK, NeverInShadow
<1> QED
  BY <1>1, <1>2, <1>3, <1>4, <1>5, <1>6, <1>7, <1>8, <1>9 DEF Next

-----------------------------------------------------------------------------
(* The theorems                                                            *)

(* The invariant holds in every reachable state.                           *)
THEOREM LifecycleInvariance == Spec => []IInv
BY InitIInv, NextIInv, PTL DEF Spec

(* Every variable keeps its type.                                          *)
THEOREM LifecycleTypes == Spec => []TypeOK
<1>1. IInv => TypeOK
  BY DEF IInv
<1> QED
  BY <1>1, LifecycleInvariance, PTL

(* Optimistic locking: a page whose version is current is current.         *)
THEOREM PagesAreCurrent == Spec => []VersionNamesContent
<1>1. IInv => VersionNamesContent
  BY DEF IInv, PagesAreBehind, VersionNamesContent
<1> QED
  BY <1>1, LifecycleInvariance, PTL

(* A run that resolves a finding was clean, and found an earlier clean     *)
(* evaluation of the same streak far enough back.                          *)
LEMMA ResolveStep ==
    ASSUME IInv, ~MayShadow, [Next]_vars, NEW f \in Findings,
           finding[f].state # "resolved", finding'[f].state = "resolved"
    PROVE  CleanTwice(f)
<1>1. TypeOK /\ RemembersTheStreak
  BY DEF IInv
<1>2. ASSUME NEW p \in Runner, NEW verdict \in [Findings -> Verdict], Reconcile(p, verdict)
      PROVE  CleanTwice(f)
  <2> DEFINE now == started[p]
             r == finding[f]
  <2>1. /\ now \in Nat /\ r \in Finding /\ verdict[f] \in Verdict /\ coverage \in Nat
        /\ finding'[f] = Evaluated(f, verdict[f], now)
        /\ streak'[f] = IF verdict[f] = "clean" THEN streak[f] \union {<<now, coverage>>} ELSE {}
    BY <1>1, <1>2 DEF TypeOK, Reconcile, Judged
  <2>2. Proposed(r, verdict[f], now).state # "resolved" \/ r.state = "resolved"
    <3>1. r.state # "resolved"
      OBVIOUS
    <3>2. Previous(r) # "resolved"
      BY <3>1 DEF Previous
    <3> QED
      BY <3>2 DEF Proposed
  <2>3. Blocked(r).state = r.state
    BY <2>1 DEF Blocked, Finding
  <2>4. verdict[f] = "clean" /\ Cleaned(f, r, now).state = "resolved"
    BY <2>1, <2>2, <2>3 DEF Evaluated
  <2>5. Resolves(f, r, now)
    BY <2>1, <2>4, CleanedFields
  <2>6. <<r.clean_since, r.clean_coverage>> \in streak[f]
    BY <1>1, <2>5 DEF RemembersTheStreak, Resolves
  <2> DEFINE a == <<r.clean_since, r.clean_coverage>>
             b == <<now, coverage>>
  <2>7. a \in streak'[f] /\ b \in streak'[f]
    BY <2>1, <2>4, <2>6
  <2>8. b[1] - a[1] >= Gap /\ (f \in CoverageRule => a[2] # b[2])
    BY <2>5 DEF Resolves
  <2> QED
    BY <2>7, <2>8 DEF CleanTwice
<1>3. ASSUME NEW u \in Operator, OperatorActs(u) PROVE FALSE
  <2> DEFINE g == seen[u].of
             q == finding'[g]
  <2>1. /\ g \in Findings /\ finding' = [finding EXCEPT ![g] = q]
        /\ q.state = "resolved" <=> finding[g].state = "resolved"
    BY <1>1, <1>3, OperatorChange
  <2>2. g # f => finding'[f] = finding[f]
    <3> HIDE DEF q
    <3> QED
      BY <1>1, <2>1 DEF TypeOK
  <2> QED
    BY <2>1, <2>2
<1>4. CASE UNCHANGED finding
  BY <1>4
<1> QED
  BY <1>2, <1>3, <1>4
  DEF Next, StartRun, ShadowRun, Look, Tick, AdvanceCoverage, SwitchShadow, findingVars, vars

(* As long as the owner never switches shadow mode on, a finding is        *)
(* resolved by two clean evaluations of one unbroken streak, Gap apart,    *)
(* between which PI-009 saw coverage move.                                 *)
THEOREM ResolutionIsEarned ==
    ASSUME ~MayShadow
    PROVE  Spec => ResolvedAfterCleanStreak
<1>1. IInv /\ [Next]_vars =>
        [\A f \in Findings :
            finding[f].state # "resolved" /\ finding'[f].state = "resolved" => CleanTwice(f)]_vars
  BY ResolveStep
<1> QED
  BY <1>1, LifecycleInvariance, PTL DEF Spec, ResolvedAfterCleanStreak

-----------------------------------------------------------------------------
(* Suppression and alerts                                                  *)

(* A run took its time no later than now: started is no future.            *)
RunsTookTheTime == \A p \in Runner : started[p] <= clock

(* A suppressed finding that a run opens has outlived its suppression      *)
(* (service.py:245-256).                                                   *)
LEMMA SuppressedRow ==
    ASSUME TypeOK, NEW f \in Findings, NEW verdict \in Verdict, NEW now \in Nat,
           finding[f].state = "suppressed"
    PROVE  \/ Evaluated(f, verdict, now).state \in {"suppressed", "resolved"}
           \/ finding[f].suppressed_until <= now
<1> DEFINE r == finding[f]
<1>1. r \in Finding /\ r.state = "suppressed"
  BY DEF TypeOK
<1>2. Proposed(r, verdict, now).state = "suppressed" \/ r.suppressed_until <= now
  BY <1>1 DEF Proposed, Previous, Appears, Expires
<1>3. Cleaned(f, r, now).state \in {"suppressed", "resolved"}
  BY <1>1 DEF Cleaned, Finding
<1>4. Blocked(r).state = "suppressed"
  BY <1>1 DEF Blocked, Finding
<1> QED
  BY <1>1, <1>2, <1>3, <1>4 DEF Evaluated

(* A run alerts each occurrence it makes visible (service.py:156-172,      *)
(* 205-289).                                                               *)
LEMMA AlertedRow ==
    ASSUME TypeOK, NEW f \in Findings, NEW verdict \in Verdict, NEW now \in Nat
    PROVE  LET q == Evaluated(f, verdict, now)
           IN  \/ /\ Alerted(finding[f], verdict, now)
                  /\ q.occurrences <= finding[f].occurrences + 1
               \/ /\ q.occurrences = finding[f].occurrences
                  /\ q.state \in Visible => finding[f].state \in Visible
<1> DEFINE r == finding[f]
<1>1. r \in Finding /\ r.occurrences \in Nat /\ r.state \in State
  BY DEF TypeOK, Finding
<1>2. CASE verdict \in {"ready", "early"}
  <2>1. Evaluated(f, verdict, now) = Proposed(r, verdict, now)
    BY <1>2 DEF Evaluated
  <2>2. CASE Alerted(r, verdict, now)
    BY <1>1, <2>1, <2>2 DEF Proposed
  <2>3. CASE ~Alerted(r, verdict, now)
    <3>1. Proposed(r, verdict, now).occurrences = r.occurrences
      BY <2>3 DEF Proposed, Alerted
    <3>2. Proposed(r, verdict, now).state = Previous(r)
      BY <2>3 DEF Proposed, Alerted
    <3> QED
      BY <2>1, <3>1, <3>2 DEF Previous, Visible
  <2> QED
    BY <2>2, <2>3
<1>3. CASE verdict = "clean"
  BY <1>1, <1>3 DEF Evaluated, Cleaned, Finding, Visible
<1>4. CASE verdict = "blocked"
  BY <1>1, <1>4 DEF Evaluated, Blocked, Finding
<1> QED
  BY <1>2, <1>3, <1>4 DEF Verdict

(* The clock never runs back under a run (service.py:174-178).             *)
LEMMA RunsTookTheTimeStep ==
    ASSUME IInv, RunsTookTheTime, [Next]_vars
    PROVE  RunsTookTheTime'
<1>1. clock \in Nat /\ \A p \in Runner : started[p] \in Nat
  BY DEF IInv, TypeOK
<1>2. clock' \in Nat /\ clock <= clock'
  <2>1. clock' = clock \/ clock' = clock + 1
    BY DEF Next, StartRun, Reconcile, ShadowRun, EndRun, OperatorActs, Acknowledge, Suppress,
       Note, RecordRemediation, Act, Look, Tick, AdvanceCoverage, SwitchShadow, vars
  <2> QED
    BY <1>1, <2>1
<1>3. \A p \in Runner : started'[p] \in {started[p], clock, Null}
  <2>1. started \in [Runner -> Nat]
    BY DEF IInv, TypeOK
  <2>2. ASSUME NEW p \in Runner, started' = [started EXCEPT ![p] = clock] PROVE <1>3!:
    BY <2>1, <2>2
  <2>3. ASSUME NEW p \in Runner, started' = [started EXCEPT ![p] = Null] PROVE <1>3!:
    BY <2>1, <2>3
  <2>4. CASE UNCHANGED started
    BY <2>4
  <2> QED
    BY <2>2, <2>3, <2>4 DEF Next, StartRun, Reconcile, ShadowRun, EndRun, OperatorActs,
       Acknowledge, Suppress, Note, RecordRemediation, Act, Look, Tick, AdvanceCoverage,
       SwitchShadow, vars
<1>4. \A p \in Runner : started'[p] <= clock'
  BY <1>1, <1>2, <1>3 DEF RunsTookTheTime, Null
<1> QED
  BY <1>4 DEF RunsTookTheTime

(* What one step does to one finding and its alerts.                       *)
LEMMA OneFinding ==
    ASSUME IInv, [Next]_vars, NEW f \in Findings
    PROVE  \/ /\ \E p \in Runner, verdict \in Verdict :
                   /\ finding'[f] = Evaluated(f, verdict, started[p])
                   /\ alerts'[f] = IF Alerted(finding[f], verdict, started[p])
                                   THEN alerts[f] + 1 ELSE alerts[f]
           \/ /\ alerts' = alerts /\ finding'[f].occurrences = finding[f].occurrences
              /\ \/ finding'[f].state = finding[f].state
                 \/ /\ finding[f].state \in Visible
                    /\ finding'[f].state \in {"acknowledged", "suppressed"}
<1>1. TypeOK
  BY DEF IInv
<1>2. ASSUME NEW p \in Runner, NEW verdict \in [Findings -> Verdict], Reconcile(p, verdict)
      PROVE  \E v \in Verdict :
               /\ finding'[f] = Evaluated(f, v, started[p])
               /\ alerts'[f] = IF Alerted(finding[f], v, started[p])
                               THEN alerts[f] + 1 ELSE alerts[f]
  BY <1>1, <1>2 DEF Reconcile, TypeOK
<1>3. ASSUME NEW u \in Operator, OperatorActs(u)
      PROVE  /\ alerts' = alerts /\ finding'[f].occurrences = finding[f].occurrences
             /\ \/ finding'[f].state = finding[f].state
                \/ /\ finding[f].state \in Visible
                   /\ finding'[f].state \in {"acknowledged", "suppressed"}
  <2> DEFINE g == seen[u].of
             q == finding'[g]
  <2>1. /\ g \in Findings /\ finding' = [finding EXCEPT ![g] = q] /\ alerts' = alerts
        /\ q.occurrences = finding[g].occurrences
        /\ \/ q.state = finding[g].state
           \/ finding[g].state \in Visible /\ q.state \in {"acknowledged", "suppressed"}
    BY <1>1, <1>3, OperatorChange
  <2>2. g # f => finding'[f] = finding[f]
    <3> HIDE DEF q
    <3> QED
      BY <1>1, <2>1 DEF TypeOK
  <2> QED
    BY <2>1, <2>2
<1>4. CASE UNCHANGED <<finding, alerts>>
  BY <1>4
<1> QED
  BY <1>2, <1>3, <1>4
  DEF Next, StartRun, ShadowRun, Look, Tick, AdvanceCoverage, SwitchShadow, findingVars, vars

(* An operator who acts on a finding was alerted to it: a run writes a     *)
(* notify intent with each occurrence it makes visible, and operators make *)
(* none visible (service.py:156-172).                                      *)
THEOREM VisibleMeansAlerted == Spec => []OccurrencesAreAlerted
<1>1. Init => OccurrencesAreAlerted
  <2> SUFFICES ASSUME Init, NEW f \in Findings
               PROVE  /\ alerts[f] >= finding[f].occurrences
                      /\ finding[f].state \in Visible => alerts[f] > 0
    BY DEF OccurrencesAreAlerted, Visible
  <2>1. finding[f] = Absent /\ alerts[f] = 0
    BY DEF Init
  <2> QED
    BY <2>1 DEF Absent, Visible
<1>2. IInv /\ OccurrencesAreAlerted /\ [Next]_vars => OccurrencesAreAlerted'
  <2> SUFFICES ASSUME IInv, OccurrencesAreAlerted, [Next]_vars, NEW f \in Findings
               PROVE  /\ alerts'[f] >= finding'[f].occurrences
                      /\ finding'[f].state \in Visible => alerts'[f] > 0
    BY DEF OccurrencesAreAlerted, Visible
  <2>1. /\ TypeOK /\ alerts[f] \in Nat /\ finding[f].occurrences \in Nat
        /\ alerts[f] >= finding[f].occurrences
        /\ finding[f].state \in Visible => alerts[f] > 0
    BY DEF IInv, TypeOK, Finding, OccurrencesAreAlerted, Visible
  <2>2. ASSUME NEW p \in Runner, NEW verdict \in Verdict,
               finding'[f] = Evaluated(f, verdict, started[p]),
               alerts'[f] = IF Alerted(finding[f], verdict, started[p])
                            THEN alerts[f] + 1 ELSE alerts[f]
        PROVE  /\ alerts'[f] >= finding'[f].occurrences
               /\ finding'[f].state \in Visible => alerts'[f] > 0
    <3>1. started[p] \in Nat
      BY <2>1 DEF TypeOK
    <3>2. Evaluated(f, verdict, started[p]).occurrences \in Nat
      BY <2>1, <3>1, EvaluatedType DEF Finding
    <3>3. CASE Alerted(finding[f], verdict, started[p])
      BY <2>1, <2>2, <3>1, <3>2, <3>3, AlertedRow
    <3>4. CASE ~Alerted(finding[f], verdict, started[p])
      BY <2>1, <2>2, <3>1, <3>4, AlertedRow
    <3> QED
      BY <3>3, <3>4
  <2>3. {"acknowledged", "suppressed"} \subseteq Visible
    BY DEF Visible
  <2> QED
    BY <2>1, <2>2, <2>3, OneFinding
<1> QED
  BY <1>1, <1>2, LifecycleInvariance, PTL DEF Spec

(* No run, however late it gets the lock, brings a suppressed finding back *)
(* before suppressed_until (service.py:245-256).                           *)
THEOREM SuppressionIsKept == Spec => SuppressionHolds
<1>1. Init => RunsTookTheTime
  BY DEF Init, RunsTookTheTime, Null
<1>2. IInv /\ RunsTookTheTime /\ [Next]_vars => RunsTookTheTime'
  BY RunsTookTheTimeStep
<1>3. IInv /\ RunsTookTheTime /\ [Next]_vars =>
        [\A f \in Findings :
            /\ finding[f].state = "suppressed"
            /\ finding'[f].state \in {"provisional", "open", "reopened"}
            => finding[f].suppressed_until <= clock]_vars
  <2> SUFFICES ASSUME IInv, RunsTookTheTime, [Next]_vars, NEW f \in Findings,
                      finding[f].state = "suppressed",
                      finding'[f].state \in {"provisional", "open", "reopened"}
               PROVE  finding[f].suppressed_until <= clock
    OBVIOUS
  <2>1. /\ TypeOK /\ clock \in Nat /\ finding[f].suppressed_until \in Nat
        /\ \A p \in Runner : started[p] \in Nat /\ started[p] <= clock
    BY DEF IInv, TypeOK, Finding, RunsTookTheTime
  <2>2. PICK p \in Runner, verdict \in Verdict : finding'[f] = Evaluated(f, verdict, started[p])
    BY OneFinding
  <2>3. finding[f].suppressed_until <= started[p]
    BY <2>1, <2>2, SuppressedRow
  <2> QED
    BY <2>1, <2>3
<1> QED
  BY <1>1, <1>2, <1>3, LifecycleInvariance, PTL DEF Spec, SuppressionHolds

=============================================================================
