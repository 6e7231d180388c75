----------------------------- MODULE WorkIntent -----------------------------
(***************************************************************************)
(* What the outbox of LedgerGuard promises of a work intent, with no       *)
(* transport, lease, backoff or lock: an intent is accepted once, executed *)
(* in one transaction that also closes it, or failed; a failure is         *)
(* recorded by a second transaction, at any later time, on whatever the    *)
(* intent has become by then.                                              *)
(*                                                                         *)
(* src/workers/runtime.py implements this with database rows, SQS copies   *)
(* and workers (module WorkQueue, which is shown to implement this one).   *)
(* The effects of the handlers are added in module StripeIntake.           *)
(***************************************************************************)
EXTENDS Naturals

CONSTANTS
    Worker,       \* worker processes: they only name who holds a failure
    Work,         \* identities of outbox rows, one per dedupe key
    MaxAttempts   \* reported failures after which an intent is dead (8)

VARIABLES
    intent,       \* intent[w]: the status and the attempts of the row
    unreported,   \* failures seen by a worker and not yet recorded
    effects,      \* history: committed executions of the handler of w
    reports       \* history: recorded failures of w

vars == <<intent, unreported, effects, reports>>

Status == {"absent", "open", "done", "dead"}

Failure == [by : Worker, work : Work, permanent : BOOLEAN]

TypeOK ==
    /\ intent \in [Work -> [status : Status, attempts : Nat]]
    /\ unreported \in SUBSET Failure
    /\ effects \in [Work -> Nat]
    /\ reports \in [Work -> Nat]

NewIntent == [status |-> "open", attempts |-> 0]

Init ==
    /\ intent = [w \in Work |-> [status |-> "absent", attempts |-> 0]]
    /\ unreported = {}
    /\ effects = [w \in Work |-> 0]
    /\ reports = [w \in Work |-> 0]

(* The status an intent gets when its n-th failure is recorded.            *)
StatusAfterFailure(n, permanent) ==
    IF permanent \/ n >= MaxAttempts THEN "dead" ELSE "open"

-----------------------------------------------------------------------------
(* The intents f, and those of new that did not exist: a producer writes   *)
(* the intents of its change in the transaction of the change, and a       *)
(* dedupe key that exists is left alone.                                   *)
WithNew(f, new) ==
    [w \in Work |-> IF w \in new /\ intent[w].status = "absent" THEN NewIntent ELSE f[w]]

Accept(new) ==
    /\ intent' = WithNew(intent, new)
    /\ UNCHANGED <<unreported, effects, reports>>

(* The effect of the handler, the closing of the intent and the follow-up  *)
(* intents commit together.                                                *)
Execute(w, new) ==
    /\ intent[w].status = "open"
    /\ intent' = WithNew([intent EXCEPT ![w].status = "done"], new)
    /\ effects' = [effects EXCEPT ![w] = @ + 1]
    /\ UNCHANGED <<unreported, reports>>

(* Work of a tenant that asked for its deletion is closed and never run.   *)
Excuse(w) ==
    /\ intent[w].status = "open"
    /\ intent' = [intent EXCEPT ![w].status = "done"]
    /\ UNCHANGED <<unreported, effects, reports>>

(* An execution failed and was rolled back; its worker knows, the intent   *)
(* does not.                                                               *)
Fail(f) ==
    /\ intent[f.work].status = "open"
    /\ f \notin unreported
    /\ unreported' = unreported \union {f}
    /\ UNCHANGED <<intent, effects, reports>>

(* The worker dies before it records the failure.                          *)
Forget(f) ==
    /\ f \in unreported
    /\ unreported' = unreported \ {f}
    /\ UNCHANGED <<intent, effects, reports>>

(* The failure is recorded, whatever the intent has become since.          *)
FailedIntent(w, permanent) ==
    LET n == intent[w].attempts + 1
    IN  [status |-> StatusAfterFailure(n, permanent), attempts |-> n]

Report(f, new) ==
    /\ f \in unreported
    /\ unreported' = unreported \ {f}
    /\ intent' = WithNew([intent EXCEPT ![f.work] = FailedIntent(f.work, f.permanent)], new)
    /\ reports' = [reports EXCEPT ![f.work] = @ + 1]
    /\ UNCHANGED effects

(* An operator reviewed a dead intent and gives it a fresh budget.         *)
Replay(w) ==
    /\ intent[w].status = "dead"
    /\ intent' = [intent EXCEPT ![w] = NewIntent]
    /\ UNCHANGED <<unreported, effects, reports>>

Next ==
    \/ \E new \in SUBSET Work :
        \/ Accept(new)
        \/ \E w \in Work : Execute(w, new)
        \/ \E f \in Failure : Report(f, new)
    \/ \E w \in Work : Excuse(w) \/ Replay(w)
    \/ \E f \in Failure : Fail(f) \/ Forget(f)

Spec == Init /\ [][Next]_vars
=============================================================================
