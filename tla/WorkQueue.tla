----------------------------- MODULE WorkQueue ------------------------------
(***************************************************************************)
(* The delivery protocol of src/workers/runtime.py: outbox rows are        *)
(* dispatched to an at-least-once queue under a lease, workers take a      *)
(* copy, lock the row, run its handler, and either commit the effect with  *)
(* the row or roll back and record the failure in a second transaction.    *)
(*                                                                         *)
(* One action is one transaction, or one step between two of them that a   *)
(* crash can separate.  "running" is the time the row is locked by         *)
(* SELECT FOR UPDATE; every action that writes the row waits for it.       *)
(* Time is abstracted to two flags of a row: whether available_at has      *)
(* passed (ready) and whether lease_until lies ahead (leased).             *)
(***************************************************************************)
EXTENDS Naturals, FiniteSets

CONSTANTS
    Worker,       \* worker processes of one queue class
    Work,         \* identities of outbox rows, one per dedupe key
    Exempt,       \* rows that carry the notice of the tenant's deletion
    MaxAttempts,  \* 8 in the code
    MaxCopies,    \* bound: undeleted copies of one message
    MaxFaults,    \* bound: crashes and lost copies in one behaviour
    MaxReplays    \* bound: operator replays in one behaviour

ASSUME QueueAssumption ==
    /\ Work # {}
    /\ Exempt \subseteq Work
    /\ MaxAttempts \in Nat \ {0}
    /\ MaxCopies \in Nat \ {0}
    /\ MaxFaults \in Nat
    /\ MaxReplays \in Nat

VARIABLES
    row,          \* the outbox table
    copies,       \* copies[w]: messages of w that were sent and not deleted
    worker,       \* what each worker is doing, and for which row
    active,       \* Organization.active
    effects,      \* history: committed executions of the handler of w
    reports,      \* history: recorded failures of w
    faults,       \* counts faults against MaxFaults
    replays       \* counts replays against MaxReplays

vars == <<row, copies, worker, active, effects, reports, faults, replays>>

RowStatus == {"absent", "pending", "queued", "done", "dead"}
Row == [status : RowStatus, attempts : Nat, ready : BOOLEAN, leased : BOOLEAN]

(* "running": the row is locked and the handler runs.  "report": the first *)
(* transaction is over and the failure is known to this process only.      *)
(* "ack": run_message returned True and the copy is not yet deleted.       *)
WorkerState ==
    [pc : {"idle", "running", "report", "ack"}, work : Work, permanent : BOOLEAN]

TypeOK ==
    /\ row \in [Work -> Row]
    /\ copies \in [Work -> Nat]
    /\ worker \in [Worker -> WorkerState]
    /\ active \in BOOLEAN
    /\ effects \in [Work -> Nat]
    /\ reports \in [Work -> Nat]
    /\ faults \in 0..MaxFaults
    /\ replays \in 0..MaxReplays

(* A row nobody has enqueued yet, then one as enqueue() creates it.        *)
AbsentRow == [status |-> "absent", attempts |-> 0, ready |-> TRUE, leased |-> FALSE]
NewRow == [AbsentRow EXCEPT !.status = "pending"]

IdleWorker == [pc |-> "idle", work |-> CHOOSE w \in Work : TRUE, permanent |-> FALSE]

Init ==
    /\ row = [w \in Work |-> AbsentRow]
    /\ copies = [w \in Work |-> 0]
    /\ worker = [p \in Worker |-> IdleWorker]
    /\ active = TRUE
    /\ effects = [w \in Work |-> 0]
    /\ reports = [w \in Work |-> 0]
    /\ faults = 0
    /\ replays = 0

Fault == faults < MaxFaults /\ faults' = faults + 1

At(p, pc) == worker[p].pc = pc
Rest(p) == worker' = [worker EXCEPT ![p] = IdleWorker]
Take(p, w, pc) ==
    worker' = [worker EXCEPT ![p] = [pc |-> pc, work |-> w, permanent |-> FALSE]]
Locked(w) == \E p \in Worker : At(p, "running") /\ worker[p].work = w
Open(w) == row[w].status \in {"pending", "queued"}

-----------------------------------------------------------------------------
(* Producers and the dispatcher                                            *)

(* enqueue() is get_or_create on the dedupe key: it creates the row or     *)
(* leaves it alone.  The rows of new are enqueued in the transaction that  *)
(* changes the table to f.                                                 *)
WithNew(f, new) ==
    [w \in Work |-> IF w \in new /\ row[w].status = "absent" THEN NewRow ELSE f[w]]

(* A request, the scheduler or a webhook enqueues with its own change.     *)
Enqueue(new) ==
    /\ row' = WithNew(row, new)
    /\ UNCHANGED <<copies, worker, active, effects, reports, faults, replays>>

(* Mutants: an expired lease is not looked at; dead rows are sent again.   *)
DispatchableOnce(w) == ~Locked(w) /\ row[w].ready /\ row[w].status = "pending"
DispatchableDead(w) ==
    /\ ~Locked(w)
    /\ row[w].ready
    /\ row[w].status \in {"pending", "dead"} \/ (row[w].status = "queued" /\ ~row[w].leased)

(* The rows dispatch() selects: due, not locked (skip_locked), and either  *)
(* pending or queued under a lease that ran out.                           *)
Dispatchable(w) ==
    /\ ~Locked(w)
    /\ row[w].ready
    /\ \/ row[w].status = "pending"
       \/ row[w].status = "queued" /\ ~row[w].leased

(* dispatch() sends the message and then commits the lease.                *)
Dispatch(w) ==
    /\ Dispatchable(w)
    /\ copies[w] < MaxCopies
    /\ copies' = [copies EXCEPT ![w] = @ + 1]
    /\ row' = [row EXCEPT ![w] = [@ EXCEPT !.status = "queued", !.leased = TRUE]]
    /\ UNCHANGED <<worker, active, effects, reports, faults, replays>>

(* The process dies between send_message and the commit: a copy is out     *)
(* and the row does not know.                                              *)
DispatchCrash(w) ==
    /\ Fault
    /\ Dispatchable(w)
    /\ copies[w] < MaxCopies
    /\ copies' = [copies EXCEPT ![w] = @ + 1]
    /\ UNCHANGED <<row, worker, active, effects, reports, replays>>

(* SQS moves a copy to the dead-letter queue after its receives are spent. *)
LoseCopy(w) ==
    /\ Fault
    /\ copies[w] > 0
    /\ copies' = [copies EXCEPT ![w] = @ - 1]
    /\ UNCHANGED <<row, worker, active, effects, reports, replays>>

-----------------------------------------------------------------------------
(* Mutant: the row is read without FOR UPDATE.                             *)
CanTakeUnlocked(p, w) == At(p, "idle") /\ copies[w] > 0

(* A worker takes a copy and waits for the row lock.  A copy stays out     *)
(* until it is deleted, so two workers may hold the same one.  A copy of a *)
(* row that is dead or not yet due is refused: nothing changes.            *)
CanTake(p, w) == At(p, "idle") /\ copies[w] > 0 /\ ~Locked(w)

(* Somebody finished this row: only the copy has to go.                    *)
TakeDone(p, w) ==
    /\ CanTake(p, w)
    /\ row[w].status = "done"
    /\ Take(p, w, "ack")
    /\ UNCHANGED <<row, copies, active, effects, reports, faults, replays>>

(* The tenant asked for deletion: the row is closed without being run,     *)
(* unless it carries the notice of that very deletion.                     *)
TakeDeleted(p, w) ==
    /\ CanTake(p, w)
    /\ Open(w) /\ row[w].ready
    /\ ~active /\ w \notin Exempt
    /\ row' = [row EXCEPT ![w].status = "done"]
    /\ Take(p, w, "ack")
    /\ UNCHANGED <<copies, active, effects, reports, faults, replays>>

(* Mutant: a finished row is run again when its copy comes again.          *)
BeginDone(p, w) ==
    /\ CanTake(p, w)
    /\ Open(w) \/ row[w].status = "done"
    /\ row[w].ready
    /\ active \/ w \in Exempt
    /\ Take(p, w, "running")
    /\ UNCHANGED <<row, copies, active, effects, reports, faults, replays>>

(* The row is locked and its handler starts.                               *)
Begin(p, w) ==
    /\ CanTake(p, w)
    /\ Open(w) /\ row[w].ready
    /\ active \/ w \in Exempt
    /\ Take(p, w, "running")
    /\ UNCHANGED <<row, copies, active, effects, reports, faults, replays>>

(* The handler's savepoint, the rows it enqueued and the closed row commit *)
(* in one transaction.                                                     *)
ClosedRow(r) == [r EXCEPT !.status = "done", !.leased = FALSE]

Commit(p, new) ==
    /\ At(p, "running")
    /\ LET w == worker[p].work
       IN  /\ row' = WithNew([row EXCEPT ![w] = ClosedRow(@)], new)
           /\ effects' = [effects EXCEPT ![w] = @ + 1]
           /\ Take(p, w, "ack")
    /\ UNCHANGED <<copies, active, reports, faults, replays>>

(* The handler raised: its savepoint is rolled back and the transaction    *)
(* that held the row lock ends without a word about the failure.           *)
Fail(p, permanent) ==
    /\ At(p, "running")
    /\ worker' = [worker EXCEPT ![p] = [@ EXCEPT !.pc = "report", !.permanent = permanent]]
    /\ UNCHANGED <<row, copies, active, effects, reports, faults, replays>>

(* Mutants: the budget is never spent; a status nobody knows.              *)
FailedRowForever(r, permanent) ==
    [status |-> IF permanent THEN "dead" ELSE "pending",
     attempts |-> r.attempts + 1, ready |-> FALSE, leased |-> FALSE]
FailedRowUnknown(r, permanent) ==
    [status |-> "failed", attempts |-> r.attempts + 1, ready |-> FALSE, leased |-> FALSE]

(* The row a recorded failure leaves: dead, or pending behind a backoff.   *)
FailedRow(r, permanent) ==
    LET n == r.attempts + 1
    IN  [status |-> IF permanent \/ n >= MaxAttempts THEN "dead" ELSE "pending",
         attempts |-> n, ready |-> FALSE, leased |-> FALSE]

(* Mutant: the second transaction does not wait for the row lock.          *)
ReportUnlocked(p, new) ==
    /\ At(p, "report")
    /\ LET w == worker[p].work
       IN  /\ row' = WithNew([row EXCEPT ![w] = FailedRow(@, worker[p].permanent)], new)
           /\ reports' = [reports EXCEPT ![w] = @ + 1]
    /\ Rest(p)
    /\ UNCHANGED <<copies, active, effects, faults, replays>>

(* The second transaction locks the row again and overwrites it; it does   *)
(* not look at the status the row has reached in between.  It may enqueue  *)
(* the security notice of a suspension.                                    *)
Report(p, new) ==
    /\ At(p, "report")
    /\ LET w == worker[p].work
       IN  /\ ~Locked(w)
           /\ row' = WithNew([row EXCEPT ![w] = FailedRow(@, worker[p].permanent)], new)
           /\ reports' = [reports EXCEPT ![w] = @ + 1]
    /\ Rest(p)
    /\ UNCHANGED <<copies, active, effects, faults, replays>>

(* serve() deletes the copy after run_message returned True.               *)
Ack(p) ==
    /\ At(p, "ack")
    /\ copies' = [copies EXCEPT ![worker[p].work] = IF @ > 0 THEN @ - 1 ELSE 0]
    /\ Rest(p)
    /\ UNCHANGED <<row, active, effects, reports, faults, replays>>

(* The process dies, or the deletion of the copy does not take effect: the *)
(* database rolls back what was open and the copy comes back.              *)
Crash(p) ==
    /\ Fault
    /\ ~At(p, "idle")
    /\ Rest(p)
    /\ UNCHANGED <<row, copies, active, effects, reports, replays>>

-----------------------------------------------------------------------------
(* Time, operators and the tenant                                          *)

BackoffElapses(w) ==
    /\ ~row[w].ready
    /\ row' = [row EXCEPT ![w].ready = TRUE]
    /\ UNCHANGED <<copies, worker, active, effects, reports, faults, replays>>

LeaseExpires(w) ==
    /\ row[w].leased
    /\ row' = [row EXCEPT ![w].leased = FALSE]
    /\ UNCHANGED <<copies, worker, active, effects, reports, faults, replays>>

Replay(w) ==
    /\ replays < MaxReplays
    /\ ~Locked(w)
    /\ row[w].status = "dead"
    /\ row' = [row EXCEPT ![w] = NewRow]
    /\ replays' = replays + 1
    /\ UNCHANGED <<copies, worker, active, effects, reports, faults>>

DeleteOrganization ==
    /\ active
    /\ active' = FALSE
    /\ UNCHANGED <<row, copies, worker, effects, reports, faults, replays>>

Receive(p, w) == TakeDone(p, w) \/ TakeDeleted(p, w) \/ Begin(p, w)
Finish(p) ==
    \/ \E new \in SUBSET Work : Commit(p, new)
    \/ \E permanent \in BOOLEAN : Fail(p, permanent)

Next ==
    \/ \E new \in SUBSET Work : Enqueue(new)
    \/ \E w \in Work :
        \/ Dispatch(w) \/ DispatchCrash(w) \/ LoseCopy(w)
        \/ BackoffElapses(w) \/ LeaseExpires(w) \/ Replay(w)
        \/ \E p \in Worker : Receive(p, w)
    \/ \E p \in Worker :
        \/ Finish(p) \/ Ack(p) \/ Crash(p)
        \/ \E new \in SUBSET Work : Report(p, new)
    \/ DeleteOrganization

SafeSpec == Init /\ [][Next]_vars

(* serve() loops for ever over dispatch, receive and run; handlers have    *)
(* timeouts on every call; time passes.  Nothing makes a producer enqueue, *)
(* an operator replay, a tenant leave, or a fault happen.                  *)
Fairness ==
    /\ \A w \in Work :
        /\ WF_vars(Dispatch(w))
        /\ WF_vars(BackoffElapses(w))
        /\ WF_vars(LeaseExpires(w))
        /\ WF_vars(\E p \in Worker : Receive(p, w))
    /\ \A p \in Worker :
        /\ WF_vars(Finish(p))
        /\ WF_vars(\E new \in SUBSET Work : Report(p, new))
        /\ WF_vars(Ack(p))

Spec == SafeSpec /\ Fairness

-----------------------------------------------------------------------------
(* The effect of a row is repeated only after a failure of that same row   *)
(* was recorded: redelivered, duplicated and retried copies of a message   *)
(* never run its handler again by themselves (runtime.py:180-186).         *)
RepeatsAreReported ==
    \A w \in Work :
        effects[w] <= reports[w] + (IF row[w].status = "done" THEN 1 ELSE 0)

(* While a handler runs, its row is still open and no other worker runs    *)
(* it: every writer of the row waits for the lock that the handler's       *)
(* transaction holds (runtime.py:141,180,242 and replay_work.py:24).       *)
RunningHoldsRow ==
    \A p \in Worker : At(p, "running") =>
        /\ Open(worker[p].work)
        /\ row[worker[p].work].ready
        /\ \A q \in Worker :
            At(q, "running") /\ worker[q].work = worker[p].work => q = p

(* Retries are bounded: failures that were in flight when the budget ran   *)
(* out are still counted, at most one per other worker (runtime.py:245).   *)
AttemptsBounded ==
    \A w \in Work : row[w].attempts < MaxAttempts + Cardinality(Worker)

(* test_two_workers_commit_one_effect (test_native_concurrency.py:79): an  *)
(* intent takes effect once, however many workers hold its message.        *)
OneEffect == \A w \in Work : effects[w] <= 1

(* docs/architecture.md:37: exhausted work is left for reviewed replay.    *)
(* Only replay_work takes a row out of "dead".                             *)
DeadAwaitsReview ==
    [][\A w \in Work : row[w].status = "dead" /\ row'[w].status # "dead" => Replay(w)]_vars

(* Every row that was enqueued is finished or left for review: no lost     *)
(* copy, crash or expired lease strands it (runtime.py:133-158, 205).      *)
EventuallySettled ==
    \A w \in Work : Open(w) ~> row[w].status \in {"done", "dead"}

-----------------------------------------------------------------------------
(* The queue implements the outbox contract: pending and queued are both   *)
(* "open", and a failure is unreported while a worker stands before the    *)
(* second transaction.                                                     *)
OpenStatus(s) == IF s \in {"pending", "queued"} THEN "open" ELSE s
IntentView ==
    [w \in Work |-> [status |-> OpenStatus(row[w].status), attempts |-> row[w].attempts]]
UnreportedView ==
    {[by |-> p, work |-> worker[p].work, permanent |-> worker[p].permanent] :
        p \in {q \in Worker : At(q, "report")}}

Contract == INSTANCE WorkIntent WITH intent <- IntentView, unreported <- UnreportedView
ContractSpec == Contract!Spec
=============================================================================
