-------------------------- MODULE WorkQueueProofs ---------------------------
(***************************************************************************)
(* What holds of WorkQueue for every set of workers and rows and every     *)
(* bound.  The argument: the row lock keeps a row open while its handler   *)
(* runs (RunningHoldsRow), so the commit of a handler always closes an     *)
(* open row and the count of its effects can only fall behind the count of *)
(* its recorded failures.  A row that spent its attempts is dead, and each *)
(* worker may add the one failure it knows of (SpentIsDead).  Where there  *)
(* is one worker, a row does not settle while its failure waits to be      *)
(* recorded (ReportedIsOpen).                                              *)
(***************************************************************************)
EXTENDS WorkQueue, FiniteSetTheorems, TLAPS

USE QueueAssumption

IInv == TypeOK /\ RunningHoldsRow /\ RepeatsAreReported

(* The record an idle worker holds is a worker state (runtime.py:322).     *)
LEMMA IdleWorkerType == IdleWorker \in WorkerState
  BY DEF IdleWorker, WorkerState

(* A new row and a failed row are rows (ingestion/service.py:27,           *)
(* runtime.py:245-253).                                                    *)
LEMMA RowTypes ==
  /\ AbsentRow \in Row
  /\ NewRow \in Row
  /\ \A r \in Row, b \in BOOLEAN : FailedRow(r, b) \in Row
  <1>1. AbsentRow \in Row
    BY DEF AbsentRow, Row, RowStatus
  <1>2. NewRow \in Row
    BY DEF NewRow, AbsentRow, Row, RowStatus
  <1>3. ASSUME NEW r \in Row, NEW b \in BOOLEAN PROVE FailedRow(r, b) \in Row
    <2>1. r.attempts + 1 \in Nat
      BY DEF Row
    <2> QED BY <2>1 DEF FailedRow, Row, RowStatus
  <1> QED BY <1>1, <1>2, <1>3

(* What enqueue() leaves: rows again, with every row that exists as f has  *)
(* it (ingestion/service.py:27).                                           *)
LEMMA WithNewType ==
  ASSUME NEW f \in [Work -> Row], NEW new PROVE WithNew(f, new) \in [Work -> Row]
  BY RowTypes DEF WithNew

(* enqueue() in the transaction of another change leaves a row that exists *)
(* as that change has it (ingestion/service.py:27).                        *)
LEMMA WithNewKeeps ==
  ASSUME NEW f \in [Work -> Row], NEW new, NEW w \in Work, row[w].status # "absent"
  PROVE  WithNew(f, new)[w] = f[w]
  BY DEF WithNew

(* Closing a row keeps its attempts (runtime.py:220-225).                  *)
LEMMA ClosedRowType ==
  ASSUME NEW r \in Row
  PROVE  /\ ClosedRow(r) \in Row
         /\ ClosedRow(r).status = "done"
         /\ ClosedRow(r).attempts = r.attempts
  BY DEF ClosedRow, Row, RowStatus

(* The initial state satisfies the inductive invariant.                    *)
LEMMA InitIInv == Init => IInv
  <1> SUFFICES ASSUME Init PROVE IInv
    OBVIOUS
  <1>1. TypeOK
    BY IdleWorkerType, RowTypes DEF Init, TypeOK
  <1>2. RunningHoldsRow
    BY DEF Init, RunningHoldsRow, At, IdleWorker
  <1>3. RepeatsAreReported
    BY DEF Init, RepeatsAreReported, AbsentRow
  <1> QED BY <1>1, <1>2, <1>3 DEF IInv

(* Every step of the queue has the right types: rows, copies and counters  *)
(* stay what the database columns can hold.                                *)
LEMMA TypeStep == TypeOK /\ [Next]_vars => TypeOK'
  <1> SUFFICES ASSUME TypeOK, [Next]_vars PROVE TypeOK'
    OBVIOUS
  <1> USE RowTypes, IdleWorkerType DEF TypeOK
  <1>1. ASSUME NEW new, Enqueue(new) PROVE TypeOK'
    BY <1>1, WithNewType DEF Enqueue
  <1>2. ASSUME NEW w \in Work, Dispatch(w) PROVE TypeOK'
    <2>1. [row[w] EXCEPT !.status = "queued", !.leased = TRUE] \in Row
      BY DEF Row, RowStatus
    <2> QED BY <1>2, <2>1 DEF Dispatch
  <1>3. ASSUME NEW w \in Work, DispatchCrash(w) PROVE TypeOK'
    BY <1>3 DEF DispatchCrash, Fault
  <1>4. ASSUME NEW w \in Work, LoseCopy(w) PROVE TypeOK'
    BY <1>4 DEF LoseCopy, Fault
  <1>5. ASSUME NEW w \in Work, BackoffElapses(w) PROVE TypeOK'
    BY <1>5 DEF BackoffElapses, Row
  <1>6. ASSUME NEW w \in Work, LeaseExpires(w) PROVE TypeOK'
    BY <1>6 DEF LeaseExpires, Row
  <1>7. ASSUME NEW w \in Work, Replay(w) PROVE TypeOK'
    BY <1>7 DEF Replay
  <1>8. ASSUME NEW p \in Worker, NEW w \in Work, Receive(p, w) PROVE TypeOK'
    <2>1. CASE TakeDone(p, w)
      BY <2>1 DEF TakeDone, Take, WorkerState
    <2>2. CASE TakeDeleted(p, w)
      BY <2>2 DEF TakeDeleted, Take, WorkerState, Row, RowStatus
    <2>3. CASE Begin(p, w)
      BY <2>3 DEF Begin, Take, WorkerState
    <2> QED BY <1>8, <2>1, <2>2, <2>3 DEF Receive
  <1>9. ASSUME NEW p \in Worker, Finish(p) PROVE TypeOK'
    <2>1. worker[p].work \in Work
      BY DEF WorkerState
    <2>2. ASSUME NEW new, Commit(p, new) PROVE TypeOK'
      <3>1. [row EXCEPT ![worker[p].work] = ClosedRow(@)] \in [Work -> Row]
        BY <2>1, ClosedRowType
      <3>2. row' \in [Work -> Row]
        BY <2>2, <3>1, WithNewType DEF Commit
      <3>3. worker' \in [Worker -> WorkerState] /\ effects' \in [Work -> Nat]
        BY <2>1, <2>2 DEF Commit, Take, WorkerState
      <3> QED BY <2>2, <3>2, <3>3 DEF Commit
    <2>3. ASSUME NEW b \in BOOLEAN, Fail(p, b) PROVE TypeOK'
      <3>1. [worker[p] EXCEPT !.pc = "report", !.permanent = b] \in WorkerState
        BY DEF WorkerState
      <3> QED BY <2>3, <3>1 DEF Fail
    <2> QED BY <1>9, <2>2, <2>3 DEF Finish
  <1>10. ASSUME NEW p \in Worker, NEW new, Report(p, new) PROVE TypeOK'
    <2>1. worker[p].work \in Work /\ worker[p].permanent \in BOOLEAN
      BY DEF WorkerState
    <2>2. [row EXCEPT ![worker[p].work] = FailedRow(@, worker[p].permanent)]
            \in [Work -> Row]
      BY <2>1
    <2>3. row' \in [Work -> Row]
      BY <1>10, <2>2, WithNewType DEF Report
    <2>4. worker' \in [Worker -> WorkerState] /\ reports' \in [Work -> Nat]
      BY <1>10, <2>1 DEF Report, Rest
    <2> QED BY <1>10, <2>3, <2>4 DEF Report
  <1>11. ASSUME NEW p \in Worker, Ack(p) PROVE TypeOK'
    BY <1>11 DEF Ack, Rest, WorkerState
  <1>12. ASSUME NEW p \in Worker, Crash(p) PROVE TypeOK'
    BY <1>12 DEF Crash, Fault, Rest
  <1>13. CASE DeleteOrganization
    BY <1>13 DEF DeleteOrganization
  <1>14. CASE UNCHANGED vars
    BY <1>14 DEF vars
  <1> QED
    BY <1>1, <1>2, <1>3, <1>4, <1>5, <1>6, <1>7, <1>8, <1>9, <1>10, <1>11,
       <1>12, <1>13, <1>14 DEF Next

-----------------------------------------------------------------------------
(* A row is written only while nobody runs it, or by the worker that runs  *)
(* it as it stops running: the row lock of runtime.py:141, 180 and 242.    *)
LEMMA LockStep == TypeOK /\ RunningHoldsRow /\ [Next]_vars => RunningHoldsRow'
  <1> SUFFICES ASSUME TypeOK, RunningHoldsRow, [Next]_vars PROVE RunningHoldsRow'
    OBVIOUS
  <1> USE DEF RunningHoldsRow, At, Open
  <1> DEFINE Same(w) == row'[w].status \in {"pending", "queued"} /\ row'[w].ready
  <1>1. ASSUME NEW w \in Work, ~Locked(w), worker' = worker,
               \A v \in Work \ {w} : row'[v] = row[v]
        PROVE RunningHoldsRow'
    BY <1>1 DEF Locked, TypeOK, WorkerState
  <1>2. ASSUME worker' = worker,
               \A v \in Work : Open(v) /\ row[v].ready => Same(v)
        PROVE RunningHoldsRow'
    BY <1>2 DEF TypeOK, WorkerState
  <1>3. ASSUME NEW p \in Worker, NEW u \in WorkerState, u.pc # "running",
               worker' = [worker EXCEPT ![p] = u],
               \A v \in Work : row'[v] # row[v] =>
                   ~Locked(v) \/ (At(p, "running") /\ worker[p].work = v)
        PROVE RunningHoldsRow'
    BY <1>3 DEF Locked, TypeOK, WorkerState
  <1>4. ASSUME NEW new, Enqueue(new) PROVE RunningHoldsRow'
    <2>1. \A v \in Work : Open(v) /\ row[v].ready => Same(v)
      BY <1>4, WithNewKeeps DEF Enqueue, TypeOK
    <2> QED BY <1>2, <1>4, <2>1 DEF Enqueue
  <1>5. ASSUME NEW w \in Work, Dispatch(w) PROVE RunningHoldsRow'
    BY <1>1, <1>5 DEF Dispatch, Dispatchable, TypeOK
  <1>6. ASSUME NEW w \in Work, DispatchCrash(w) PROVE RunningHoldsRow'
    BY <1>2, <1>6 DEF DispatchCrash
  <1>7. ASSUME NEW w \in Work, LoseCopy(w) PROVE RunningHoldsRow'
    BY <1>2, <1>7 DEF LoseCopy
  <1>8. ASSUME NEW w \in Work, BackoffElapses(w) PROVE RunningHoldsRow'
    <2>1. \A v \in Work : Open(v) /\ row[v].ready => Same(v)
      BY <1>8 DEF BackoffElapses, TypeOK, Row
    <2> QED BY <1>2, <1>8, <2>1 DEF BackoffElapses
  <1>9. ASSUME NEW w \in Work, LeaseExpires(w) PROVE RunningHoldsRow'
    <2>1. \A v \in Work : Open(v) /\ row[v].ready => Same(v)
      BY <1>9 DEF LeaseExpires, TypeOK, Row
    <2> QED BY <1>2, <1>9, <2>1 DEF LeaseExpires
  <1>10. ASSUME NEW w \in Work, Replay(w) PROVE RunningHoldsRow'
    BY <1>1, <1>10 DEF Replay, TypeOK
  <1>11. ASSUME NEW p \in Worker, NEW w \in Work, Receive(p, w)
         PROVE RunningHoldsRow'
    <2> DEFINE u == [pc |-> "ack", work |-> w, permanent |-> FALSE]
    <2>0. u \in WorkerState
      BY DEF WorkerState
    <2>1. CASE TakeDone(p, w)
      BY <1>3, <2>0, <2>1 DEF TakeDone, Take
    <2>2. CASE TakeDeleted(p, w)
      BY <1>3, <2>0, <2>2 DEF TakeDeleted, CanTake, Take, TypeOK
    <2>3. CASE Begin(p, w)
      BY <2>3 DEF Begin, CanTake, Take, Locked, TypeOK, WorkerState
    <2> QED BY <1>11, <2>1, <2>2, <2>3 DEF Receive
  <1>12. ASSUME NEW p \in Worker, Finish(p) PROVE RunningHoldsRow'
    <2>1. ASSUME NEW new, Commit(p, new) PROVE RunningHoldsRow'
      <3> DEFINE u == [pc |-> "ack", work |-> worker[p].work, permanent |-> FALSE]
      <3>1. u \in WorkerState
        BY DEF TypeOK, WorkerState
      <3>2. \A v \in Work : row[v].status = "absent" => ~Locked(v)
        BY DEF Locked
      <3>3. \A v \in Work : row'[v] # row[v] => ~Locked(v) \/ worker[p].work = v
        BY <2>1, <3>2 DEF Commit, WithNew, TypeOK
      <3> QED BY <1>3, <2>1, <3>1, <3>3 DEF Commit, Take
    <2>2. ASSUME NEW b \in BOOLEAN, Fail(p, b) PROVE RunningHoldsRow'
      <3> DEFINE u == [worker[p] EXCEPT !.pc = "report", !.permanent = b]
      <3>1. worker[p] \in WorkerState
        BY DEF TypeOK
      <3>2. u \in WorkerState
        BY <3>1 DEF WorkerState
      <3>3. u.pc = "report"
        BY <3>1 DEF WorkerState
      <3>4. worker' = [worker EXCEPT ![p] = u] /\ row' = row
        BY <2>2 DEF Fail
      <3> HIDE DEF u
      <3> QED BY <1>3, <3>2, <3>3, <3>4
    <2> QED BY <1>12, <2>1, <2>2 DEF Finish
  <1>13. ASSUME NEW p \in Worker, NEW new, Report(p, new) PROVE RunningHoldsRow'
    <2>1. \A v \in Work : row[v].status = "absent" => ~Locked(v)
      BY DEF Locked
    <2>2. \A v \in Work : row'[v] # row[v] => ~Locked(v)
      BY <1>13, <2>1 DEF Report, WithNew, TypeOK
    <2> QED BY <1>3, <1>13, <2>2, IdleWorkerType DEF Report, Rest, IdleWorker
  <1>14. ASSUME NEW p \in Worker, Ack(p) PROVE RunningHoldsRow'
    BY <1>3, <1>14, IdleWorkerType DEF Ack, Rest, IdleWorker
  <1>15. ASSUME NEW p \in Worker, Crash(p) PROVE RunningHoldsRow'
    BY <1>3, <1>15, IdleWorkerType DEF Crash, Rest, IdleWorker
  <1>16. CASE DeleteOrganization
    BY <1>2, <1>16 DEF DeleteOrganization
  <1>17. CASE UNCHANGED vars
    BY <1>2, <1>17 DEF vars
  <1> QED
    BY <1>4, <1>5, <1>6, <1>7, <1>8, <1>9, <1>10, <1>11, <1>12, <1>13, <1>14,
       <1>15, <1>16, <1>17 DEF Next

-----------------------------------------------------------------------------
(* An effect closes an open row, and only a recorded failure opens a done  *)
(* one: runtime.py:216-225 against runtime.py:242-254.                     *)
LEMMA EffectStep ==
  TypeOK /\ RunningHoldsRow /\ RepeatsAreReported /\ [Next]_vars
    => RepeatsAreReported'
  <1> SUFFICES ASSUME TypeOK, RunningHoldsRow, RepeatsAreReported, [Next]_vars
               PROVE  RepeatsAreReported'
    OBVIOUS
  <1> USE DEF RepeatsAreReported
  <1> DEFINE Settled(w) == row[w].status = "done" => row'[w].status = "done"
  <1>1. ASSUME effects' = effects, reports' = reports, \A w \in Work : Settled(w)
        PROVE  RepeatsAreReported'
    BY <1>1 DEF TypeOK
  <1>2. ASSUME NEW new, Enqueue(new) PROVE RepeatsAreReported'
    BY <1>1, <1>2, WithNewKeeps DEF Enqueue, TypeOK
  <1>3. ASSUME NEW w \in Work, Dispatch(w) PROVE RepeatsAreReported'
    BY <1>1, <1>3 DEF Dispatch, Dispatchable, TypeOK, Row
  <1>4. ASSUME NEW w \in Work, DispatchCrash(w) \/ LoseCopy(w)
        PROVE  RepeatsAreReported'
    BY <1>1, <1>4 DEF DispatchCrash, LoseCopy
  <1>5. ASSUME NEW w \in Work, BackoffElapses(w) \/ LeaseExpires(w)
        PROVE  RepeatsAreReported'
    <2>1. \A v \in Work : row'[v].status = row[v].status
      BY <1>5 DEF BackoffElapses, LeaseExpires, TypeOK, Row
    <2> QED BY <1>1, <1>5, <2>1 DEF BackoffElapses, LeaseExpires
  <1>6. ASSUME NEW w \in Work, Replay(w) PROVE RepeatsAreReported'
    BY <1>1, <1>6 DEF Replay, TypeOK
  <1>7. ASSUME NEW p \in Worker, NEW w \in Work, Receive(p, w)
        PROVE  RepeatsAreReported'
    <2>1. CASE TakeDone(p, w) \/ Begin(p, w)
      BY <1>1, <2>1 DEF TakeDone, Begin
    <2>2. CASE TakeDeleted(p, w)
      <3>1. \A v \in Work : Settled(v)
        BY <2>2 DEF TakeDeleted, TypeOK, Row
      <3> QED BY <1>1, <2>2, <3>1 DEF TakeDeleted
    <2> QED BY <1>7, <2>1, <2>2 DEF Receive
  <1>8. ASSUME NEW p \in Worker, NEW new, Commit(p, new) PROVE RepeatsAreReported'
    <2> DEFINE w == worker[p].work
    <2>1. w \in Work /\ row[w].status \notin {"absent", "done"}
      BY <1>8 DEF Commit, RunningHoldsRow, Open, TypeOK, WorkerState
    <2>2. effects[w] <= reports[w]
      BY <2>1 DEF TypeOK
    <2>3. /\ row'[w].status = "done"
          /\ \A v \in Work \ {w} : row[v].status = "done" => row'[v] = row[v]
      BY <1>8, <2>1, ClosedRowType DEF Commit, WithNew, TypeOK
    <2>4. effects' = [effects EXCEPT ![w] = @ + 1] /\ reports' = reports
      BY <1>8 DEF Commit
    <2> HIDE DEF w
    <2> QED BY <2>1, <2>2, <2>3, <2>4 DEF TypeOK
  <1>9. ASSUME NEW p \in Worker, NEW b \in BOOLEAN, Fail(p, b)
        PROVE  RepeatsAreReported'
    BY <1>1, <1>9 DEF Fail
  <1>10. ASSUME NEW p \in Worker, NEW new, Report(p, new) PROVE RepeatsAreReported'
    <2> DEFINE w == worker[p].work
    <2>1. w \in Work
      BY DEF TypeOK, WorkerState
    <2>2. effects[w] <= reports[w] + 1
      BY <2>1 DEF TypeOK
    <2>3. \A v \in Work \ {w} : row[v].status = "done" => row'[v] = row[v]
      BY <1>10 DEF Report, WithNew, TypeOK
    <2>4. reports' = [reports EXCEPT ![w] = @ + 1] /\ effects' = effects
      BY <1>10 DEF Report
    <2> HIDE DEF w
    <2> QED BY <2>1, <2>2, <2>3, <2>4 DEF TypeOK
  <1>11. ASSUME NEW p \in Worker, Ack(p) \/ Crash(p) PROVE RepeatsAreReported'
    BY <1>1, <1>11 DEF Ack, Crash
  <1>12. CASE DeleteOrganization \/ UNCHANGED vars
    BY <1>1, <1>12 DEF DeleteOrganization, vars
  <1> QED
    BY <1>2, <1>3, <1>4, <1>5, <1>6, <1>7, <1>8, <1>9, <1>10, <1>11, <1>12
       DEF Next, Finish

-----------------------------------------------------------------------------
(* In every reachable state of the queue its variables have their types, a *)
(* running handler holds its row, and an effect is repeated only after a   *)
(* recorded failure.                                                       *)
THEOREM Invariance == SafeSpec => []IInv
  <1>1. IInv /\ [Next]_vars => IInv'
    BY TypeStep, LockStep, EffectStep DEF IInv
  <1> QED BY <1>1, InitIInv, PTL DEF SafeSpec

(* Type correctness of the outbox, the workers and the copies.             *)
THEOREM TypeCorrect == SafeSpec => []TypeOK
  BY Invariance, PTL DEF IInv

(* A handler runs only on an open row that no other worker runs.           *)
THEOREM RowLock == SafeSpec => []RunningHoldsRow
  BY Invariance, PTL DEF IInv

(* No effect is repeated but for a recorded failure of the same row.       *)
THEOREM NoSilentRepeat == SafeSpec => []RepeatsAreReported
  BY Invariance, PTL DEF IInv

-----------------------------------------------------------------------------
(* The budget of attempts *)

(* The workers that know of a failure of w that the row does not.          *)
Reporting(w) == {p \in Worker : At(p, "report") /\ worker[p].work = w}

(* A row that has spent its budget is dead, and nobody runs a dead row: it *)
(* can only be charged with the failures that are in flight by then        *)
(* (runtime.py:245-248).                                                   *)
SpentIsDead ==
  \A w \in Work : row[w].attempts >= MaxAttempts =>
    /\ row[w].status = "dead"
    /\ row[w].attempts + Cardinality(Reporting(w)) < MaxAttempts + Cardinality(Worker)

(* A worker that goes elsewhere than to "report" reports nothing new.      *)
LEMMA ReportingLess ==
  ASSUME TypeOK, NEW p \in Worker, NEW u, u.pc # "report",
         worker' = [worker EXCEPT ![p] = u], NEW w \in Work
  PROVE  Reporting(w)' \subseteq Reporting(w)
  BY DEF Reporting, At, TypeOK

(* What a step does to the attempts of one row: it leaves them, or the row *)
(* has some left, or it records one failure that was in flight             *)
(* (runtime.py:239-254).                                                   *)
LEMMA BudgetStep ==
  ASSUME IInv, SpentIsDead, [Next]_vars, NEW w \in Work
  PROVE  \/ row'[w].attempts < MaxAttempts
         \/ /\ row'[w].attempts = row[w].attempts /\ row'[w].status = row[w].status
            /\ Reporting(w)' \subseteq Reporting(w)
         \/ \E p \in Reporting(w) :
              /\ row'[w].attempts = row[w].attempts + 1 /\ row'[w].status = "dead"
              /\ Reporting(w)' = Reporting(w) \ {p}
  <1> DEFINE Goal == \/ row'[w].attempts < MaxAttempts
                     \/ /\ row'[w].attempts = row[w].attempts /\ row'[w].status = row[w].status
                        /\ Reporting(w)' \subseteq Reporting(w)
                     \/ \E p \in Reporting(w) :
                          /\ row'[w].attempts = row[w].attempts + 1 /\ row'[w].status = "dead"
                          /\ Reporting(w)' = Reporting(w) \ {p}
  <1>0. /\ TypeOK /\ RunningHoldsRow
        /\ \A v \in Work : row[v] \in Row /\ row[v].attempts \in Nat
        /\ \A v \in Work : row[v].status # "dead" => row[v].attempts < MaxAttempts
        /\ NewRow.attempts < MaxAttempts
    BY DEF IInv, SpentIsDead, TypeOK, Row, NewRow, AbsentRow
  <1>1. ASSUME NEW f \in [Work -> Row], NEW new, row' = WithNew(f, new), f[w] = row[w],
               Reporting(w)' \subseteq Reporting(w)
        PROVE  Goal
    BY <1>0, <1>1 DEF WithNew
  <1>2. worker' = worker => Reporting(w)' = Reporting(w)
    BY DEF Reporting, At
  <1>3. ASSUME NEW new, Enqueue(new) PROVE Goal
    BY <1>0, <1>1, <1>2, <1>3 DEF Enqueue, TypeOK
  <1>4. ASSUME NEW v \in Work, Dispatch(v) \/ BackoffElapses(v) \/ LeaseExpires(v) PROVE Goal
    <2>0. worker' = worker /\ row \in [Work -> Row]
      BY <1>0, <1>4 DEF Dispatch, BackoffElapses, LeaseExpires, TypeOK
    <2> DEFINE Mild(r) == /\ row' = [row EXCEPT ![v] = r] /\ r.attempts = row[v].attempts
                          /\ row[v].status # "dead" \/ r.status = row[v].status
    <2>1. ASSUME Dispatch(v) PROVE \E r : Mild(r)
      <3> DEFINE r == [row[v] EXCEPT !.status = "queued", !.leased = TRUE]
      <3>1. row' = [row EXCEPT ![v] = r] /\ row[v].status # "dead"
        BY <2>1 DEF Dispatch, Dispatchable
      <3>2. r.attempts = row[v].attempts
        BY <1>0 DEF Row
      <3> QED BY <3>1, <3>2
    <2>2. ASSUME BackoffElapses(v) PROVE \E r : Mild(r)
      <3> DEFINE r == [row[v] EXCEPT !.ready = TRUE]
      <3>1. row' = [row EXCEPT ![v] = r]
        BY <2>2 DEF BackoffElapses
      <3>2. r.attempts = row[v].attempts /\ r.status = row[v].status
        BY <1>0 DEF Row
      <3> QED BY <3>1, <3>2
    <2>3. ASSUME LeaseExpires(v) PROVE \E r : Mild(r)
      <3> DEFINE r == [row[v] EXCEPT !.leased = FALSE]
      <3>1. row' = [row EXCEPT ![v] = r]
        BY <2>3 DEF LeaseExpires
      <3>2. r.attempts = row[v].attempts /\ r.status = row[v].status
        BY <1>0 DEF Row
      <3> QED BY <3>1, <3>2
    <2>4. \E r : Mild(r)
      BY <1>4, <2>1, <2>2, <2>3
    <2>5. /\ row'[w].attempts = row[w].attempts
          /\ row[w].status # "dead" \/ row'[w].status = row[w].status
      BY <2>0, <2>4
    <2> QED BY <1>0, <1>2, <2>0, <2>5
  <1>5. ASSUME NEW v \in Work, Replay(v) PROVE Goal
    BY <1>0, <1>2, <1>5 DEF Replay, TypeOK
  <1>6. ASSUME UNCHANGED <<row, worker>> PROVE Goal
    BY <1>2, <1>6
  <1>7. ASSUME NEW p \in Worker, NEW v \in Work, Receive(p, v) PROVE Goal
    <2>1. PICK u : u.pc # "report" /\ worker' = [worker EXCEPT ![p] = u]
      BY <1>7 DEF Receive, TakeDone, TakeDeleted, Begin, Take
    <2>2. Reporting(w)' \subseteq Reporting(w)
      BY <1>0, <2>1, ReportingLess
    <2>3. \/ row' = row
          \/ row[v].status # "dead" /\ row' = [row EXCEPT ![v].status = "done"]
      BY <1>7 DEF Receive, TakeDone, TakeDeleted, Begin, Open
    <2>4. /\ row'[w].attempts = row[w].attempts
          /\ row[w].status # "dead" \/ row'[w].status = row[w].status
      BY <1>0, <2>3 DEF TypeOK, Row
    <2> QED BY <1>0, <2>2, <2>4
  <1>8. ASSUME NEW p \in Worker, Ack(p) \/ Crash(p) PROVE Goal
    <2>1. row' = row /\ worker' = [worker EXCEPT ![p] = IdleWorker]
      BY <1>8 DEF Ack, Crash, Rest
    <2>2. Reporting(w)' \subseteq Reporting(w)
      BY <1>0, <2>1, ReportingLess DEF IdleWorker
    <2> QED BY <2>1, <2>2
  <1>9. ASSUME NEW p \in Worker, NEW new \in SUBSET Work, Commit(p, new) PROVE Goal
    <2> DEFINE v == worker[p].work
               f == [row EXCEPT ![v] = ClosedRow(@)]
    <2>1. /\ v \in Work /\ row[v].status \notin {"dead", "absent"}
          /\ row' = WithNew(f, new)
          /\ worker' = [worker EXCEPT ![p] = [pc |-> "ack", work |-> v, permanent |-> FALSE]]
      BY <1>0, <1>9 DEF Commit, Take, RunningHoldsRow, Open, TypeOK, WorkerState
    <2>2. Reporting(w)' \subseteq Reporting(w)
      BY <1>0, <2>1, ReportingLess
    <2>3. f \in [Work -> Row]
      BY <1>0, <2>1, ClosedRowType DEF TypeOK
    <2>4. CASE w = v
      <3>1. row'[w] = f[w] /\ f[w].attempts = row[w].attempts
        BY <1>0, <2>1, <2>3, <2>4, WithNewKeeps, ClosedRowType DEF TypeOK
      <3> QED BY <1>0, <2>1, <2>4, <3>1
    <2>5. CASE w # v
      <3>1. f[w] = row[w]
        BY <1>0, <2>5 DEF TypeOK
      <3> HIDE DEF f
      <3> QED BY <1>1, <2>1, <2>2, <2>3, <3>1
    <2> QED BY <2>4, <2>5
  <1>10. ASSUME NEW p \in Worker, NEW permanent \in BOOLEAN, Fail(p, permanent) PROVE Goal
    <2>1. /\ row' = row /\ At(p, "running")
          /\ worker' = [worker EXCEPT ![p] = [@ EXCEPT !.pc = "report", !.permanent = permanent]]
      BY <1>10 DEF Fail
    <2>2. CASE w = worker[p].work
      <3>1. row[w].status # "dead"
        BY <1>0, <2>1, <2>2 DEF RunningHoldsRow, Open
      <3> QED BY <1>0, <2>1, <3>1
    <2>3. CASE w # worker[p].work
      <3>1. Reporting(w)' \subseteq Reporting(w)
        BY <1>0, <2>1, <2>3 DEF Reporting, At, TypeOK, WorkerState
      <3> QED BY <2>1, <3>1
    <2> QED BY <2>2, <2>3
  <1>11. ASSUME NEW p \in Worker, NEW new \in SUBSET Work, Report(p, new) PROVE Goal
    <2> DEFINE v == worker[p].work
               b == worker[p].permanent
               f == [row EXCEPT ![v] = FailedRow(@, b)]
    <2>1. /\ v \in Work /\ b \in BOOLEAN /\ p \in Reporting(v)
          /\ row' = WithNew(f, new) /\ worker' = [worker EXCEPT ![p] = IdleWorker]
      BY <1>0, <1>11 DEF Report, Rest, Reporting, TypeOK, WorkerState
    <2>2. Reporting(w)' = Reporting(w) \ {p}
      BY <1>0, <2>1 DEF Reporting, At, IdleWorker, TypeOK
    <2>3. f \in [Work -> Row]
      BY <1>0, <2>1, RowTypes DEF TypeOK
    <2>4. CASE w = v
      <3>1. /\ FailedRow(row[w], b).attempts = row[w].attempts + 1
            /\ row[w].attempts + 1 >= MaxAttempts => FailedRow(row[w], b).status = "dead"
        BY DEF FailedRow
      <3>2. row'[w] \in {NewRow, FailedRow(row[w], b)}
        BY <1>0, <2>1, <2>4 DEF WithNew, TypeOK
      <3>3. CASE row'[w] = NewRow
        BY <1>0, <3>3
      <3>4. CASE row'[w] = FailedRow(row[w], b) /\ row[w].attempts + 1 >= MaxAttempts
        BY <2>1, <2>2, <2>4, <3>1, <3>4
      <3>5. CASE row'[w] = FailedRow(row[w], b) /\ ~(row[w].attempts + 1 >= MaxAttempts)
        BY <1>0, <3>1, <3>5
      <3> QED BY <3>2, <3>3, <3>4, <3>5
    <2>5. CASE w # v
      <3>1. f[w] = row[w]
        BY <1>0, <2>5 DEF TypeOK
      <3> HIDE DEF f
      <3> QED BY <1>1, <2>1, <2>2, <2>3, <3>1
    <2> QED BY <2>4, <2>5
  <1> HIDE DEF Goal
  <1>12. ASSUME NEW v \in Work, DispatchCrash(v) \/ LoseCopy(v) PROVE Goal
    BY <1>6, <1>12 DEF DispatchCrash, LoseCopy
  <1>13. ASSUME DeleteOrganization \/ UNCHANGED vars PROVE Goal
    BY <1>6, <1>13 DEF DeleteOrganization, vars
  <1>14. ASSUME NEW v \in Work,
                \/ Dispatch(v) \/ DispatchCrash(v) \/ LoseCopy(v)
                \/ BackoffElapses(v) \/ LeaseExpires(v) \/ Replay(v)
                \/ \E p \in Worker : Receive(p, v)
         PROVE  Goal
    <2>1. CASE Dispatch(v) \/ BackoffElapses(v) \/ LeaseExpires(v)
      BY <1>4, <2>1
    <2>2. CASE DispatchCrash(v) \/ LoseCopy(v)
      BY <1>12, <2>2
    <2>3. CASE \E p \in Worker : Receive(p, v)
      BY <1>7, <2>3
    <2> QED BY <1>5, <1>14, <2>1, <2>2, <2>3
  <1>15. ASSUME NEW p \in Worker,
                \/ Finish(p) \/ Ack(p) \/ Crash(p)
                \/ \E new \in SUBSET Work : Report(p, new)
         PROVE  Goal
    <2>1. CASE Finish(p)
      BY <1>9, <1>10, <2>1 DEF Finish
    <2>2. CASE \E new \in SUBSET Work : Report(p, new)
      BY <1>11, <2>2
    <2> QED BY <1>8, <1>15, <2>1, <2>2
  <1>16. Goal
    BY <1>3, <1>13, <1>14, <1>15 DEF Next
  <1> QED BY <1>16 DEF Goal

(* A row is charged with fewer failures than its budget and one for each   *)
(* worker, however many were in flight when the budget ran out             *)
(* (runtime.py:239-254).                                                   *)
THEOREM RetriesAreBounded ==
  ASSUME IsFiniteSet(Worker)
  PROVE  SafeSpec => []AttemptsBounded
  <1>1. Cardinality(Worker) \in Nat
    BY FS_CardinalityType
  <1>2. ASSUME NEW S, S \subseteq Worker
        PROVE  IsFiniteSet(S) /\ Cardinality(S) \in Nat /\ Cardinality(S) <= Cardinality(Worker)
    BY <1>2, FS_Subset, FS_CardinalityType
  <1>3. Init => SpentIsDead
    BY DEF Init, SpentIsDead, AbsentRow
  <1>4. IInv /\ SpentIsDead /\ [Next]_vars => SpentIsDead'
    <2> SUFFICES ASSUME IInv, SpentIsDead, [Next]_vars, NEW w \in Work,
                        row'[w].attempts >= MaxAttempts
                 PROVE  /\ row'[w].status = "dead"
                        /\ row'[w].attempts + Cardinality(Reporting(w)')
                             < MaxAttempts + Cardinality(Worker)
      BY DEF SpentIsDead, Reporting
    <2> DEFINE R == Reporting(w)
               n == row[w].attempts
    <2>1. /\ n \in Nat /\ R \subseteq Worker /\ MaxAttempts \in Nat
          /\ n >= MaxAttempts => /\ row[w].status = "dead"
                                 /\ n + Cardinality(R) < MaxAttempts + Cardinality(Worker)
      BY DEF IInv, TypeOK, Row, SpentIsDead, Reporting
    <2>2. ~(row'[w].attempts < MaxAttempts)
      BY <2>1, TypeStep DEF IInv, TypeOK, Row
    <2>3. CASE /\ row'[w].attempts = n /\ row'[w].status = row[w].status
               /\ Reporting(w)' \subseteq R
      <3>1. Cardinality(Reporting(w)') <= Cardinality(R) /\ Cardinality(Reporting(w)') \in Nat
        BY <1>2, <2>1, <2>3, FS_Subset, FS_CardinalityType
      <3> QED BY <1>1, <1>2, <2>1, <2>3, <3>1
    <2>4. ASSUME NEW p \in R, row'[w].attempts = n + 1, row'[w].status = "dead",
                 Reporting(w)' = R \ {p}
          PROVE  n + 1 + Cardinality(R \ {p}) < MaxAttempts + Cardinality(Worker)
      <3>1. Cardinality(R \ {p}) = Cardinality(R) - 1 /\ Cardinality(R) \in Nat
        BY <1>2, <2>1, FS_RemoveElement
      <3>2. Cardinality(R) <= Cardinality(Worker)
        BY <1>2, <2>1
      <3>3. n + 1 >= MaxAttempts
        BY <2>4
      <3> HIDE DEF R, n
      <3> QED BY <1>1, <2>1, <3>1, <3>2, <3>3
    <2> QED BY <2>2, <2>3, <2>4, BudgetStep
  <1>5. IInv /\ SpentIsDead => AttemptsBounded
    <2> SUFFICES ASSUME IInv, SpentIsDead, NEW w \in Work
                 PROVE  row[w].attempts < MaxAttempts + Cardinality(Worker)
      BY DEF AttemptsBounded
    <2>1. row[w].attempts \in Nat /\ Reporting(w) \subseteq Worker
      BY DEF IInv, TypeOK, Row, Reporting
    <2>2. Cardinality(Reporting(w)) \in Nat
      BY <1>2, <2>1
    <2> QED BY <1>1, <2>1, <2>2 DEF SpentIsDead
  <1> QED BY <1>3, <1>4, <1>5, Invariance, PTL DEF SafeSpec

-----------------------------------------------------------------------------
(* One worker *)

(* What a worker is about to report did not settle meanwhile: nobody else  *)
(* runs rows.                                                              *)
ReportedIsOpen == \A p \in Worker : At(p, "report") => Open(worker[p].work)

(* An effect is final: its row stays done.                                 *)
EffectsAreFinal ==
  \A w \in Work : effects[w] = 0 \/ (effects[w] = 1 /\ row[w].status = "done")

(* While one worker stands before the second transaction, no row it waits  *)
(* for is taken, finished or replayed (runtime.py:228-254).                *)
LEMMA ReportedStep ==
  ASSUME \A p, q \in Worker : p = q, IInv, ReportedIsOpen, [Next]_vars
  PROVE  ReportedIsOpen'
  <1> USE DEF ReportedIsOpen
  <1>0. row \in [Work -> Row] /\ worker \in [Worker -> WorkerState]
    BY DEF IInv, TypeOK
  <1> DEFINE StaysOpen(w) == Open(w) => row'[w].status \in {"pending", "queued"}
  <1>1. ASSUME worker' = worker, \A w \in Work : StaysOpen(w) PROVE ReportedIsOpen'
    BY <1>0, <1>1 DEF WorkerState, At, Open
  <1>2. ASSUME NEW p \in Worker, NEW u \in WorkerState, u.pc # "report",
               worker' = [worker EXCEPT ![p] = u]
        PROVE  ReportedIsOpen'
    BY <1>0, <1>2 DEF At
  <1>3. ASSUME NEW new, Enqueue(new) PROVE ReportedIsOpen'
    <2>1. \A w \in Work : StaysOpen(w)
      BY <1>0, <1>3, WithNewKeeps DEF Enqueue, Open
    <2> QED BY <1>1, <1>3, <2>1 DEF Enqueue
  <1>4. ASSUME NEW w \in Work, Dispatch(w) \/ DispatchCrash(w) \/ LoseCopy(w)
        PROVE  ReportedIsOpen'
    <2>1. CASE Dispatch(w)
      <3>1. row'[w].status = "queued" /\ \A v \in Work \ {w} : row'[v] = row[v]
        BY <1>0, <2>1 DEF Dispatch, Row
      <3>2. \A v \in Work : StaysOpen(v)
        BY <3>1 DEF Open
      <3> QED BY <1>1, <2>1, <3>2 DEF Dispatch
    <2>2. CASE DispatchCrash(w) \/ LoseCopy(w)
      BY <1>1, <2>2 DEF DispatchCrash, LoseCopy, Open
    <2> QED BY <1>4, <2>1, <2>2
  <1>5. ASSUME NEW w \in Work, BackoffElapses(w) \/ LeaseExpires(w) \/ Replay(w)
        PROVE  ReportedIsOpen'
    <2>1. \A v \in Work : StaysOpen(v)
      BY <1>0, <1>5 DEF BackoffElapses, LeaseExpires, Replay, Open, Row, NewRow, AbsentRow
    <2> QED BY <1>1, <1>5, <2>1 DEF BackoffElapses, LeaseExpires, Replay
  <1>6. ASSUME NEW p \in Worker, NEW w \in Work, Receive(p, w) PROVE ReportedIsOpen'
    <2>1. PICK pc \in {"ack", "running"} : Take(p, w, pc)
      BY <1>6 DEF Receive, TakeDone, TakeDeleted, Begin
    <2>2. [pc |-> pc, work |-> w, permanent |-> FALSE] \in WorkerState
      BY DEF WorkerState
    <2> QED BY <1>2, <2>1, <2>2 DEF Take
  <1>7. ASSUME NEW p \in Worker, NEW new, Commit(p, new) PROVE ReportedIsOpen'
    <2>1. [pc |-> "ack", work |-> worker[p].work, permanent |-> FALSE] \in WorkerState
      BY <1>0 DEF WorkerState
    <2> QED BY <1>2, <1>7, <2>1 DEF Commit, Take
  <1>8. ASSUME NEW p \in Worker, NEW b \in BOOLEAN, Fail(p, b) PROVE ReportedIsOpen'
    <2>1. Open(worker[p].work) /\ row' = row
      BY <1>8 DEF Fail, IInv, RunningHoldsRow
    <2>2. worker'[p].work = worker[p].work
      BY <1>0, <1>8 DEF Fail, WorkerState
    <2>3. \A q \in Worker : q = p
      OBVIOUS
    <2> QED BY <2>1, <2>2, <2>3 DEF Open
  <1>9. ASSUME NEW p \in Worker, Rest(p) PROVE ReportedIsOpen'
    BY <1>2, <1>9, IdleWorkerType DEF Rest, IdleWorker
  <1>10. CASE DeleteOrganization \/ UNCHANGED vars
    BY <1>0, <1>1, <1>10 DEF DeleteOrganization, vars, Open
  <1> QED
    BY <1>3, <1>4, <1>5, <1>6, <1>7, <1>8, <1>9, <1>10
       DEF Next, Finish, Ack, Crash, Report

(* A settled row changes only by a report on it or by a replay.            *)
LEMMA SettledStays ==
  ASSUME IInv, ReportedIsOpen, [Next]_vars, NEW w \in Work,
         row[w].status \in {"done", "dead"}
  PROVE  row'[w].status = row[w].status \/ (Replay(w) /\ row[w].status = "dead")
  <1>0. row \in [Work -> Row] /\ worker \in [Worker -> WorkerState]
    BY DEF IInv, TypeOK
  <1>1. ASSUME NEW new, Enqueue(new) PROVE row'[w] = row[w]
    BY <1>0, <1>1 DEF Enqueue, WithNew
  <1>2. ASSUME NEW v \in Work, Dispatch(v) PROVE row'[w] = row[w]
    BY <1>0, <1>2 DEF Dispatch, Dispatchable
  <1>3. ASSUME NEW v \in Work, BackoffElapses(v) \/ LeaseExpires(v)
        PROVE  row'[w].status = row[w].status
    BY <1>0, <1>3 DEF BackoffElapses, LeaseExpires, Row
  <1>4. ASSUME NEW v \in Work, Replay(v), v # w PROVE row'[w] = row[w]
    BY <1>0, <1>4 DEF Replay
  <1>5. ASSUME Replay(w) PROVE row[w].status = "dead"
    BY <1>5 DEF Replay
  <1>6. ASSUME NEW p \in Worker, NEW v \in Work, Receive(p, v) PROVE row'[w] = row[w]
    BY <1>0, <1>6 DEF Receive, TakeDone, TakeDeleted, Begin, Open
  <1>7. ASSUME NEW p \in Worker, NEW new, Commit(p, new) PROVE row'[w] = row[w]
    <2>1. Open(worker[p].work) /\ worker[p].work \in Work
      BY <1>0, <1>7 DEF Commit, IInv, RunningHoldsRow, WorkerState
    <2> QED BY <1>0, <1>7, <2>1 DEF Commit, WithNew, Open
  <1>8. ASSUME NEW p \in Worker, NEW new, Report(p, new) PROVE row'[w] = row[w]
    <2>1. Open(worker[p].work) /\ worker[p].work \in Work
      BY <1>0, <1>8 DEF Report, ReportedIsOpen, WorkerState
    <2> QED BY <1>0, <1>8, <2>1 DEF Report, WithNew, Open
  <1>9. ASSUME row' = row PROVE row'[w] = row[w]
    BY <1>9
  <1> QED
    BY <1>1, <1>2, <1>3, <1>4, <1>5, <1>6, <1>7, <1>8, <1>9
       DEF Next, Finish, Fail, DispatchCrash, LoseCopy, Ack, Crash, DeleteOrganization, vars

LEMMA FinalStep ==
  ASSUME IInv, ReportedIsOpen, EffectsAreFinal, [Next]_vars PROVE EffectsAreFinal'
  <1> SUFFICES ASSUME NEW w \in Work
               PROVE  effects'[w] = 0 \/ (effects'[w] = 1 /\ row'[w].status = "done")
    BY DEF EffectsAreFinal
  <1>1. effects \in [Work -> Nat] /\ row \in [Work -> Row]
        /\ worker \in [Worker -> WorkerState]
    BY DEF IInv, TypeOK
  <1>2. effects[w] = 0 \/ (effects[w] = 1 /\ row[w].status = "done")
    BY DEF EffectsAreFinal
  <1>3. row[w].status = "done" => row'[w].status = "done"
    BY SettledStays
  <1>4. CASE effects'[w] = effects[w]
    BY <1>2, <1>3, <1>4
  <1>5. ASSUME NEW p \in Worker, NEW new, Commit(p, new), effects'[w] # effects[w]
        PROVE  effects'[w] = 1 /\ row'[w].status = "done"
    <2>1. worker[p].work = w /\ effects'[w] = effects[w] + 1
      BY <1>1, <1>5 DEF Commit, WorkerState
    <2>2. Open(w)
      BY <1>5, <2>1 DEF Commit, IInv, RunningHoldsRow
    <2>3. effects[w] = 0
      BY <1>2, <2>2 DEF Open
    <2>4. row'[w] = ClosedRow(row[w])
      BY <1>1, <1>5, <2>1, <2>2 DEF Commit, WithNew, Open
    <2> QED BY <1>1, <2>1, <2>3, <2>4, ClosedRowType
  <1>6. (\A p \in Worker : \A new \in SUBSET Work : ~Commit(p, new)) => effects' = effects
    BY DEF Next, Enqueue, Dispatch, DispatchCrash, LoseCopy, BackoffElapses, LeaseExpires,
           Replay, Receive, TakeDone, TakeDeleted, Begin, Finish, Fail, Report, Ack, Crash,
           DeleteOrganization, vars
  <1> QED
    BY <1>4, <1>5, <1>6

OneWorkerInv == IInv /\ ReportedIsOpen /\ EffectsAreFinal

LEMMA OneWorkerInvariance ==
  ASSUME \A p, q \in Worker : p = q
  PROVE  SafeSpec => []OneWorkerInv
  <1>1. Init => ReportedIsOpen /\ EffectsAreFinal
    BY DEF Init, ReportedIsOpen, EffectsAreFinal, At, IdleWorker
  <1>2. OneWorkerInv /\ [Next]_vars /\ IInv' => OneWorkerInv'
    BY ReportedStep, FinalStep DEF OneWorkerInv
  <1>3. Init => OneWorkerInv
    BY <1>1, InitIInv DEF OneWorkerInv
  <1> QED BY <1>2, <1>3, Invariance, PTL DEF SafeSpec

(* Where a queue class has one worker, a row takes effect at most once,    *)
(* whatever is sent twice, lost, redelivered, crashes or is replayed       *)
(* (runtime.py:180-254).                                                   *)
THEOREM OneWorkerOneEffect ==
  ASSUME \A p, q \in Worker : p = q
  PROVE  SafeSpec => []OneEffect
  <1>1. OneWorkerInv => OneEffect
    BY DEF OneWorkerInv, EffectsAreFinal, OneEffect
  <1> QED BY <1>1, OneWorkerInvariance, PTL

(* Where a queue class has one worker, only replay_work takes a row out of *)
(* "dead" (replay_work.py:24-40).                                          *)
THEOREM OneWorkerDeadAwaitsReview ==
  ASSUME \A p, q \in Worker : p = q
  PROVE  SafeSpec => DeadAwaitsReview
  <1>1. OneWorkerInv /\ [Next]_vars =>
          [\A w \in Work : row[w].status = "dead" /\ row'[w].status # "dead" => Replay(w)]_vars
    BY SettledStays DEF OneWorkerInv
  <1> QED BY <1>1, OneWorkerInvariance, PTL DEF SafeSpec, DeadAwaitsReview

-----------------------------------------------------------------------------
(* The queue implements the outbox contract of WorkIntent.  Dispatches,    *)
(* leases, backoffs, copies and acknowledgements are stutters of it.       *)

(* The initial outbox maps to the initial contract.                        *)
LEMMA InitContract == Init => Contract!Init
  BY DEF Init, Contract!Init, IntentView, UnreportedView, OpenStatus, AbsentRow,
         At, IdleWorker

(* A row as the contract sees it.                                          *)
LEMMA IntentViewType ==
  ASSUME TypeOK, NEW w \in Work
  PROVE  IntentView[w] = [status |-> OpenStatus(row[w].status), attempts |-> row[w].attempts]
  BY DEF IntentView

(* The contract sees a table written row by row, written row by row.       *)
LEMMA IntentViewStep ==
  ASSUME NEW w \in Work, NEW r, TypeOK, row' = [row EXCEPT ![w] = r]
  PROVE  IntentView' = [IntentView EXCEPT ![w] =
           [status |-> OpenStatus(r.status), attempts |-> r.attempts]]
  BY DEF IntentView, OpenStatus, TypeOK

(* Enqueued rows are new intents, and no others: absent rows are absent    *)
(* intents.                                                                *)
LEMMA WithNewView ==
  ASSUME NEW f \in [Work -> Row], NEW new, row' = WithNew(f, new),
         NEW g, g = [w \in Work |-> [status |-> OpenStatus(f[w].status),
                                     attempts |-> f[w].attempts]]
  PROVE  IntentView' = Contract!WithNew(g, new)
  <1>1. NewRow.status = "pending" /\ NewRow.attempts = 0
    BY DEF NewRow, AbsentRow
  <1>2. \A w \in Work : IntentView[w].status = "absent" <=> row[w].status = "absent"
    BY DEF IntentView, OpenStatus
  <1>3. \A w \in Work : row'[w] =
          IF w \in new /\ row[w].status = "absent" THEN NewRow ELSE f[w]
    BY DEF WithNew
  <1>4. IntentView' = [w \in Work |-> [status |-> OpenStatus(row'[w].status),
                                       attempts |-> row'[w].attempts]]
    BY DEF IntentView, OpenStatus
  <1>5. ASSUME NEW w \in Work
        PROVE  IntentView'[w] = Contract!WithNew(g, new)[w]
    <2>1. CASE w \in new /\ row[w].status = "absent"
      BY <1>1, <1>2, <1>3, <1>4, <2>1 DEF Contract!WithNew, Contract!NewIntent, OpenStatus
    <2>2. CASE ~(w \in new /\ row[w].status = "absent")
      BY <1>2, <1>3, <1>4, <2>2 DEF Contract!WithNew
    <2> QED BY <2>1, <2>2
  <1> QED BY <1>4, <1>5 DEF Contract!WithNew

(* A step of a row that changes its status only, as the contract sees it.  *)
LEMMA StatusStep ==
  ASSUME NEW w \in Work, NEW r, TypeOK, row' = [row EXCEPT ![w] = r],
         r.attempts = row[w].attempts
  PROVE  IntentView' = [IntentView EXCEPT ![w].status = OpenStatus(r.status)]
  <1>1. IntentView' = [IntentView EXCEPT ![w] =
          [status |-> OpenStatus(r.status), attempts |-> r.attempts]]
    BY IntentViewStep
  <1>2. IntentView[w] = [status |-> OpenStatus(row[w].status), attempts |-> row[w].attempts]
    BY DEF IntentView
  <1>3. [IntentView[w] EXCEPT !.status = OpenStatus(r.status)]
          = [status |-> OpenStatus(r.status), attempts |-> r.attempts]
    BY <1>2
  <1> QED BY <1>1, <1>3

(* A step that leaves every worker's unreported failure alone leaves the   *)
(* contract's set of them alone.                                           *)
LEMMA SameUnreported ==
  ASSUME TypeOK, NEW p \in Worker, NEW u \in WorkerState,
         ~At(p, "report"), u.pc # "report", worker' = [worker EXCEPT ![p] = u]
  PROVE  UnreportedView' = UnreportedView
  BY DEF UnreportedView, At, TypeOK

(* A worker that leaves "report" takes its failure out of the set.         *)
LEMMA OneUnreportedLess ==
  ASSUME TypeOK, NEW p \in Worker, At(p, "report"),
         worker' = [worker EXCEPT ![p] = IdleWorker],
         NEW f, f = [by |-> p, work |-> worker[p].work, permanent |-> worker[p].permanent]
  PROVE  /\ f \in Contract!Failure
         /\ f \in UnreportedView
         /\ UnreportedView' = UnreportedView \ {f}
  <1>1. f \in Contract!Failure
    BY DEF Contract!Failure, TypeOK, WorkerState
  <1>2. f \in UnreportedView
    BY DEF UnreportedView
  <1>3. UnreportedView' = UnreportedView \ {f}
    BY DEF UnreportedView, At, TypeOK, IdleWorker
  <1> QED BY <1>1, <1>2, <1>3

(* Every step of the queue is a step of the contract or a stutter.         *)
LEMMA ContractStep ==
  TypeOK /\ RunningHoldsRow /\ [Next]_vars => [Contract!Next]_(Contract!vars)
  <1> SUFFICES ASSUME TypeOK, RunningHoldsRow, [Next]_vars
               PROVE  [Contract!Next]_(Contract!vars)
    OBVIOUS
  <1> DEFINE Stutter == UNCHANGED <<IntentView, UnreportedView, effects, reports>>
  <1>0. Stutter => UNCHANGED Contract!vars
    BY DEF Contract!vars
  <1>1. ASSUME NEW w \in Work, NEW r, row' = [row EXCEPT ![w] = r],
               OpenStatus(r.status) = OpenStatus(row[w].status),
               r.attempts = row[w].attempts
        PROVE  IntentView' = IntentView
    BY <1>1 DEF IntentView, OpenStatus, TypeOK
  <1>2. worker' = worker => UnreportedView' = UnreportedView
    BY DEF UnreportedView, At
  <1>3. row' = row => IntentView' = IntentView
    BY DEF IntentView, OpenStatus
  <1>4. ASSUME NEW new, Enqueue(new) PROVE Contract!Accept(new)
    <2>1. IntentView' = Contract!WithNew(IntentView, new)
      BY <1>4, WithNewView DEF Enqueue, IntentView, TypeOK
    <2> QED BY <1>2, <1>4, <2>1 DEF Enqueue, Contract!Accept
  <1>5. ASSUME NEW w \in Work, Dispatch(w) PROVE Stutter
    <2> DEFINE r == [row[w] EXCEPT !.status = "queued", !.leased = TRUE]
    <2>1. r.status = "queued" /\ r.attempts = row[w].attempts
      BY DEF TypeOK, Row
    <2>2. OpenStatus(row[w].status) = "open" /\ row' = [row EXCEPT ![w] = r]
      BY <1>5 DEF Dispatch, Dispatchable, OpenStatus
    <2> HIDE DEF r
    <2> QED BY <1>1, <1>2, <1>5, <2>1, <2>2 DEF Dispatch, OpenStatus
  <1>6. ASSUME NEW w \in Work, DispatchCrash(w) \/ LoseCopy(w) PROVE Stutter
    BY <1>2, <1>3, <1>6 DEF DispatchCrash, LoseCopy
  <1>7. ASSUME NEW w \in Work, BackoffElapses(w) PROVE Stutter
    <2> DEFINE r == [row[w] EXCEPT !.ready = TRUE]
    <2>1. r.status = row[w].status /\ r.attempts = row[w].attempts
      BY DEF TypeOK, Row
    <2>2. row' = [row EXCEPT ![w] = r]
      BY <1>7 DEF BackoffElapses
    <2> HIDE DEF r
    <2> QED BY <1>1, <1>2, <1>7, <2>1, <2>2 DEF BackoffElapses
  <1>8. ASSUME NEW w \in Work, LeaseExpires(w) PROVE Stutter
    <2> DEFINE r == [row[w] EXCEPT !.leased = FALSE]
    <2>1. r.status = row[w].status /\ r.attempts = row[w].attempts
      BY DEF TypeOK, Row
    <2>2. row' = [row EXCEPT ![w] = r]
      BY <1>8 DEF LeaseExpires
    <2> HIDE DEF r
    <2> QED BY <1>1, <1>2, <1>8, <2>1, <2>2 DEF LeaseExpires
  <1>9. ASSUME NEW w \in Work, Replay(w) PROVE Contract!Replay(w)
    <2>1. NewRow.status = "pending" /\ NewRow.attempts = 0
      BY DEF NewRow, AbsentRow
    <2>2. IntentView[w].status = "dead"
      BY <1>9 DEF Replay, IntentView, OpenStatus
    <2>3. OpenStatus(NewRow.status) = "open"
      BY <2>1 DEF OpenStatus
    <2>4. IntentView' = [IntentView EXCEPT ![w] = Contract!NewIntent]
      BY <1>9, <2>1, <2>3, IntentViewStep DEF Replay, Contract!NewIntent
    <2> QED BY <1>2, <1>9, <2>2, <2>4 DEF Replay, Contract!Replay
  <1>10. ASSUME NEW p \in Worker, NEW w \in Work, TakeDone(p, w) \/ Begin(p, w)
         PROVE  Stutter
    <2>1. PICK u \in WorkerState : /\ u.pc # "report"
                                   /\ worker' = [worker EXCEPT ![p] = u]
      BY <1>10 DEF TakeDone, Begin, Take, WorkerState
    <2>2. ~At(p, "report")
      BY <1>10 DEF TakeDone, Begin, CanTake, At
    <2> QED BY <1>3, <1>10, <2>1, <2>2, SameUnreported DEF TakeDone, Begin
  <1>11. ASSUME NEW p \in Worker, NEW w \in Work, TakeDeleted(p, w)
         PROVE  Contract!Excuse(w)
    <2>1. PICK u \in WorkerState : /\ u.pc # "report"
                                   /\ worker' = [worker EXCEPT ![p] = u]
      BY <1>11 DEF TakeDeleted, Take, WorkerState
    <2>2. UnreportedView' = UnreportedView
      BY <1>11, <2>1, SameUnreported DEF TakeDeleted, CanTake, At
    <2>3. IntentView[w].status = "open"
      BY <1>11 DEF TakeDeleted, Open, IntentView, OpenStatus
    <2>4. IntentView' = [IntentView EXCEPT ![w].status = "done"]
      <3> DEFINE r == [row[w] EXCEPT !.status = "done"]
      <3>1. r.status = "done" /\ r.attempts = row[w].attempts
        BY DEF TypeOK, Row
      <3>2. row' = [row EXCEPT ![w] = r]
        BY <1>11 DEF TakeDeleted
      <3> HIDE DEF r
      <3>3. OpenStatus(r.status) = "done"
        BY <3>1 DEF OpenStatus
      <3> QED BY <3>1, <3>2, <3>3, StatusStep
    <2> QED BY <1>11, <2>2, <2>3, <2>4 DEF TakeDeleted, Contract!Excuse
  <1>12. ASSUME NEW p \in Worker, NEW new, Commit(p, new)
         PROVE  Contract!Execute(worker[p].work, new)
    <2> DEFINE w == worker[p].work
               f == [row EXCEPT ![w] = ClosedRow(@)]
               g == [IntentView EXCEPT ![w].status = "done"]
    <2>1. w \in Work /\ IntentView[w].status = "open"
      BY <1>12 DEF Commit, RunningHoldsRow, Open, IntentView, OpenStatus, TypeOK,
                   WorkerState
    <2>2. f \in [Work -> Row]
      BY <2>1, ClosedRowType DEF TypeOK
    <2>3. g = [v \in Work |-> [status |-> OpenStatus(f[v].status),
                               attempts |-> f[v].attempts]]
      <3>1. /\ f[w].status = "done"
            /\ f[w].attempts = row[w].attempts
            /\ OpenStatus(f[w].status) = "done"
        BY <2>1, ClosedRowType DEF TypeOK, OpenStatus
      <3>2. \A v \in Work \ {w} : f[v] = row[v]
        BY DEF TypeOK
      <3>3. g = [IntentView EXCEPT ![w] = [status |-> "done", attempts |-> row[w].attempts]]
        <4>1. IntentView[w] =
                [status |-> OpenStatus(row[w].status), attempts |-> row[w].attempts]
          BY <2>1, IntentViewType
        <4>2. [IntentView[w] EXCEPT !.status = "done"]
                = [status |-> "done", attempts |-> row[w].attempts]
          BY <4>1
        <4> QED BY <4>2
      <3> HIDE DEF f, g, w
      <3> QED BY <2>1, <3>1, <3>2, <3>3 DEF IntentView
    <2>4. IntentView' = Contract!WithNew(g, new)
      <3>1. row' = WithNew(f, new)
        BY <1>12 DEF Commit
      <3> HIDE DEF f, g
      <3> QED BY <2>2, <2>3, <3>1, WithNewView
    <2>5. PICK u \in WorkerState : /\ u.pc # "report"
                                   /\ worker' = [worker EXCEPT ![p] = u]
      BY <1>12, <2>1 DEF Commit, Take, WorkerState
    <2>6. UnreportedView' = UnreportedView
      BY <1>12, <2>5, SameUnreported DEF Commit, At
    <2> QED BY <1>12, <2>1, <2>4, <2>6 DEF Commit, Contract!Execute
  <1>13. ASSUME NEW p \in Worker, NEW b \in BOOLEAN, Fail(p, b)
         PROVE  \E f \in Contract!Failure : Contract!Fail(f)
    <2> DEFINE f == [by |-> p, work |-> worker[p].work, permanent |-> b]
               u == [worker[p] EXCEPT !.pc = "report", !.permanent = b]
    <2>1. f \in Contract!Failure
      BY DEF Contract!Failure, TypeOK, WorkerState
    <2>2. IntentView[f.work].status = "open"
      BY <1>13 DEF Fail, RunningHoldsRow, Open, IntentView, OpenStatus, TypeOK,
                   WorkerState
    <2>3. f \notin UnreportedView
      BY <1>13 DEF Fail, UnreportedView, At
    <2>4. u.pc = "report" /\ u.work = worker[p].work /\ u.permanent = b
      BY DEF TypeOK, WorkerState
    <2>5. worker' = [worker EXCEPT ![p] = u]
      BY <1>13 DEF Fail
    <2>6. UnreportedView' = UnreportedView \union {f}
      <3> HIDE DEF u
      <3> QED BY <1>13, <2>4, <2>5 DEF Fail, UnreportedView, At, TypeOK
    <2>7. UNCHANGED <<IntentView, effects, reports>>
      BY <1>3, <1>13 DEF Fail
    <2> QED BY <2>1, <2>2, <2>3, <2>6, <2>7 DEF Contract!Fail
  <1>14. ASSUME NEW p \in Worker, NEW new, Report(p, new)
         PROVE  \E x \in Contract!Failure : Contract!Report(x, new)
    <2> DEFINE w == worker[p].work
               b == worker[p].permanent
               x == [by |-> p, work |-> w, permanent |-> b]
               f == [row EXCEPT ![w] = FailedRow(@, b)]
               g == [IntentView EXCEPT ![w] = Contract!FailedIntent(w, b)]
    <2>0. w \in Work /\ b \in BOOLEAN
      BY DEF TypeOK, WorkerState
    <2>1. /\ x \in Contract!Failure
          /\ x \in UnreportedView
          /\ UnreportedView' = UnreportedView \ {x}
      BY <1>14, OneUnreportedLess DEF Report, Rest
    <2>2. f \in [Work -> Row]
      BY <2>0, RowTypes DEF TypeOK
    <2>3. g = [v \in Work |-> [status |-> OpenStatus(f[v].status),
                               attempts |-> f[v].attempts]]
      <3>1. f[w] = FailedRow(row[w], b)
        BY <2>0 DEF TypeOK
      <3>2. /\ FailedRow(row[w], b).attempts = IntentView[w].attempts + 1
            /\ OpenStatus(FailedRow(row[w], b).status)
                 = Contract!StatusAfterFailure(IntentView[w].attempts + 1, b)
        BY <2>0 DEF FailedRow, IntentView, OpenStatus, Contract!StatusAfterFailure
      <3>3. Contract!FailedIntent(w, b) =
              [status |-> OpenStatus(f[w].status), attempts |-> f[w].attempts]
        BY <3>1, <3>2 DEF Contract!FailedIntent
      <3>4. \A v \in Work \ {w} : f[v] = row[v]
        BY DEF TypeOK
      <3> HIDE DEF f, w, b
      <3> QED BY <2>0, <3>3, <3>4 DEF IntentView
    <2>4. IntentView' = Contract!WithNew(g, new)
      <3>1. row' = WithNew(f, new)
        BY <1>14 DEF Report
      <3> HIDE DEF f, g
      <3> QED BY <2>2, <2>3, <3>1, WithNewView
    <2>5. effects' = effects /\ reports' = [reports EXCEPT ![w] = @ + 1]
      BY <1>14 DEF Report
    <2> QED BY <2>1, <2>4, <2>5 DEF Contract!Report
  <1>15. ASSUME NEW p \in Worker, Ack(p) PROVE Stutter
    BY <1>3, <1>15, SameUnreported, IdleWorkerType DEF Ack, Rest, At, IdleWorker
  <1>16. ASSUME NEW p \in Worker, Crash(p), At(p, "report")
         PROVE  \E f \in Contract!Failure : Contract!Forget(f)
    BY <1>3, <1>16, OneUnreportedLess DEF Crash, Rest, Contract!Forget
  <1>17. ASSUME NEW p \in Worker, Crash(p), ~At(p, "report") PROVE Stutter
    BY <1>3, <1>17, SameUnreported, IdleWorkerType DEF Crash, Rest, IdleWorker
  <1>18. CASE DeleteOrganization \/ UNCHANGED vars
    BY <1>0, <1>2, <1>3, <1>18 DEF DeleteOrganization, vars
  <1>19. ASSUME NEW p \in Worker, NEW new \in SUBSET Work,
                Report(p, new) \/ Ack(p) \/ Crash(p) \/ Finish(p)
         PROVE  Stutter \/ Contract!Next
    <2> HIDE DEF Stutter
    <2>1. ASSUME NEW n \in SUBSET Work, Commit(p, n) PROVE Contract!Next
      BY <1>12, <2>1 DEF Contract!Next, TypeOK, WorkerState
    <2> QED BY <1>13, <1>14, <1>15, <1>16, <1>17, <1>19, <2>1 DEF Contract!Next, Finish
  <1>20. ASSUME NEW w \in Work, NEW p \in Worker, Receive(p, w)
         PROVE  Stutter \/ Contract!Next
    <2> HIDE DEF Stutter
    <2> QED BY <1>10, <1>11, <1>20 DEF Contract!Next, Receive
  <1>21. ASSUME NEW w \in Work,
                \/ Dispatch(w) \/ DispatchCrash(w) \/ LoseCopy(w)
                \/ BackoffElapses(w) \/ LeaseExpires(w) \/ Replay(w)
         PROVE  Stutter \/ Contract!Next
    <2> HIDE DEF Stutter
    <2> QED BY <1>5, <1>6, <1>7, <1>8, <1>9, <1>21 DEF Contract!Next
  <1>22. ASSUME NEW new \in SUBSET Work, Enqueue(new) PROVE Contract!Next
    BY <1>4, <1>22 DEF Contract!Next
  <1> HIDE DEF Stutter
  <1> QED BY <1>0, <1>18, <1>19, <1>20, <1>21, <1>22 DEF Next

(* src/workers/runtime.py keeps the promise of the outbox: however copies  *)
(* are duplicated, lost and redelivered and whoever crashes, an intent is  *)
(* executed, excused, failed and replayed only as WorkIntent allows.       *)
THEOREM QueueImplementsContract == SafeSpec => ContractSpec
  <1>1. Init => Contract!Init
    BY InitContract
  <1>2. IInv /\ [Next]_vars => [Contract!Next]_(Contract!vars)
    BY ContractStep DEF IInv
  <1> QED BY <1>1, <1>2, Invariance, PTL DEF SafeSpec, ContractSpec, Contract!Spec
=============================================================================
