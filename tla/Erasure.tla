------------------------------- MODULE Erasure -------------------------------
(***************************************************************************)
(* The end of one organization: the deletion request, the maintenance      *)
(* command that erases rows, report objects in S3 and writes the external  *)
(* ledger (accounts/maintenance.py, maintain.py), and the replay of the    *)
(* ledger into a restored database.  Beside it run the transactions that   *)
(* may still be under way: workers that write a report or send the notice  *)
(* of the deletion, and requests that accept an invitation.                *)
(***************************************************************************)
EXTENDS Integers, Sequences

CONSTANTS
  File,             \* Report rows
  Invite,           \* Invitation rows
  MaxEraseCrashes   \* bound on the failures of the maintenance command

VARIABLES
  org,         \* the Organization row: active, requested (deletion), erased
  rows,        \* committed rows
  running,     \* transactions under way, each named by the row it holds
  finished,    \* rows whose transaction has committed
  objects,     \* report objects in S3
  late,        \* objects put while the command was at work
  stage,       \* how far the command is; 0 if it does not run
  doomed,      \* rows it has deleted, not yet committed
  ledger,      \* whether the external receipt exists
  everErased,
  backup,      \* a copy of the database, or NoBackup
  isolated,    \* a restored database, not yet reopened
  eraseCrashes

databaseVars == <<org, rows, running, finished>>
storageVars == <<objects, late>>
eraserVars == <<stage, doomed, ledger, everErased, eraseCrashes>>
restoreVars == <<backup, isolated>>
erasureVars == <<databaseVars, storageVars, eraserVars, restoreVars>>

ASSUME ErasureAssumption == MaxEraseCrashes \in Nat

(* tenant_models(): the tables no other table refers to, in this order.    *)
Tables == <<"membership", "invitation", "outbox", "delivery", "report">>
TenantRow == ({"membership", "invitation"} \X Invite)
       \union ({"report"} \X File) \union ({"outbox", "delivery"} \X {"notice"})
Verifying == Len(Tables) + 1
Recording == Verifying + 1
Committing == Recording + 1
NoBackup == [org |-> "none"]
Restored == [org |-> "restored"]    \* bound: one restore

ErasureTypeOK ==
  /\ org \in {"active", "requested", "erased"}
  /\ rows \subseteq TenantRow /\ running \subseteq TenantRow /\ finished \subseteq TenantRow
  /\ objects \subseteq File /\ late \subseteq File
  /\ stage \in 0 .. Committing
  /\ doomed \subseteq rows
  /\ ledger \in BOOLEAN /\ everErased \in BOOLEAN /\ isolated \in BOOLEAN
  /\ eraseCrashes \in 0 .. MaxEraseCrashes

ErasureInit ==
  /\ org = "active"
  /\ rows = ({"invitation"} \X Invite) \union ({"report"} \X File)
  /\ running = {} /\ finished = {}
  /\ objects = {} /\ late = {}
  /\ stage = 0 /\ doomed = {} /\ ledger = FALSE /\ everErased = FALSE /\ eraseCrashes = 0
  /\ backup = NoBackup /\ isolated = FALSE

----------------------------------------------------------------------------
(* Other transactions *)

organization_delete ==     \* locks the Organization row, as the command does
  /\ org = "active" /\ ~isolated
  /\ org' = "requested"
  /\ rows' = rows \union {<<"outbox", "notice">>}
  /\ UNCHANGED <<running, finished, storageVars, eraserVars, restoreVars>>

(* A worker looks whether the organization is active, but for the notice;  *)
(* accept_invitation does not look.  A deleted row blocks.                 *)
MayStart(x) == x[1] = "report" => org = "active"

StartTxn(x) ==
  /\ x \in rows \ (running \union finished \union doomed) /\ x[1] # "membership"
  /\ ~isolated /\ MayStart(x)
  /\ running' = running \union {x}
  /\ UNCHANGED <<org, rows, finished, storageVars, eraserVars, restoreVars>>

PutReport(f) ==
  /\ <<"report", f>> \in running /\ f \notin objects
  /\ objects' = objects \union {f}
  /\ late' = IF stage > 0 THEN late \union {f} ELSE late
  /\ UNCHANGED <<databaseVars, eraserVars, restoreVars>>

Adds(x) == CASE x[1] = "invitation" -> {<<"membership", x[2]>>}
             [] x[1] = "outbox" -> {<<"delivery", "notice">>}
             [] OTHER -> {}

FinishTxn(x) ==
  /\ x \in running /\ (x[1] = "report" => x[2] \in objects)
  /\ running' = running \ {x}
  /\ rows' = rows \union Adds(x)
  /\ finished' = finished \union {x}
  /\ UNCHANGED <<org, storageVars, eraserVars, restoreVars>>

AbortTxn(x) ==     \* an exception or a crash; what S3 has stays there
  /\ x \in running
  /\ running' = running \ {x}
  /\ UNCHANGED <<org, rows, finished, storageVars, eraserVars, restoreVars>>

(* retain() of an organization that is not to be deleted: an expired report *)
retain(f) ==
  /\ org = "active" /\ ~isolated
  /\ <<"report", f>> \in rows \ running /\ <<"report", f>> \in finished
  /\ rows' = rows \ {<<"report", f>>}
  /\ objects' = objects \ {f}        \* external: the bucket's lifecycle of a day
  /\ UNCHANGED <<org, running, finished, late, eraserVars, restoreVars>>

----------------------------------------------------------------------------
(* erase_tenant *)

(* Mutant: a receipt in the ledger is taken for the end of the erasure.    *)
PendingUnrecorded == org = "requested" /\ ~ledger

ErasurePending == org = "requested"

erase_reports ==      \* after the locks and checks of erase_tenant
  /\ stage = 0 /\ ErasurePending /\ ~isolated
  /\ objects' = {}
  /\ stage' = 1
  /\ UNCHANGED <<databaseVars, late, doomed, ledger, everErased, eraseCrashes, restoreVars>>

InTable(x, k) == x[1] = Tables[k]

DeleteTable ==        \* waits for the transactions that hold its rows
  /\ stage \in DOMAIN Tables
  /\ \A x \in running : ~InTable(x, stage)
  /\ doomed' = doomed \union {x \in rows : InTable(x, stage)}
  /\ stage' = stage + 1
  /\ UNCHANGED <<databaseVars, storageVars, ledger, everErased, eraseCrashes, restoreVars>>

(* Mutant: rows that were added behind the command are not looked for.     *)
NothingExpected == TRUE

NothingRemains == rows \subseteq doomed

Verify ==             \* or roll back, for the next hourly run to try again
  /\ stage = Verifying
  /\ IF NothingRemains THEN stage' = Recording /\ UNCHANGED doomed
                       ELSE stage' = 0 /\ doomed' = {}
  /\ UNCHANGED <<databaseVars, storageVars, ledger, everErased, eraseCrashes, restoreVars>>

PutLedger ==
  /\ stage = Recording
  /\ ledger' = TRUE
  /\ stage' = Committing
  /\ UNCHANGED <<databaseVars, storageVars, doomed, everErased, eraseCrashes, restoreVars>>

MayCommit == stage = Committing

CommitErasure ==
  /\ MayCommit
  /\ org' = "erased" /\ rows' = rows \ doomed /\ everErased' = TRUE
  /\ stage' = 0 /\ doomed' = {}
  /\ UNCHANGED <<running, finished, storageVars, ledger, eraseCrashes, restoreVars>>

EraseFails ==         \* S3, the database or the process
  /\ stage > 0 /\ eraseCrashes < MaxEraseCrashes
  /\ stage' = 0 /\ doomed' = {}
  /\ eraseCrashes' = eraseCrashes + 1
  /\ UNCHANGED <<databaseVars, storageVars, ledger, everErased, restoreVars>>

----------------------------------------------------------------------------
(* Restore *)

Backup ==             \* external: any committed state may be restored
  /\ backup = NoBackup
  /\ backup' = [org |-> org, rows |-> rows, finished |-> finished]
  /\ UNCHANGED <<databaseVars, storageVars, eraserVars, isolated>>

Restore ==
  /\ backup \notin {NoBackup, Restored} /\ ~isolated /\ stage = 0
  /\ org' = backup.org /\ rows' = backup.rows /\ finished' = backup.finished
  /\ running' = {} /\ isolated' = TRUE /\ backup' = Restored
  /\ UNCHANGED <<storageVars, eraserVars>>

(* Mutant: only what was to be deleted when the backup was made is erased. *)
ExistsRequested == org = "requested"

Exists == org # "erased"

(* For each receipt of the ledger: request the deletion of what exists,    *)
(* then erase_tenant with the old receipt.                                 *)
replay_erasures ==
  /\ isolated
  /\ IF ledger /\ Exists
     THEN org' = "erased" /\ rows' = {} /\ objects' = {} /\ everErased' = TRUE
     ELSE UNCHANGED <<org, rows, objects, everErased>>
  /\ isolated' = FALSE          \* external: ingress is reopened
  /\ UNCHANGED <<running, finished, late, stage, doomed, ledger, eraseCrashes, backup>>

ErasureNext ==
  \/ organization_delete \/ Backup \/ Restore \/ replay_erasures
  \/ \E x \in TenantRow : StartTxn(x) \/ FinishTxn(x) \/ AbortTxn(x)
  \/ \E f \in File : PutReport(f) \/ retain(f)
  \/ erase_reports \/ DeleteTable \/ Verify \/ PutLedger \/ CommitErasure \/ EraseFails

(* The hourly loop goes on, transactions end one way or the other, and a   *)
(* DELETE that waits for a row gets it before those that ask later.        *)
ErasureFairness ==
  /\ WF_erasureVars(erase_reports \/ Verify \/ PutLedger \/ CommitErasure)
  /\ SF_erasureVars(DeleteTable)
  /\ WF_erasureVars(replay_erasures)
  /\ \A x \in TenantRow : WF_erasureVars(FinishTxn(x) \/ AbortTxn(x))
ErasureSpec == ErasureInit /\ [][ErasureNext]_erasureVars /\ ErasureFairness

----------------------------------------------------------------------------
(* Properties *)

(* Nothing of an erased organization is left: no row, also none committed  *)
(* by a transaction that was under way, and no report object but one put   *)
(* while the command was at work (maintenance.py:30-46, 81-96).            *)
ErasedIsGone == org = "erased" => rows = {} /\ objects \subseteq late

(* Once erased, an organization is erased whenever the platform is open,   *)
(* whatever backup was restored (maintenance.py:113-123,                   *)
(* replay_erasures.py:39-64).                                              *)
RestoreKeepsErased == everErased /\ ~isolated => org = "erased"

(* A deletion that was requested ends, unless a backup from before the     *)
(* request is restored (maintain.py:29-36).                                *)
DeletionEnds == org = "requested" ~> org # "requested"
=============================================================================
