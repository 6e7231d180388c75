---------------------------- MODULE StripeIntake ----------------------------
(***************************************************************************)
(* The handlers that bring one Stripe account's facts into LedgerGuard,    *)
(* run from the outbox: webhook receipts, periodic polls and the pages of  *)
(* scans (src/modules/connectors/stripe.py), with what a recorded failure  *)
(* does to them (src/workers/runtime.py).                                  *)
(*                                                                         *)
(* The outbox is used through its contract, module WorkIntent, which       *)
(* WorkQueue implements.  A handler runs under the locks of its row, of    *)
(* its receipt or scan and of the connector, so it is one action.  Provider*)
(* answers are nondeterministic: any call may fail, for good or not.       *)
(***************************************************************************)
EXTENDS Naturals, FiniteSets

CONSTANTS
    Worker,       \* worker processes
    Receipts,     \* webhook deliveries with distinct event ids
    Ticks,        \* five-minute buckets in which the scheduler runs
    Scans,        \* bound: identities for the scans that polls create
    MaxPages,     \* pages after which a scan is refused (10000)
    MaxAttempts,  \* 8 in the code
    MaxCrashes,   \* bound: workers lost before they record a failure
    MaxReplays    \* bound: operator replays

ASSUME IntakeAssumption ==
    /\ MaxPages \in Nat \ {0}
    /\ MaxCrashes \in Nat
    /\ MaxReplays \in Nat

VARIABLES
    intent, unreported, effects, reports,   \* the outbox, as in WorkIntent
    connector,    \* Installation.status
    receipt,      \* Receipt.status
    scan,         \* Scan.status and Scan.page_count
    complete,     \* Cursor.complete of the account's two object classes
    handed,       \* intents handed to other components: <<task, reason>>
    active,       \* Organization.active
    crashes, replays

outboxVars == <<intent, unreported, effects, reports>>
sourceVars == <<connector, receipt, scan, complete, handed, active>>
vars == <<outboxVars, sourceVars, crashes, replays>>

(* The rows of this account, by their dedupe keys.                         *)
ReceiptTask(r) == <<"stripe_receipt", r>>
PollTask(t) == <<"stripe_poll", t>>
PageTask(s, n) == <<"stripe_scan_page", s, n>>
Task ==
    {ReceiptTask(r) : r \in Receipts} \union {PollTask(t) : t \in Ticks}
        \union {PageTask(s, n) : s \in Scans, n \in 0..MaxPages}

Outbox == INSTANCE WorkIntent WITH Work <- Task

Suspended == <<"security_notify", "connector.suspended">>
Disconnected == <<"security_notify", "connector.disconnected">>
Deleted == <<"security_notify", "organization.deletion_requested">>
Reconcile(reason) == <<"reconcile_store", reason>>
Handed ==
    {Suspended, Disconnected, Deleted} \union {Reconcile(x) : x \in Receipts \union Scans}

ScanState == [status : {"absent", "pending", "complete", "failed"}, page : 0..MaxPages]

TypeOK ==
    /\ Outbox!TypeOK
    /\ connector \in {"active", "suspended", "disconnected"}
    /\ receipt \in [Receipts -> {"absent", "pending", "normalized", "failed"}]
    /\ scan \in [Scans -> ScanState]
    /\ complete \in BOOLEAN
    /\ handed \in SUBSET Handed
    /\ active \in BOOLEAN
    /\ crashes \in 0..MaxCrashes
    /\ replays \in 0..MaxReplays

Init ==
    /\ Outbox!Init
    /\ connector = "active"
    /\ receipt = [r \in Receipts |-> "absent"]
    /\ scan = [s \in Scans |-> [status |-> "absent", page |-> 0]]
    /\ complete = FALSE
    /\ handed = {}
    /\ active = TRUE
    /\ crashes = 0
    /\ replays = 0

Budgets == <<crashes, replays>>
Pending(s) == scan[s].status = "pending"
Open(w) == intent[w].status = "open"
Idle(p) == \A f \in unreported : f.by # p

-----------------------------------------------------------------------------
(* Producers                                                               *)

(* A webhook with a new event id stores a receipt and its work; a delivery *)
(* of an event that was seen changes nothing.                              *)
Webhook(r) ==
    /\ active /\ connector = "active"
    /\ receipt[r] = "absent"
    /\ receipt' = [receipt EXCEPT ![r] = "pending"]
    /\ Outbox!Accept({ReceiptTask(r)})
    /\ UNCHANGED <<connector, scan, complete, handed, active, Budgets>>

Schedule(t) ==
    /\ active /\ connector = "active"
    /\ intent[PollTask(t)].status = "absent"
    /\ Outbox!Accept({PollTask(t)})
    /\ UNCHANGED <<sourceVars, Budgets>>

-----------------------------------------------------------------------------
(* Handlers that succeed                                                   *)

(* A row runs on an idle worker while the tenant is active.                *)
Run(w, new) ==
    /\ active
    /\ \E p \in Worker : Idle(p)
    /\ Outbox!Execute(w, new)

(* Mutant: a failed receipt counts as finished and is never replayed.      *)
ReceiptClosed(r) == receipt[r] \in {"normalized", "failed"}

(* The handlers look again at what they work on: another worker may have   *)
(* been there before.                                                      *)
ReceiptFinished(r) == receipt[r] = "normalized"

RunReceipt(r) ==
    /\ Run(ReceiptTask(r), {})
    /\ \/ /\ ReceiptFinished(r)
          /\ UNCHANGED <<receipt, handed>>
       \/ /\ ~ReceiptFinished(r)
          /\ connector = "active"
          /\ receipt' = [receipt EXCEPT ![r] = "normalized"]
          /\ handed' = handed \union {Reconcile(r)}
    /\ UNCHANGED <<connector, scan, complete, active, Budgets>>

(* Mutant: a poll that does not look for a pending scan.                   *)
NoScanInProgress == FALSE

(* A poll starts a scan unless one is pending.                             *)
ScanInProgress == \E s \in Scans : Pending(s)

RunPoll(t) ==
    /\ connector = "active"
    /\ \/ /\ ScanInProgress
          /\ Run(PollTask(t), {})
          /\ UNCHANGED scan
       \/ /\ ~ScanInProgress
          /\ \E s \in Scans :
              /\ scan[s].status = "absent"
              /\ scan' = [scan EXCEPT ![s].status = "pending"]
              /\ Run(PollTask(t), {PageTask(s, 0)})
    /\ UNCHANGED <<connector, receipt, complete, handed, active, Budgets>>

(* Mutant: the page limit is off by one.                                   *)
CanAdvanceFurther(s) ==
    /\ Pending(s)
    /\ connector = "active"
    /\ scan[s].page <= MaxPages

(* A page advances the scan itself, whichever page the row was made for.   *)
CanAdvance(s) ==
    /\ Pending(s)
    /\ connector = "active"
    /\ scan[s].page < MaxPages

(* Mutant: the next page is keyed by the row that ran, not by the scan.    *)
RunPageByRow(s, n) ==
    /\ CanAdvance(s)
    /\ scan' = [scan EXCEPT ![s].page = @ + 1]
    /\ n < MaxPages
    /\ Run(PageTask(s, n), {PageTask(s, n + 1)})
    /\ UNCHANGED <<connector, receipt, complete, handed, active, Budgets>>

(* The provider says there is more: the next page is enqueued with the     *)
(* advanced scan.                                                          *)
RunPage(s, n) ==
    /\ CanAdvance(s)
    /\ scan' = [scan EXCEPT ![s].page = @ + 1]
    /\ Run(PageTask(s, n), {PageTask(s, scan[s].page + 1)})
    /\ UNCHANGED <<connector, receipt, complete, handed, active, Budgets>>

(* The last page: coverage advances and the store is reconciled.           *)
RunLastPage(s, n) ==
    /\ CanAdvance(s)
    /\ scan' = [scan EXCEPT ![s] = [status |-> "complete", page |-> @.page + 1]]
    /\ complete' = TRUE
    /\ handed' = handed \union {Reconcile(s)}
    /\ Run(PageTask(s, n), {})
    /\ UNCHANGED <<connector, receipt, active, Budgets>>

RunClosedPage(s, n) ==
    /\ ~Pending(s)
    /\ Run(PageTask(s, n), {})
    /\ UNCHANGED <<sourceVars, Budgets>>

(* The tenant is being deleted: the row is closed unrun.                   *)
Excuse(w) ==
    /\ ~active
    /\ Outbox!Excuse(w)
    /\ UNCHANGED <<sourceVars, Budgets>>

-----------------------------------------------------------------------------
(* Handlers that fail                                                      *)

(* The rows whose handler is about to call the provider with the           *)
(* connector's credential.                                                 *)
NeedsCredential(w) ==
    \/ \E r \in Receipts : w = ReceiptTask(r) /\ ~ReceiptFinished(r)
    \/ \E s \in Scans, n \in 0..MaxPages : w = PageTask(s, n) /\ Pending(s)

(* The handler raises and is rolled back.  A permanent refusal suspends    *)
(* the connector in the same transaction; nothing else is recorded there.  *)
Fail(w, p, permanent) ==
    /\ active
    /\ Idle(p)
    /\ permanent => NeedsCredential(w) /\ connector = "active"
    /\ Outbox!Fail([by |-> p, work |-> w, permanent |-> permanent])
    /\ connector' = IF permanent THEN "suspended" ELSE connector
    /\ UNCHANGED <<receipt, scan, complete, handed, active, Budgets>>

(* Mutants: a dead page leaves its scan pending; a failure closes scans    *)
(* that are no longer pending; a suspension closes the row's scan only.    *)
ClosesIfPermanent(f, dead, s) == Pending(s) /\ f.permanent
ClosesAny(f, dead, s) ==
    /\ scan[s].status # "absent"
    /\ f.permanent \/ (dead /\ \E n \in 0..MaxPages : f.work = PageTask(s, n))
ClosesOwn(f, dead, s) ==
    Pending(s) /\ dead /\ \E n \in 0..MaxPages : f.work = PageTask(s, n)

(* What the second transaction does beside the row.  "dead" closes the     *)
(* receipt or the scan and voids coverage; a permanent failure also        *)
(* suspends the connector, closes its scans and notifies the owner.        *)
Closes(f, dead, s) ==
    /\ Pending(s)
    /\ f.permanent \/ (dead /\ \E n \in 0..MaxPages : f.work = PageTask(s, n))

(* Mutant: no notice if the connector is suspended already, which the      *)
(* first transaction has just done.                                        *)
NoticesIfActive(f) == IF f.permanent /\ connector = "active" THEN {Suspended} ELSE {}

Notices(f) == IF f.permanent THEN {Suspended} ELSE {}

Report(f) ==
    LET dead == Outbox!FailedIntent(f.work, f.permanent).status = "dead"
    IN  /\ Outbox!Report(f, {})
        /\ receipt' = [r \in Receipts |->
                         IF dead /\ f.work = ReceiptTask(r) THEN "failed" ELSE receipt[r]]
        /\ scan' = [s \in Scans |->
                      IF Closes(f, dead, s) THEN [scan[s] EXCEPT !.status = "failed"] ELSE scan[s]]
        /\ complete' = (complete /\ ~dead)
        /\ connector' = IF f.permanent THEN "suspended" ELSE connector
        /\ handed' = handed \union Notices(f)
        /\ UNCHANGED <<active, Budgets>>

(* The worker dies between the two transactions.                           *)
Crash(f) ==
    /\ crashes < MaxCrashes
    /\ crashes' = crashes + 1
    /\ Outbox!Forget(f)
    /\ UNCHANGED <<sourceVars, replays>>

-----------------------------------------------------------------------------
(* Operators and owners                                                    *)

Replay(w) ==
    /\ replays < MaxReplays
    /\ replays' = replays + 1
    /\ Outbox!Replay(w)
    /\ UNCHANGED <<sourceVars, crashes>>

(* The owner disconnects the account.  Its pending scan is left to fail.   *)
Disconnect ==
    /\ active
    /\ connector' = "disconnected"
    /\ complete' = FALSE
    /\ handed' = handed \union {Disconnected}
    /\ UNCHANGED <<outboxVars, receipt, scan, active, Budgets>>

DeleteOrganization ==
    /\ active
    /\ active' = FALSE
    /\ connector' = "disconnected"
    /\ handed' = handed \union {Deleted}
    /\ UNCHANGED <<outboxVars, receipt, scan, complete, Budgets>>

Handle(w) ==
    \/ \E r \in Receipts : w = ReceiptTask(r) /\ RunReceipt(r)
    \/ \E t \in Ticks : w = PollTask(t) /\ RunPoll(t)
    \/ \E s \in Scans, n \in 0..MaxPages :
        w = PageTask(s, n) /\ (RunPage(s, n) \/ RunLastPage(s, n) \/ RunClosedPage(s, n))

Attempt(w) ==
    Handle(w) \/ \E p \in Worker, permanent \in BOOLEAN : Fail(w, p, permanent)

Next ==
    \/ \E r \in Receipts : Webhook(r)
    \/ \E t \in Ticks : Schedule(t)
    \/ \E w \in Task : Attempt(w) \/ Excuse(w) \/ Replay(w)
    \/ \E f \in unreported : Report(f) \/ Crash(f)
    \/ Disconnect
    \/ DeleteOrganization

SafeSpec == Init /\ [][Next]_vars

(* WorkQueue brings every open row to a worker again and again, and a      *)
(* worker that lives goes on from a failure to its second transaction.     *)
Fairness ==
    /\ \A w \in Task : WF_vars(Attempt(w))
    /\ \A f \in Outbox!Failure : WF_vars(Report(f))

Spec == SafeSpec /\ Fairness

-----------------------------------------------------------------------------
(* A pending scan always has its current page in the outbox, still to be   *)
(* run; otherwise poll() would find it pending for ever and the account    *)
(* would never be scanned again (stripe.py:388, 404, 481).                 *)
ScanHasWork ==
    active => \A s \in Scans : Pending(s) => Open(PageTask(s, scan[s].page))

(* A receipt that is not normalized is still to be run, or visible as      *)
(* failed with exhausted work (runtime.py:262-265, architecture.md:37).    *)
ReceiptHasWork ==
    active => \A r \in Receipts :
        /\ receipt[r] = "pending" => Open(ReceiptTask(r))
        /\ receipt[r] = "failed" => intent[ReceiptTask(r)].status \in {"open", "dead"}

(* An account is scanned by one scan at a time, whatever polls overlap:    *)
(* poll() looks for a pending scan under the connector lock                *)
(* (stripe.py:387-389), so the constraint scan_one_pending_connector of    *)
(* ingestion/models.py:149-151 is never what stops a second one.           *)
OnePendingScan ==
    \A s, t \in Scans : Pending(s) /\ Pending(t) => s = t

(* Once the owner was told of a suspension, this connector does nothing    *)
(* more: no scan is pending and none will be (runtime.py:274-281).         *)
SuspensionIsFinal ==
    Suspended \in handed =>
        /\ connector # "active"
        /\ \A s \in Scans : ~Pending(s)

(* A scan that closed stays as it closed: neither a stray page nor a late  *)
(* failure reopens or fails it (stripe.py:412, runtime.py:269, 278).       *)
ClosedScanStays ==
    [][\A s \in Scans :
        scan[s].status \in {"complete", "failed"} => scan'[s] = scan[s]]_vars

(* Every scan ends, and frees the account for the next one: it completes,  *)
(* or its work dies and closes it (stripe.py:472, runtime.py:269).         *)
ScansEnd ==
    \A s \in Scans : Pending(s) ~> ~Pending(s) \/ ~active

(* docs/architecture.md:39: "security-sensitive owner-notification intents *)
(* are transactionally recorded".  A connector that stays suspended has its *)
(* notice (runtime.py:228, 274-281).                                       *)
SuspensionIsAnnounced ==
    connector = "suspended" ~> Suspended \in handed \/ connector # "suspended"
=============================================================================
