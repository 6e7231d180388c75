-------------------------- MODULE ConnectorsProofs --------------------------
(***************************************************************************)
(* What holds of the connectors, which are modules/connectors and the      *)
(* plugin's side of pairing: of StripeIntake, Credentials and Pairing, for *)
(* every set of workers, receipts, ticks, scans, installations, consents   *)
(* and codes, and every bound.                                             *)
(*                                                                         *)
(* StripeIntake: rows are made in the transaction that makes what they are *)
(* for, so no row of a scan lies ahead of its page (NoPageAhead) and none  *)
(* of a receipt ahead of its arrival (NoReceiptAhead); a failure is of a   *)
(* row that was made (FailuresHaveRows), so a recorded one cannot make a   *)
(* row.                                                                    *)
(*                                                                         *)
(* Credentials: a refresh ends the life of the token it was given.  It can *)
(* harm nobody else because only one installation is active, and because a *)
(* token that a request still carries is in no row (TokensAreApart).       *)
(*                                                                         *)
(* Pairing: a rotation may end the life of the key that signed it.  It     *)
(* cannot leave the plugin without one because every rotation signed by    *)
(* the key in use offers the one key that the plugin has kept              *)
(* (RotationsOfferOneKey).                                                 *)
(***************************************************************************)
EXTENDS StripeIntake, Credentials, Pairing, TLAPS

USE IntakeAssumption

Intent == [status : Outbox!Status, attempts : Nat]

(* A scan has rows for the pages up to its own only (stripe.py:481).       *)
NoPageAhead ==
  \A s \in Scans :
    /\ scan[s].status = "absent" => scan[s].page = 0
    /\ \A n \in 0..MaxPages :
         intent[PageTask(s, n)].status # "absent"
           => scan[s].status # "absent" /\ n <= scan[s].page

(* A receipt has its row from its arrival on (views.py:287-299).           *)
NoReceiptAhead ==
  \A r \in Receipts :
    receipt[r] = "absent" => intent[ReceiptTask(r)].status = "absent"

(* A worker records failures of rows that exist (runtime.py:242).          *)
FailuresHaveRows == \A f \in unreported : intent[f.work].status # "absent"

RowInv == NoPageAhead /\ NoReceiptAhead /\ FailuresHaveRows
WorkInv == ScanHasWork /\ ReceiptHasWork
ConnectorInv == OnePendingScan /\ SuspensionIsFinal
IInv == TypeOK /\ RowInv /\ WorkInv /\ ConnectorInv

-----------------------------------------------------------------------------
(* The dedupe keys of different work differ (views.py:299, stripe.py:481). *)
LEMMA Keys ==
  /\ \A r \in Receipts : ReceiptTask(r) \in Task
  /\ \A t \in Ticks : PollTask(t) \in Task
  /\ \A s \in Scans, n \in 0..MaxPages : PageTask(s, n) \in Task
  /\ \A r, q \in Receipts : ReceiptTask(r) = ReceiptTask(q) => r = q
  /\ \A s, u \in Scans, n, m \in 0..MaxPages :
       PageTask(s, n) = PageTask(u, m) => s = u /\ n = m
  /\ \A r \in Receipts, t \in Ticks : ReceiptTask(r) # PollTask(t)
  /\ \A r \in Receipts, s \in Scans, n \in 0..MaxPages : ReceiptTask(r) # PageTask(s, n)
  /\ \A t \in Ticks, s \in Scans, n \in 0..MaxPages : PollTask(t) # PageTask(s, n)
  BY DEF Task, ReceiptTask, PollTask, PageTask

(* A new row and a row after a failure are rows (runtime.py:245-253).      *)
LEMMA IntentTypes ==
  /\ Outbox!NewIntent \in Intent
  /\ \A w \in Task, b \in BOOLEAN :
       intent[w] \in Intent => Outbox!FailedIntent(w, b) \in Intent
  BY DEF Intent, Outbox!NewIntent, Outbox!Status, Outbox!FailedIntent,
         Outbox!StatusAfterFailure

(* What enqueue() leaves of rows f, beside the row v (service.py:27).      *)
LEMMA AddedRow ==
  ASSUME NEW f \in [Task -> Intent], NEW v \in Task
  PROVE  /\ Outbox!WithNew(f, {}) = f
         /\ Outbox!WithNew(f, {v}) \in [Task -> Intent]
         /\ intent[v].status = "absent" =>
              Outbox!WithNew(f, {v})[v] = Outbox!NewIntent
         /\ \A w \in Task \ {v} : Outbox!WithNew(f, {v})[w] = f[w]
  BY IntentTypes DEF Outbox!WithNew

(* A webhook or a tick adds one open row (views.py:299, runtime.py:103).    *)
LEMMA AcceptMakesRow ==
  ASSUME TypeOK, NEW v \in Task, intent[v].status = "absent", Outbox!Accept({v})
  PROVE  /\ Outbox!TypeOK'
         /\ intent'[v].status = "open"
         /\ \A w \in Task \ {v} : intent'[w] = intent[w]
         /\ unreported' = unreported
  <1>1. intent \in [Task -> Intent]
    BY DEF TypeOK, Outbox!TypeOK, Intent
  <1>2. /\ intent' \in [Task -> Intent]
        /\ intent'[v] = Outbox!NewIntent
        /\ \A w \in Task \ {v} : intent'[w] = intent[w]
    BY <1>1, AddedRow DEF Outbox!Accept
  <1>3. UNCHANGED <<unreported, effects, reports>>
    BY DEF Outbox!Accept
  <1>4. /\ unreported \in SUBSET Outbox!Failure
        /\ effects \in [Task -> Nat] /\ reports \in [Task -> Nat]
    BY DEF TypeOK, Outbox!TypeOK
  <1>5. Outbox!TypeOK'
    BY <1>2, <1>3, <1>4 DEF Outbox!TypeOK, Intent
  <1> QED BY <1>2, <1>3, <1>5 DEF Outbox!NewIntent

(* A handler without follow-up work closes its row (runtime.py:220-225).   *)
LEMMA RunCloses ==
  ASSUME TypeOK, NEW w \in Task, Run(w, {})
  PROVE  /\ Outbox!TypeOK'
         /\ intent[w].status = "open" /\ intent'[w].status = "done"
         /\ \A x \in Task \ {w} : intent'[x] = intent[x]
         /\ unreported' = unreported
         /\ active
  <1> DEFINE f == [intent EXCEPT ![w].status = "done"]
  <1>1. /\ f \in [Task -> Intent]
        /\ f[w].status = "done"
        /\ \A x \in Task \ {w} : f[x] = intent[x]
    BY DEF TypeOK, Outbox!TypeOK, Intent, Outbox!Status
  <1>2. intent' = Outbox!WithNew(f, {})
    BY DEF Run, Outbox!Execute
  <1> HIDE DEF f
  <1>3. intent' = f
    BY <1>1, <1>2, AddedRow
  <1>4. /\ intent[w].status = "open" /\ active
        /\ effects' = [effects EXCEPT ![w] = @ + 1]
        /\ UNCHANGED <<unreported, reports>>
    BY DEF Run, Outbox!Execute
  <1>5. /\ unreported \in SUBSET Outbox!Failure
        /\ effects \in [Task -> Nat] /\ reports \in [Task -> Nat]
    BY DEF TypeOK, Outbox!TypeOK
  <1>6. effects' \in [Task -> Nat]
    BY <1>4, <1>5
  <1>7. Outbox!TypeOK'
    BY <1>1, <1>3, <1>4, <1>5, <1>6 DEF Outbox!TypeOK, Intent
  <1> QED BY <1>1, <1>3, <1>4, <1>7

(* A handler that adds the row v closes its own.                           *)
LEMMA RunAdds ==
  ASSUME TypeOK, NEW w \in Task, NEW v \in Task, intent[v].status = "absent", Run(w, {v})
  PROVE  /\ Outbox!TypeOK'
         /\ intent[w].status = "open" /\ intent'[w].status = "done"
         /\ intent'[v].status = "open"
         /\ \A x \in Task \ {v, w} : intent'[x] = intent[x]
         /\ unreported' = unreported
         /\ active
  <1> DEFINE f == [intent EXCEPT ![w].status = "done"]
  <1>1. /\ f \in [Task -> Intent]
        /\ f[w].status = "done"
        /\ \A x \in Task \ {w} : f[x] = intent[x]
    BY DEF TypeOK, Outbox!TypeOK, Intent, Outbox!Status
  <1>2. intent' = Outbox!WithNew(f, {v})
    BY DEF Run, Outbox!Execute
  <1>3. /\ intent[w].status = "open" /\ active
        /\ effects' = [effects EXCEPT ![w] = @ + 1]
        /\ UNCHANGED <<unreported, reports>>
    BY DEF Run, Outbox!Execute
  <1> HIDE DEF f
  <1>4. /\ intent' \in [Task -> Intent]
        /\ intent'[v] = Outbox!NewIntent
        /\ \A x \in Task \ {v} : intent'[x] = f[x]
    BY <1>1, <1>2, AddedRow
  <1>5. v # w
    BY <1>3
  <1>6. /\ unreported \in SUBSET Outbox!Failure
        /\ effects \in [Task -> Nat] /\ reports \in [Task -> Nat]
    BY DEF TypeOK, Outbox!TypeOK
  <1>7. effects' \in [Task -> Nat]
    BY <1>3, <1>6
  <1>8. Outbox!TypeOK'
    BY <1>3, <1>4, <1>6, <1>7 DEF Outbox!TypeOK, Intent
  <1> QED BY <1>1, <1>3, <1>4, <1>5, <1>8 DEF Outbox!NewIntent

(* The second transaction of a failure writes one row, which exists        *)
(* (runtime.py:242-254).                                                   *)
LEMMA ReportWrites ==
  ASSUME TypeOK, NEW f \in unreported, Outbox!Report(f, {})
  PROVE  /\ Outbox!TypeOK'
         /\ f.work \in Task /\ f.permanent \in BOOLEAN
         /\ intent'[f.work] = Outbox!FailedIntent(f.work, f.permanent)
         /\ intent'[f.work].status \in {"open", "dead"}
         /\ \A x \in Task \ {f.work} : intent'[x] = intent[x]
         /\ unreported' \subseteq unreported
  <1> DEFINE w == f.work
             g == [intent EXCEPT ![w] = Outbox!FailedIntent(w, f.permanent)]
  <1>1. w \in Task /\ f.permanent \in BOOLEAN
    BY DEF TypeOK, Outbox!TypeOK, Outbox!Failure
  <1>2. Outbox!FailedIntent(w, f.permanent) \in Intent
    BY <1>1, IntentTypes DEF TypeOK, Outbox!TypeOK, Intent
  <1>3. intent' = Outbox!WithNew(g, {})
    BY DEF Outbox!Report
  <1>4. /\ unreported' = unreported \ {f}
        /\ reports' = [reports EXCEPT ![w] = @ + 1]
        /\ effects' = effects
    BY DEF Outbox!Report
  <1>5. Outbox!FailedIntent(w, f.permanent).status \in {"open", "dead"}
    BY DEF Outbox!FailedIntent, Outbox!StatusAfterFailure
  <1> HIDE DEF w
  <1>6. /\ g \in [Task -> Intent]
        /\ g[w] = Outbox!FailedIntent(w, f.permanent)
        /\ \A x \in Task \ {w} : g[x] = intent[x]
    BY <1>1, <1>2 DEF TypeOK, Outbox!TypeOK, Intent
  <1> HIDE DEF g
  <1>7. intent' = g
    BY <1>1, <1>3, <1>6, AddedRow
  <1>8. Outbox!TypeOK'
    <2>1. /\ unreported \in SUBSET Outbox!Failure
          /\ effects \in [Task -> Nat] /\ reports \in [Task -> Nat]
      BY DEF TypeOK, Outbox!TypeOK
    <2>2. reports' \in [Task -> Nat]
      BY <1>1, <1>4, <2>1
    <2> QED BY <1>4, <1>6, <1>7, <2>1, <2>2 DEF Outbox!TypeOK, Intent
  <1> QED BY <1>1, <1>4, <1>5, <1>6, <1>7, <1>8 DEF w

-----------------------------------------------------------------------------
(* The initial state satisfies the inductive invariant.                    *)
LEMMA InitIInv == Init => IInv
  <1> SUFFICES ASSUME Init PROVE IInv
    OBVIOUS
  <1> USE DEF Init
  <1>1. TypeOK
    <2>1. Outbox!TypeOK
      BY DEF Outbox!Init, Outbox!TypeOK, Outbox!Status
    <2>2. scan \in [Scans -> ScanState]
      BY DEF ScanState
    <2>3. receipt \in [Receipts -> {"absent", "pending", "normalized", "failed"}]
      OBVIOUS
    <2>4. crashes \in 0..MaxCrashes /\ replays \in 0..MaxReplays
      OBVIOUS
    <2>5. connector = "active" /\ complete = FALSE /\ handed = {} /\ active = TRUE
      OBVIOUS
    <2> HIDE DEF Init
    <2> QED BY <2>1, <2>2, <2>3, <2>4, <2>5 DEF TypeOK
  <1>2. RowInv
    BY Keys DEF RowInv, NoPageAhead, NoReceiptAhead, FailuresHaveRows, Outbox!Init
  <1>3. WorkInv /\ ConnectorInv
    BY DEF WorkInv, ConnectorInv, ScanHasWork, ReceiptHasWork, OnePendingScan,
       SuspensionIsFinal, Pending
  <1> QED BY <1>1, <1>2, <1>3 DEF IInv

(* A receipt arrives with its row (views.py:287-299).                      *)
LEMMA WebhookInv == ASSUME IInv, NEW r \in Receipts, Webhook(r) PROVE IInv'
  <1> USE DEF IInv, Webhook
  <1>1. intent[ReceiptTask(r)].status = "absent"
    BY DEF RowInv, NoReceiptAhead
  <1>2. /\ Outbox!TypeOK'
        /\ intent'[ReceiptTask(r)].status = "open"
        /\ \A w \in Task \ {ReceiptTask(r)} : intent'[w] = intent[w]
        /\ unreported' = unreported
    BY <1>1, AcceptMakesRow, Keys
  <1>3. TypeOK'
    BY <1>2 DEF TypeOK, sourceVars, Budgets
  <1>4. RowInv'
    <2>1. NoPageAhead'
      BY <1>2, Keys DEF RowInv, NoPageAhead
    <2>2. NoReceiptAhead'
      BY <1>2, Keys DEF RowInv, NoReceiptAhead, TypeOK
    <2>3. FailuresHaveRows'
      BY <1>2 DEF RowInv, FailuresHaveRows, TypeOK, Outbox!TypeOK, Outbox!Failure
    <2> QED BY <2>1, <2>2, <2>3 DEF RowInv
  <1>5. WorkInv'
    <2>1. ScanHasWork'
      BY <1>2, Keys DEF WorkInv, ScanHasWork, Pending, Open, TypeOK, ScanState
    <2>2. ReceiptHasWork'
      BY <1>2, Keys DEF WorkInv, ReceiptHasWork, Open, TypeOK
    <2> QED BY <2>1, <2>2 DEF WorkInv
  <1>6. ConnectorInv'
    BY DEF ConnectorInv, OnePendingScan, SuspensionIsFinal, Pending
  <1> QED BY <1>3, <1>4, <1>5, <1>6

(* The scheduler adds a poll (runtime.py:103).                             *)
LEMMA ScheduleInv == ASSUME IInv, NEW t \in Ticks, Schedule(t) PROVE IInv'
  <1> USE DEF IInv, Schedule
  <1>1. /\ Outbox!TypeOK'
        /\ \A w \in Task \ {PollTask(t)} : intent'[w] = intent[w]
        /\ unreported' = unreported
    BY AcceptMakesRow, Keys
  <1>2. intent'[PollTask(t)].status = "open"
    BY AcceptMakesRow, Keys
  <1>3. TypeOK'
    BY <1>1 DEF TypeOK, sourceVars, Budgets
  <1>4. RowInv'
    <2>1. NoPageAhead' /\ NoReceiptAhead'
      BY <1>1, Keys DEF RowInv, NoPageAhead, NoReceiptAhead, sourceVars
    <2>2. FailuresHaveRows'
      BY <1>1, <1>2 DEF RowInv, FailuresHaveRows, TypeOK, Outbox!TypeOK, Outbox!Failure
    <2> QED BY <2>1, <2>2 DEF RowInv
  <1>5. WorkInv'
    BY <1>1, Keys DEF WorkInv, ScanHasWork, ReceiptHasWork, Pending, Open, TypeOK,
       ScanState, sourceVars
  <1>6. ConnectorInv'
    BY DEF ConnectorInv, OnePendingScan, SuspensionIsFinal, Pending, sourceVars
  <1> QED BY <1>3, <1>4, <1>5, <1>6

(* A step that makes no row, and takes back no receipt and no page, keeps  *)
(* the invariants of rows: closing, failing and replaying work.            *)
LEMMA NoNewRows ==
  ASSUME IInv, TypeOK',
         \A x \in Task : intent'[x].status = "absent" <=> intent[x].status = "absent",
         unreported' \subseteq unreported,
         \A r \in Receipts : receipt'[r] = "absent" => receipt[r] = "absent",
         \A s \in Scans : /\ scan[s].status # "absent" => scan'[s].status # "absent"
                          /\ scan'[s].page >= scan[s].page
                          /\ scan[s].status = "absent" => scan'[s] = scan[s]
  PROVE  RowInv'
  <1> USE DEF IInv
  <1>1. NoPageAhead'
    <2>1. ASSUME NEW s \in Scans, NEW n \in 0..MaxPages,
                 intent'[PageTask(s, n)].status # "absent"
          PROVE  scan[s].status # "absent" /\ n <= scan[s].page
      <3>1. intent[PageTask(s, n)].status # "absent"
        BY <2>1, Keys
      <3> QED BY <3>1 DEF RowInv, NoPageAhead
    <2>2. \A s \in Scans : scan[s].page \in Nat /\ scan'[s].page \in Nat
      BY DEF TypeOK, ScanState
    <2>3. \A s \in Scans : scan'[s].status = "absent" => scan'[s].page = 0
      BY DEF RowInv, NoPageAhead
    <2>4. ASSUME NEW s \in Scans, NEW n \in 0..MaxPages,
                 intent'[PageTask(s, n)].status # "absent"
          PROVE  scan'[s].status # "absent" /\ n <= scan'[s].page
      BY <2>1, <2>2, <2>4
    <2> QED BY <2>3, <2>4 DEF NoPageAhead
  <1>2. NoReceiptAhead'
    BY Keys DEF RowInv, NoReceiptAhead
  <1>3. FailuresHaveRows'
    BY DEF RowInv, FailuresHaveRows, TypeOK, Outbox!TypeOK, Outbox!Failure
  <1> QED BY <1>1, <1>2, <1>3 DEF RowInv

(* A receipt is normalized as its row closes, or was so before             *)
(* (stripe.py:371-380, runtime.py:220-225).                                *)
LEMMA RunReceiptInv == ASSUME IInv, NEW r \in Receipts, RunReceipt(r) PROVE IInv'
  <1> USE DEF IInv
  <1>1. /\ Outbox!TypeOK'
        /\ intent[ReceiptTask(r)].status = "open"
        /\ intent'[ReceiptTask(r)].status = "done"
        /\ \A w \in Task \ {ReceiptTask(r)} : intent'[w] = intent[w]
        /\ unreported' = unreported
    BY RunCloses, Keys DEF RunReceipt
  <1>2. /\ receipt' = [receipt EXCEPT ![r] = "normalized"]
        /\ handed' = handed \/ handed' = handed \union {Reconcile(r)}
    BY DEF RunReceipt, ReceiptFinished, TypeOK
  <1>3. UNCHANGED <<connector, scan, complete, active, crashes, replays>>
    BY DEF RunReceipt, Budgets
  <1>4. TypeOK'
    <2>1. handed' \in SUBSET Handed
      BY <1>2 DEF TypeOK, Handed
    <2> QED BY <1>1, <1>2, <1>3, <2>1 DEF TypeOK
  <1>5. RowInv'
    BY <1>1, <1>2, <1>3, <1>4, NoNewRows DEF TypeOK, ScanState
  <1>6. WorkInv'
    <2>1. ScanHasWork'
      BY <1>1, <1>3, Keys DEF WorkInv, ScanHasWork, Pending, Open, TypeOK, ScanState
    <2>2. ReceiptHasWork'
      BY <1>1, <1>2, <1>3, Keys DEF WorkInv, ReceiptHasWork, Open, TypeOK
    <2> QED BY <2>1, <2>2 DEF WorkInv
  <1>7. ConnectorInv'
    <2>1. Reconcile(r) # Suspended
      BY DEF Reconcile, Suspended
    <2> QED BY <1>2, <1>3, <2>1 DEF ConnectorInv, OnePendingScan, SuspensionIsFinal, Pending
  <1> QED BY <1>4, <1>5, <1>6, <1>7

(* A poll that finds a pending scan only closes its row (stripe.py:388).   *)
(* Otherwise it creates the scan with its first page (stripe.py:397-404):  *)
(* no row of an absent scan exists, so this one is new and open.           *)
LEMMA RunPollInv == ASSUME IInv, NEW t \in Ticks, RunPoll(t) PROVE IInv'
  <1> USE DEF IInv
  <1>0. /\ UNCHANGED <<connector, receipt, complete, handed, active, crashes, replays>>
        /\ connector = "active"
    BY DEF RunPoll, Budgets
  <1>1. ASSUME Run(PollTask(t), {}), UNCHANGED scan PROVE IInv'
    <2>1. /\ Outbox!TypeOK'
          /\ intent'[PollTask(t)].status = "done"
          /\ \A w \in Task \ {PollTask(t)} : intent'[w] = intent[w]
          /\ unreported' = unreported
      BY <1>1, RunCloses, Keys
    <2>2. TypeOK'
      BY <1>0, <1>1, <2>1 DEF TypeOK
    <2>3. intent[PollTask(t)].status # "absent"
      BY <1>1, RunCloses, Keys
    <2>4. RowInv'
      BY <1>0, <1>1, <2>1, <2>2, <2>3, NoNewRows DEF TypeOK, ScanState
    <2>5. WorkInv'
      BY <1>0, <1>1, <2>1, Keys DEF WorkInv, ScanHasWork, ReceiptHasWork, Pending, Open,
         TypeOK, ScanState
    <2>6. ConnectorInv'
      BY <1>0, <1>1 DEF ConnectorInv, OnePendingScan, SuspensionIsFinal, Pending
    <2> QED BY <2>2, <2>4, <2>5, <2>6
  <1>2. ASSUME ~ScanInProgress,
               NEW s \in Scans, scan[s].status = "absent",
               scan' = [scan EXCEPT ![s].status = "pending"],
               Run(PollTask(t), {PageTask(s, 0)})
        PROVE  IInv'
    <2>1. PageTask(s, 0) \in Task /\ intent[PageTask(s, 0)].status = "absent"
      BY <1>2, Keys DEF RowInv, NoPageAhead
    <2>2. /\ Outbox!TypeOK'
          /\ intent'[PollTask(t)].status = "done"
          /\ intent'[PageTask(s, 0)].status = "open"
          /\ \A w \in Task \ {PageTask(s, 0), PollTask(t)} : intent'[w] = intent[w]
          /\ unreported' = unreported
      BY <1>2, <2>1, RunAdds, Keys
    <2>3. /\ scan'[s].status = "pending" /\ scan'[s].page = 0
          /\ \A u \in Scans \ {s} : scan'[u] = scan[u]
          /\ scan' \in [Scans -> ScanState]
      BY <1>2 DEF TypeOK, ScanState, RowInv, NoPageAhead
    <2>4. TypeOK'
      BY <1>0, <2>2, <2>3 DEF TypeOK
    <2>5. RowInv'
      <3>1. NoPageAhead'
        <4>1. ASSUME NEW n \in 0..MaxPages, n # 0
              PROVE  intent'[PageTask(s, n)].status = "absent"
          BY <1>2, <2>2, <4>1, Keys DEF RowInv, NoPageAhead
        <4>2. \A u \in Scans \ {s}, n \in 0..MaxPages :
                intent'[PageTask(u, n)] = intent[PageTask(u, n)]
          BY <2>2, Keys
        <4> QED BY <2>3, <4>1, <4>2 DEF RowInv, NoPageAhead
      <3>2. NoReceiptAhead'
        BY <1>0, <2>2, Keys DEF RowInv, NoReceiptAhead
      <3>3. FailuresHaveRows'
        BY <2>2 DEF RowInv, FailuresHaveRows, TypeOK, Outbox!TypeOK, Outbox!Failure
      <3> QED BY <3>1, <3>2, <3>3 DEF RowInv
    <2>6. WorkInv'
      <3>1. \A u \in Scans \ {s} : ~Pending(u)'
        BY <1>2, <2>3 DEF ScanInProgress, Pending
      <3>2. ScanHasWork'
        BY <2>2, <2>3, <3>1 DEF ScanHasWork, Open, Pending
      <3>3. ReceiptHasWork'
        BY <1>0, <2>2, Keys DEF WorkInv, ReceiptHasWork, Open
      <3> QED BY <3>2, <3>3 DEF WorkInv
    <2>7. ConnectorInv'
      BY <1>0, <1>2, <2>3 DEF ConnectorInv, OnePendingScan, SuspensionIsFinal, Pending,
         ScanInProgress
    <2> QED BY <2>4, <2>5, <2>6, <2>7
  <1> QED BY <1>1, <1>2 DEF RunPoll

(* A page advances its scan and adds the row of the page that is now the   *)
(* scan's, whichever row ran (stripe.py:475-481).                          *)
LEMMA RunPageInv ==
  ASSUME IInv, NEW s \in Scans, NEW n \in 0..MaxPages, RunPage(s, n) PROVE IInv'
  <1> USE DEF IInv
  <1> DEFINE k == scan[s].page + 1
             w == PageTask(s, n)
             v == PageTask(s, k)
  <1>0. /\ UNCHANGED <<connector, receipt, complete, handed, active, crashes, replays>>
        /\ connector = "active" /\ Pending(s)
        /\ scan' = [scan EXCEPT ![s].page = @ + 1]
        /\ Run(w, {v})
    BY DEF RunPage, CanAdvance, Budgets
  <1>1. k \in 0..MaxPages /\ k > scan[s].page /\ k # 0
    BY DEF RunPage, CanAdvance, TypeOK, ScanState
  <1>2. v \in Task /\ w \in Task /\ intent[v].status = "absent"
    BY <1>1, Keys DEF RowInv, NoPageAhead, TypeOK, ScanState
  <1>3. /\ Outbox!TypeOK'
        /\ intent[w].status = "open" /\ intent'[w].status = "done"
        /\ intent'[v].status = "open"
        /\ \A x \in Task \ {v, w} : intent'[x] = intent[x]
        /\ unreported' = unreported
    BY <1>0, <1>2, RunAdds
  <1>4. /\ scan'[s].status = "pending" /\ scan'[s].page = k
        /\ \A u \in Scans \ {s} : scan'[u] = scan[u]
        /\ scan' \in [Scans -> ScanState]
    BY <1>0, <1>1 DEF TypeOK, ScanState, Pending
  <1>5. TypeOK'
    BY <1>0, <1>3, <1>4 DEF TypeOK
  <1>6. \A u \in Scans \ {s}, m \in 0..MaxPages :
          intent'[PageTask(u, m)] = intent[PageTask(u, m)]
    BY <1>1, <1>3, Keys
  <1>7. RowInv'
    <2>1. NoPageAhead'
      <3>1. ASSUME NEW m \in 0..MaxPages, intent'[PageTask(s, m)].status # "absent"
            PROVE  m <= k
        <4>1. m = k \/ intent[PageTask(s, m)].status # "absent"
          BY <1>1, <1>3, <3>1, Keys
        <4>2. scan[s].page \in 0..MaxPages
          BY DEF TypeOK, ScanState
        <4> QED BY <1>1, <4>1, <4>2 DEF RowInv, NoPageAhead
      <3> HIDE DEF k
      <3> QED BY <1>4, <1>6, <3>1 DEF RowInv, NoPageAhead
    <2>2. NoReceiptAhead'
      BY <1>0, <1>1, <1>3, Keys DEF RowInv, NoReceiptAhead
    <2>3. FailuresHaveRows'
      <3> HIDE DEF v, w
      <3> QED
        BY <1>3 DEF RowInv, FailuresHaveRows, TypeOK, Outbox!TypeOK, Outbox!Failure
    <2> QED BY <2>1, <2>2, <2>3 DEF RowInv
  <1>8. WorkInv'
    <2>1. \A u \in Scans \ {s} : ~Pending(u)'
      BY <1>0, <1>4 DEF ConnectorInv, OnePendingScan, Pending
    <2>2. ScanHasWork'
      BY <1>3, <1>4, <2>1 DEF ScanHasWork, Open, Pending
    <2>3. ReceiptHasWork'
      BY <1>0, <1>1, <1>3, Keys DEF WorkInv, ReceiptHasWork, Open
    <2> QED BY <2>2, <2>3 DEF WorkInv
  <1>9. ConnectorInv'
    BY <1>0, <1>4 DEF ConnectorInv, OnePendingScan, SuspensionIsFinal, Pending
  <1> QED BY <1>5, <1>7, <1>8, <1>9

(* The last page closes the scan (stripe.py:471-474).                      *)
LEMMA RunLastPageInv ==
  ASSUME IInv, NEW s \in Scans, NEW n \in 0..MaxPages, RunLastPage(s, n) PROVE IInv'
  <1> USE DEF IInv
  <1> DEFINE w == PageTask(s, n)
  <1>0. /\ UNCHANGED <<connector, receipt, active, crashes, replays>>
        /\ Pending(s) /\ scan[s].page < MaxPages
        /\ scan' = [scan EXCEPT ![s] = [status |-> "complete", page |-> scan[s].page + 1]]
        /\ complete' = TRUE
        /\ handed' = handed \union {Reconcile(s)}
        /\ Run(w, {})
    BY DEF RunLastPage, CanAdvance, Budgets
  <1>1. /\ Outbox!TypeOK'
        /\ intent[w].status = "open" /\ intent'[w].status = "done"
        /\ \A x \in Task \ {w} : intent'[x] = intent[x]
        /\ unreported' = unreported
    BY <1>0, RunCloses, Keys
  <1>2. /\ scan'[s].status = "complete" /\ scan'[s].page = scan[s].page + 1
        /\ \A u \in Scans \ {s} : scan'[u] = scan[u]
        /\ scan' \in [Scans -> ScanState]
    BY <1>0 DEF TypeOK, ScanState
  <1>3. TypeOK'
    <2>1. handed' \in SUBSET Handed
      BY <1>0 DEF TypeOK, Handed
    <2> QED BY <1>0, <1>1, <1>2, <2>1 DEF TypeOK
  <1>4. RowInv'
    <2>1. \A x \in Task : intent'[x].status = "absent" <=> intent[x].status = "absent"
      BY <1>1
    <2>2. \A u \in Scans : scan[u].page \in Nat
      BY DEF TypeOK, ScanState
    <2> QED BY <1>0, <1>1, <1>2, <1>3, <2>1, <2>2, NoNewRows DEF Pending
  <1>5. WorkInv'
    <2>1. \A u \in Scans : ~Pending(u)'
      BY <1>0, <1>2 DEF ConnectorInv, OnePendingScan, Pending
    <2>2. ReceiptHasWork'
      BY <1>0, <1>1, Keys DEF WorkInv, ReceiptHasWork, Open
    <2> QED BY <2>1, <2>2 DEF WorkInv, ScanHasWork
  <1>6. ConnectorInv'
    <2>1. Reconcile(s) # Suspended
      BY DEF Reconcile, Suspended
    <2> QED BY <1>0, <1>2, <2>1 DEF ConnectorInv, OnePendingScan, SuspensionIsFinal, Pending
  <1> QED BY <1>3, <1>4, <1>5, <1>6

(* A row of a scan that is not pending only closes (stripe.py:412).        *)
LEMMA RunClosedPageInv ==
  ASSUME IInv, NEW s \in Scans, NEW n \in 0..MaxPages, RunClosedPage(s, n) PROVE IInv'
  <1> USE DEF IInv
  <1> DEFINE w == PageTask(s, n)
  <1>0. /\ ~Pending(s) /\ Run(w, {})
        /\ UNCHANGED <<connector, receipt, scan, complete, handed, active, crashes, replays>>
    BY DEF RunClosedPage, sourceVars, Budgets
  <1>1. /\ Outbox!TypeOK'
        /\ intent[w].status = "open" /\ intent'[w].status = "done"
        /\ \A x \in Task \ {w} : intent'[x] = intent[x]
        /\ unreported' = unreported
    BY <1>0, RunCloses, Keys
  <1>2. TypeOK'
    BY <1>0, <1>1 DEF TypeOK
  <1>3. RowInv'
    BY <1>0, <1>1, <1>2, NoNewRows DEF TypeOK, ScanState
  <1>4. WorkInv'
    <2>1. ASSUME NEW u \in Scans, Pending(u)
          PROVE  intent'[PageTask(u, scan[u].page)] = intent[PageTask(u, scan[u].page)]
      BY <1>0, <1>1, <2>1, Keys DEF TypeOK, ScanState
    <2>2. ScanHasWork'
      BY <1>0, <2>1 DEF WorkInv, ScanHasWork, Pending, Open
    <2>3. ReceiptHasWork'
      BY <1>0, <1>1, Keys DEF WorkInv, ReceiptHasWork, Open
    <2> QED BY <2>2, <2>3 DEF WorkInv
  <1>5. ConnectorInv'
    BY <1>0 DEF ConnectorInv, OnePendingScan, SuspensionIsFinal, Pending
  <1> QED BY <1>2, <1>3, <1>4, <1>5

(* Every run of a handler keeps the invariant.                             *)
LEMMA HandleInv == ASSUME IInv, NEW w \in Task, Handle(w) PROVE IInv'
  BY RunReceiptInv, RunPollInv, RunPageInv, RunLastPageInv, RunClosedPageInv DEF Handle

-----------------------------------------------------------------------------
(* A row of a deleted tenant is closed unrun (runtime.py:202-205): nothing *)
(* is promised of its work any more.                                       *)
LEMMA ExcuseInv == ASSUME IInv, NEW w \in Task, Excuse(w) PROVE IInv'
  <1> USE DEF IInv
  <1>0. /\ ~active
        /\ intent[w].status = "open"
        /\ intent' = [intent EXCEPT ![w].status = "done"]
        /\ UNCHANGED <<unreported, effects, reports>>
        /\ UNCHANGED <<connector, receipt, scan, complete, handed, active, crashes, replays>>
    BY DEF Excuse, Outbox!Excuse, sourceVars, Budgets
  <1>1. /\ intent' \in [Task -> Intent]
        /\ \A x \in Task : intent'[x].status = "absent" <=> intent[x].status = "absent"
    BY <1>0 DEF TypeOK, Outbox!TypeOK, Outbox!Status, Intent
  <1>2. TypeOK'
    BY <1>0, <1>1 DEF TypeOK, Outbox!TypeOK, Intent
  <1>3. RowInv'
    BY <1>0, <1>1, <1>2, NoNewRows DEF TypeOK, ScanState
  <1>4. WorkInv' /\ ConnectorInv'
    BY <1>0 DEF WorkInv, ScanHasWork, ReceiptHasWork, ConnectorInv, OnePendingScan,
       SuspensionIsFinal, Pending
  <1> QED BY <1>2, <1>3, <1>4

(* A failure leaves the rows as they are; a permanent one suspends the     *)
(* connector (runtime.py:226-235).                                         *)
LEMMA FailInv ==
  ASSUME IInv, NEW w \in Task, NEW p \in Worker, NEW b \in BOOLEAN, Fail(w, p, b)
  PROVE  IInv'
  <1> USE DEF IInv
  <1> DEFINE f == [by |-> p, work |-> w, permanent |-> b]
  <1>0. /\ intent[w].status = "open"
        /\ unreported' = unreported \union {f}
        /\ UNCHANGED <<intent, effects, reports>>
        /\ connector' = IF b THEN "suspended" ELSE connector
        /\ UNCHANGED <<receipt, scan, complete, handed, active, crashes, replays>>
    BY DEF Fail, Outbox!Fail, Budgets
  <1>1. f \in Outbox!Failure
    BY DEF Outbox!Failure
  <1>2. TypeOK'
    <2> HIDE DEF f
    <2>1. Outbox!TypeOK'
      BY <1>0, <1>1 DEF TypeOK, Outbox!TypeOK
    <2> QED BY <1>0, <2>1 DEF TypeOK
  <1>3. RowInv'
    <2>1. NoPageAhead' /\ NoReceiptAhead'
      BY <1>0 DEF RowInv, NoPageAhead, NoReceiptAhead
    <2>2. FailuresHaveRows'
      BY <1>0 DEF RowInv, FailuresHaveRows
    <2> QED BY <2>1, <2>2 DEF RowInv
  <1>4. WorkInv'
    BY <1>0 DEF WorkInv, ScanHasWork, ReceiptHasWork, Pending, Open
  <1>5. ConnectorInv'
    BY <1>0 DEF ConnectorInv, OnePendingScan, SuspensionIsFinal, Pending
  <1> QED BY <1>2, <1>3, <1>4, <1>5

(* The second transaction (runtime.py:239-281).  The row it writes exists. *)
(* If it was the current page of a pending scan it is open again, or dead  *)
(* and the scan is closed with it; likewise for a receipt.                 *)
LEMMA ReportInv == ASSUME IInv, NEW f \in unreported, Report(f) PROVE IInv'
  <1> USE DEF IInv
  <1> DEFINE w == f.work
             dead == Outbox!FailedIntent(w, f.permanent).status = "dead"
  <1>0. /\ Outbox!Report(f, {})
        /\ receipt' = [r \in Receipts |->
                         IF dead /\ w = ReceiptTask(r) THEN "failed" ELSE receipt[r]]
        /\ scan' = [s \in Scans |->
                      IF Closes(f, dead, s) THEN [scan[s] EXCEPT !.status = "failed"]
                                            ELSE scan[s]]
        /\ complete' = (complete /\ ~dead)
        /\ connector' = IF f.permanent THEN "suspended" ELSE connector
        /\ handed' = handed \union Notices(f)
        /\ UNCHANGED <<active, crashes, replays>>
    BY DEF Report, Budgets
  <1>1. /\ Outbox!TypeOK'
        /\ w \in Task /\ f.permanent \in BOOLEAN
        /\ intent'[w].status = IF dead THEN "dead" ELSE "open"
        /\ \A x \in Task \ {w} : intent'[x] = intent[x]
        /\ unreported' \subseteq unreported
    BY <1>0, ReportWrites
  <1>2. intent[w].status # "absent"
    BY DEF RowInv, FailuresHaveRows
  <1>3. dead \in BOOLEAN
    OBVIOUS
  <1> HIDE DEF w, dead
  <1>4. /\ scan' \in [Scans -> ScanState]
        /\ \A s \in Scans : scan'[s].page = scan[s].page
        /\ \A s \in Scans : scan'[s].status =
             IF Closes(f, dead, s) THEN "failed" ELSE scan[s].status
    BY <1>0 DEF TypeOK, ScanState
  <1>5. TypeOK'
    <2>1. handed' \in SUBSET Handed
      BY <1>0 DEF TypeOK, Handed, Notices
    <2>2. receipt' \in [Receipts -> {"absent", "pending", "normalized", "failed"}]
      BY <1>0 DEF TypeOK
    <2> QED BY <1>0, <1>1, <1>4, <2>1, <2>2 DEF TypeOK
  <1>6. RowInv'
    <2>1. \A x \in Task : intent'[x].status = "absent" <=> intent[x].status = "absent"
      BY <1>1, <1>2
    <2>2. \A r \in Receipts : receipt'[r] = "absent" => receipt[r] = "absent"
      BY <1>0
    <2>3. \A s \in Scans : /\ scan[s].status # "absent" => scan'[s].status # "absent"
                           /\ scan'[s].page >= scan[s].page
                           /\ scan[s].status = "absent" => scan'[s] = scan[s]
      BY <1>0, <1>4 DEF Closes, Pending, TypeOK, ScanState
    <2> QED BY <1>1, <1>5, <2>1, <2>2, <2>3, NoNewRows
  <1>7. WorkInv'
    <2>1. ASSUME active, NEW s \in Scans, scan'[s].status = "pending"
          PROVE  intent'[PageTask(s, scan'[s].page)].status = "open"
      <3>1. /\ Pending(s) /\ ~Closes(f, dead, s)
            /\ scan'[s].page = scan[s].page /\ scan[s].page \in 0..MaxPages
        BY <1>4, <2>1 DEF Pending, TypeOK, ScanState
      <3>2. w # PageTask(s, scan[s].page) \/ ~dead
        BY <3>1 DEF Closes, w
      <3>3. intent[PageTask(s, scan[s].page)].status = "open"
        BY <2>1, <3>1 DEF WorkInv, ScanHasWork, Open
      <3> QED BY <1>1, <3>1, <3>2, <3>3, Keys
    <2>2. ReceiptHasWork'
      <3>1. ASSUME active, NEW r \in Receipts
            PROVE  /\ receipt'[r] = "pending" => intent'[ReceiptTask(r)].status = "open"
                   /\ receipt'[r] = "failed"
                        => intent'[ReceiptTask(r)].status \in {"open", "dead"}
        <4>1. CASE w = ReceiptTask(r)
          BY <1>0, <1>1, <4>1
        <4>2. CASE w # ReceiptTask(r)
          BY <1>0, <1>1, <3>1, <4>2, Keys DEF WorkInv, ReceiptHasWork, Open
        <4> QED BY <4>1, <4>2
      <3> QED BY <1>0, <3>1 DEF ReceiptHasWork, Open
    <2> QED BY <1>0, <2>1, <2>2 DEF WorkInv, ScanHasWork, Pending, Open
  <1>8. ConnectorInv'
    <2>1. \A s \in Scans : Pending(s)' => Pending(s) /\ ~f.permanent
      BY <1>4 DEF Pending, Closes
    <2>2. OnePendingScan'
      BY <2>1 DEF ConnectorInv, OnePendingScan
    <2>3. SuspensionIsFinal'
      BY <1>0, <1>1, <2>1 DEF ConnectorInv, SuspensionIsFinal, Notices
    <2> QED BY <2>2, <2>3 DEF ConnectorInv
  <1> QED BY <1>5, <1>6, <1>7, <1>8

(* A worker lost before the second transaction forgets its failure.        *)
LEMMA CrashInv == ASSUME IInv, NEW f \in unreported, Crash(f) PROVE IInv'
  <1> USE DEF IInv
  <1>0. /\ crashes < MaxCrashes /\ crashes' = crashes + 1
        /\ unreported' = unreported \ {f}
        /\ UNCHANGED <<intent, effects, reports>>
        /\ UNCHANGED <<connector, receipt, scan, complete, handed, active, replays>>
    BY DEF Crash, Outbox!Forget, sourceVars
  <1>1. TypeOK'
    <2>1. crashes' \in 0..MaxCrashes
      BY <1>0 DEF TypeOK
    <2>2. Outbox!TypeOK'
      BY <1>0 DEF TypeOK, Outbox!TypeOK
    <2> QED BY <1>0, <2>1, <2>2 DEF TypeOK
  <1>2. RowInv'
    BY <1>0 DEF RowInv, NoPageAhead, NoReceiptAhead, FailuresHaveRows
  <1>3. WorkInv' /\ ConnectorInv'
    BY <1>0 DEF WorkInv, ScanHasWork, ReceiptHasWork, Pending, Open, ConnectorInv,
       OnePendingScan, SuspensionIsFinal
  <1> QED BY <1>1, <1>2, <1>3

(* A replayed row was dead, so it is no pending work (replay_work.py).     *)
LEMMA ReplayInv == ASSUME IInv, NEW w \in Task, Replay(w) PROVE IInv'
  <1> USE DEF IInv
  <1>0. /\ replays < MaxReplays /\ replays' = replays + 1
        /\ intent[w].status = "dead"
        /\ intent' = [intent EXCEPT ![w] = Outbox!NewIntent]
        /\ UNCHANGED <<unreported, effects, reports>>
        /\ UNCHANGED <<connector, receipt, scan, complete, handed, active, crashes>>
    BY DEF Replay, Outbox!Replay, sourceVars
  <1>1. /\ intent' \in [Task -> Intent]
        /\ intent'[w].status = "open"
        /\ \A x \in Task \ {w} : intent'[x] = intent[x]
    BY <1>0, IntentTypes DEF TypeOK, Outbox!TypeOK, Intent, Outbox!NewIntent
  <1>2. TypeOK'
    <2>1. replays' \in 0..MaxReplays
      BY <1>0 DEF TypeOK
    <2>2. Outbox!TypeOK'
      BY <1>0, <1>1 DEF TypeOK, Outbox!TypeOK, Intent
    <2> QED BY <1>0, <2>1, <2>2 DEF TypeOK
  <1>3. RowInv'
    BY <1>0, <1>1, <1>2, NoNewRows DEF TypeOK, ScanState
  <1>4. \A x \in Task : intent[x].status = "open" => intent'[x].status = "open"
    BY <1>0, <1>1
  <1>5. WorkInv'
    <2>1. \A s \in Scans : PageTask(s, scan[s].page) \in Task
      BY Keys DEF TypeOK, ScanState
    <2>2. \A r \in Receipts :
            intent[ReceiptTask(r)].status = "dead"
              => intent'[ReceiptTask(r)].status \in {"open", "dead"}
      BY <1>1, Keys
    <2> QED
      BY <1>0, <1>4, <2>1, <2>2, Keys DEF WorkInv, ScanHasWork, ReceiptHasWork, Pending, Open
  <1>6. ConnectorInv'
    BY <1>0 DEF ConnectorInv, OnePendingScan, SuspensionIsFinal, Pending
  <1> QED BY <1>2, <1>3, <1>5, <1>6

(* The owner disconnects, or asks for the tenant's deletion                *)
(* (stripe.py:484-491, api.py:716-730).                                    *)
LEMMA OwnerInv == ASSUME IInv, Disconnect \/ DeleteOrganization PROVE IInv'
  <1> USE DEF IInv
  <1>0. /\ UNCHANGED <<intent, unreported, effects, reports, receipt, scan, crashes, replays>>
        /\ connector' = "disconnected"
        /\ complete' \in BOOLEAN
        /\ active' \in BOOLEAN /\ (active' => active)
        /\ handed' \subseteq handed \union {Disconnected, Deleted}
    BY DEF Disconnect, DeleteOrganization, outboxVars, Budgets, TypeOK
  <1>1. TypeOK'
    <2>1. handed' \in SUBSET Handed
      BY <1>0 DEF TypeOK, Handed
    <2>2. Outbox!TypeOK'
      BY <1>0 DEF TypeOK, Outbox!TypeOK
    <2> QED BY <1>0, <2>1, <2>2 DEF TypeOK
  <1>2. RowInv'
    BY <1>0 DEF RowInv, NoPageAhead, NoReceiptAhead, FailuresHaveRows
  <1>3. WorkInv'
    BY <1>0 DEF WorkInv, ScanHasWork, ReceiptHasWork, Pending, Open
  <1>4. ConnectorInv'
    <2>1. Suspended # Disconnected /\ Suspended # Deleted
      BY DEF Suspended, Disconnected, Deleted
    <2> QED BY <1>0, <2>1 DEF ConnectorInv, OnePendingScan, SuspensionIsFinal, Pending
  <1> QED BY <1>1, <1>2, <1>3, <1>4

-----------------------------------------------------------------------------
(* The invariant holds in every reachable state of the intake.             *)
THEOREM IntakeInvariant == SafeSpec => []IInv
  <1>1. IInv /\ [Next]_vars => IInv'
    <2> SUFFICES ASSUME IInv, [Next]_vars PROVE IInv'
      OBVIOUS
    <2>1. CASE UNCHANGED vars
      BY <2>1 DEF IInv, vars, outboxVars, sourceVars, TypeOK, Outbox!TypeOK, RowInv,
         NoPageAhead, NoReceiptAhead, FailuresHaveRows, WorkInv, ScanHasWork,
         ReceiptHasWork, ConnectorInv, OnePendingScan, SuspensionIsFinal, Pending, Open
    <2>2. ASSUME NEW w \in Task, Attempt(w) PROVE IInv'
      BY <2>2, HandleInv, FailInv DEF Attempt
    <2> QED
      BY <2>1, <2>2, WebhookInv, ScheduleInv, ExcuseInv, ReplayInv, ReportInv, CrashInv,
         OwnerInv DEF Next
  <1> QED BY <1>1, InitIInv, PTL DEF SafeSpec

(* Every variable of the intake keeps its type.                            *)
THEOREM IntakeTypes == SafeSpec => []TypeOK
  BY IntakeInvariant, PTL DEF IInv

(* A pending scan has its current page in the outbox, so it goes on        *)
(* (stripe.py:388, 404, 481).                                              *)
THEOREM ScansGoOn == SafeSpec => []ScanHasWork
  BY IntakeInvariant, PTL DEF IInv, WorkInv

(* No webhook receipt is forgotten: it is normalized, still to be run, or  *)
(* failed with exhausted work (runtime.py:262-265).                        *)
THEOREM ReceiptsAreKept == SafeSpec => []ReceiptHasWork
  BY IntakeInvariant, PTL DEF IInv, WorkInv

(* Overlapping polls never make a second pending scan (stripe.py:387-389). *)
THEOREM OneScanAtATime == SafeSpec => []OnePendingScan
  BY IntakeInvariant, PTL DEF IInv, ConnectorInv

(* A connector whose suspension was announced scans nothing more           *)
(* (runtime.py:274-281).                                                   *)
THEOREM AnnouncedSuspensionIsFinal == SafeSpec => []SuspensionIsFinal
  BY IntakeInvariant, PTL DEF IInv, ConnectorInv

-----------------------------------------------------------------------------
ClosedStay ==
  \A s \in Scans : scan[s].status \in {"complete", "failed"} => scan'[s] = scan[s]

(* Only polls, pages and recorded failures write a scan, and each finds it *)
(* absent or pending (stripe.py:397, 412, runtime.py:269, 278).            *)
LEMMA ClosedStep == TypeOK /\ [Next]_vars => ClosedStay
  <1> SUFFICES ASSUME TypeOK, [Next]_vars PROVE ClosedStay
    OBVIOUS
  <1> USE DEF ClosedStay, Pending
  <1>1. CASE UNCHANGED scan
    BY <1>1
  <1>2. ASSUME NEW t \in Ticks, RunPoll(t) PROVE ClosedStay
    BY <1>2 DEF RunPoll, TypeOK
  <1>3. ASSUME NEW s \in Scans, NEW n \in 0..MaxPages, RunPage(s, n) \/ RunLastPage(s, n)
        PROVE  ClosedStay
    BY <1>3 DEF RunPage, RunLastPage, CanAdvance, TypeOK
  <1>4. ASSUME NEW f \in unreported, Report(f) PROVE ClosedStay
    BY <1>4 DEF Report, Closes
  <1>5. ASSUME NEW w \in Task, Attempt(w) PROVE ClosedStay
    BY <1>1, <1>2, <1>3, <1>5 DEF Attempt, Handle, Fail, RunReceipt, RunClosedPage, sourceVars
  <1> QED
    BY <1>1, <1>4, <1>5 DEF Next, Webhook, Schedule, Excuse, Crash, Replay, Disconnect,
       DeleteOrganization, vars, sourceVars

(* A closed scan is never reopened, failed or advanced.                    *)
THEOREM ScansStayClosed == SafeSpec => ClosedScanStays
  <1>1. TypeOK /\ [Next]_vars => [ClosedStay]_vars
    BY ClosedStep
  <1> QED BY <1>1, IntakeTypes, PTL DEF SafeSpec, ClosedScanStays, ClosedStay

-----------------------------------------------------------------------------
(* The handlers use the outbox as its contract says: what a handler adds,  *)
(* fails or closes is a step of WorkIntent, which WorkQueue implements.    *)
LEMMA OutboxStep == TypeOK /\ [Next]_vars => [Outbox!Next]_outboxVars
  <1> SUFFICES ASSUME TypeOK, [Next]_vars PROVE Outbox!Next \/ UNCHANGED outboxVars
    BY DEF Outbox!vars, outboxVars
  <1>1. ASSUME NEW r \in Receipts, Webhook(r) PROVE Outbox!Next
    BY <1>1, Keys DEF Webhook, Outbox!Next
  <1>2. ASSUME NEW t \in Ticks, Schedule(t) PROVE Outbox!Next
    BY <1>2, Keys DEF Schedule, Outbox!Next
  <1>3. ASSUME NEW w \in Task, NEW new \in SUBSET Task, Run(w, new) PROVE Outbox!Next
    BY <1>3 DEF Run, Outbox!Next
  <1>4. ASSUME NEW w \in Task, Handle(w) PROVE Outbox!Next
    <2>1. ASSUME NEW r \in Receipts, RunReceipt(r) PROVE Outbox!Next
      BY <1>3, <2>1, Keys DEF RunReceipt
    <2>2. ASSUME NEW t \in Ticks, RunPoll(t) PROVE Outbox!Next
      <3>1. \A s \in Scans : {PageTask(s, 0)} \in SUBSET Task
        BY Keys
      <3> QED BY <1>3, <2>2, <3>1, Keys DEF RunPoll
    <2>3. ASSUME NEW s \in Scans, NEW n \in 0..MaxPages,
                 RunPage(s, n) \/ RunLastPage(s, n) \/ RunClosedPage(s, n)
          PROVE  Outbox!Next
      <3>1. CanAdvance(s) => {PageTask(s, scan[s].page + 1)} \in SUBSET Task
        BY Keys DEF CanAdvance, TypeOK, ScanState
      <3>2. PageTask(s, n) \in Task
        BY Keys
      <3> QED BY <1>3, <2>3, <3>1, <3>2 DEF RunPage, RunLastPage, RunClosedPage
    <2> QED BY <1>4, <2>1, <2>2, <2>3 DEF Handle
  <1>5. ASSUME NEW w \in Task, NEW p \in Worker, NEW b \in BOOLEAN, Fail(w, p, b)
        PROVE  Outbox!Next
    <2>1. [by |-> p, work |-> w, permanent |-> b] \in Outbox!Failure
      BY DEF Outbox!Failure
    <2> QED BY <1>5, <2>1 DEF Fail, Outbox!Next
  <1>6. ASSUME NEW w \in Task, Excuse(w) \/ Replay(w) PROVE Outbox!Next
    BY <1>6 DEF Excuse, Replay, Outbox!Next
  <1>7. ASSUME NEW f \in unreported, Report(f) \/ Crash(f) PROVE Outbox!Next
    <2>1. f \in Outbox!Failure
      BY DEF TypeOK, Outbox!TypeOK
    <2>2. CASE Report(f)
      <3>1. Outbox!Report(f, {}) /\ {} \in SUBSET Task
        BY <2>2 DEF Report
      <3> QED BY <2>1, <3>1 DEF Outbox!Next
    <2>3. CASE Crash(f)
      BY <2>1, <2>3 DEF Crash, Outbox!Next
    <2> QED BY <1>7, <2>2, <2>3
  <1>8. CASE Disconnect \/ DeleteOrganization \/ UNCHANGED vars
    BY <1>8 DEF Disconnect, DeleteOrganization, vars, outboxVars
  <1> QED
    BY <1>1, <1>2, <1>4, <1>5, <1>6, <1>7, <1>8 DEF Next, Attempt

(* The intake implements the outbox contract: src/modules/connectors/      *)
(* stripe.py and what runtime.py does to its rows never do to a row what   *)
(* WorkIntent does not allow.                                              *)
THEOREM IntakeKeepsContract == SafeSpec => Outbox!Spec
  <1>1. Init => Outbox!Init
    BY DEF Init
  <1>2. TypeOK /\ [Next]_vars => [Outbox!Next]_(Outbox!vars)
    BY OutboxStep DEF Outbox!vars, outboxVars
  <1> QED BY <1>1, <1>2, IntakeTypes, PTL DEF SafeSpec, Outbox!Spec

-----------------------------------------------------------------------------
(* Credentials and Pairing *)

USE CredentialAssumption, PairingAssumption

(* Who carries a token that is in no row yet.                              *)
Carries(c) == callback[c].step \in {"answered", "saving"}
Exchanged(i) == job[i].step = "exchanged"

(* stripe_active_account_mode_uniq                                         *)
OneActive == \A i, j \in Stripes : Active(i) /\ Active(j) => i = j

(* Nobody takes the row away from the worker that holds it.                *)
HeldIsActive == \A i \in Stripes : Held(i) => Active(i)

TokensWereIssued ==
  /\ honoured \subseteq 1 .. issued
  /\ \A i \in Stripes : stripe[i].token <= issued

TokensAreApart ==
  \A c \in Consent : Carries(c) =>
    /\ callback[c].token \in honoured
    /\ \A d \in Consent \ {c} : Carries(d) => callback[d].token # callback[c].token
    /\ \A i \in Stripes : /\ stripe[i].token # callback[c].token
                          /\ Exchanged(i) => job[i].token # callback[c].token

CurrentTokenWorks ==
  \A i \in Stripes :
    /\ Exchanged(i) => job[i].token \in honoured
    /\ Active(i) /\ ~Exchanged(i) /\ i \notin lost => stripe[i].token \in honoured

ConnectorsInv == OneActive /\ HeldIsActive
TokensInv == TokensWereIssued /\ TokensAreApart /\ CurrentTokenWorks
CredentialInv == CredentialTypeOK /\ ConnectorsInv /\ TokensInv

-----------------------------------------------------------------------------
StripeRow ==
  [status : {"none", "active", "disconnected", "suspended"}, token : Token, expired : BOOLEAN]
CallbackRow ==
  [step : {"away", "exchanging", "answered", "saving"}, token : Token,
   found : Stripes \union {Nobody}]
JobRow == [step : {"idle", "locked", "exchanged"}, token : Token]

(* The initial state satisfies the invariant: no token was issued.         *)
LEMMA InitCredentials == CredentialInit => CredentialInv
  <1> SUFFICES ASSUME CredentialInit PROVE CredentialInv
    OBVIOUS
  <1> USE DEF CredentialInit, NoJob, Away
  <1>1. CredentialTypeOK
    <2>1. 0 \in Token /\ 0 \in 0 .. MaxTokenCrashes
      BY DEF Token
    <2> QED BY <2>1 DEF CredentialTypeOK
  <1>2. ConnectorsInv
    BY DEF ConnectorsInv, OneActive, HeldIsActive, Active, Held
  <1>3. TokensInv
    BY DEF TokensInv, TokensWereIssued, TokensAreApart, CurrentTokenWorks, Carries,
       Exchanged, Active
  <1> QED BY <1>1, <1>2, <1>3 DEF CredentialInv

(* Writing the status and the token of one installation.                   *)
LEMMA SetWrites ==
  ASSUME CredentialTypeOK, NEW i \in Stripes, NEW t \in Token,
         NEW status \in {"active", "disconnected", "suspended"}, Set(i, status, t)
  PROVE  /\ stripe' \in [Stripes -> StripeRow]
         /\ stripe'[i].status = status /\ stripe'[i].token = t
         /\ \A j \in Stripes \ {i} : stripe'[j] = stripe[j]
  BY DEF CredentialTypeOK, Set, StripeRow

(* A step of a request that writes no installation keeps the invariant if  *)
(* what it comes to carry is a token that Stripe has just issued, or the   *)
(* one it carried.                                                         *)
LEMMA CallbackKeeps ==
  ASSUME CredentialInv, CredentialTypeOK', NEW c \in Consent,
         UNCHANGED <<stripe, job, lost>>,
         \A d \in Consent \ {c} : callback'[d] = callback[d],
         \/ UNCHANGED <<honoured, issued>> /\ ~Carries(c)'
         \/ /\ UNCHANGED <<honoured, issued>>
            /\ Carries(c) /\ callback'[c].token = callback[c].token
         \/ /\ issued' = issued + 1 /\ honoured' = honoured \union {issued'}
            /\ callback'[c].token = issued'
  PROVE  CredentialInv'
  <1> USE DEF CredentialInv
  <1>1. ConnectorsInv'
    BY DEF ConnectorsInv, OneActive, HeldIsActive, Active, Held
  <1>2. /\ issued \in Nat
        /\ \A i \in Stripes : stripe[i].token \in Nat /\ job[i].token \in Nat
        /\ \A d \in Consent : callback[d].token \in Nat
        /\ honoured \subseteq 1 .. issued
        /\ \A i \in Stripes : stripe[i].token <= issued
    BY DEF CredentialTypeOK, Token, TokensInv, TokensWereIssued
  <1>3. TokensWereIssued'
    <2>1. CASE UNCHANGED <<honoured, issued>>
      BY <1>2, <2>1 DEF TokensWereIssued
    <2>2. CASE issued' = issued + 1 /\ honoured' = honoured \union {issued'}
      <3>1. 1 .. issued \subseteq 1 .. issued' /\ issued' \in 1 .. issued'
        BY <1>2, <2>2
      <3>2. \A i \in Stripes : stripe'[i].token <= issued'
        BY <1>2, <2>2
      <3> QED BY <1>2, <2>2, <3>1, <3>2 DEF TokensWereIssued
    <2> QED BY <2>1, <2>2
  <1>4. CurrentTokenWorks'
    BY DEF TokensInv, CurrentTokenWorks, Exchanged, Active
  <1>5. TokensAreApart'
    <2>1. \A d \in Consent : Carries(d) => callback[d].token <= issued
      <3>1. \A d \in Consent : Carries(d) => callback[d].token \in honoured
        BY DEF TokensInv, TokensAreApart
      <3> QED BY <1>2, <3>1
    <2>2. \A i \in Stripes : Exchanged(i) => job[i].token <= issued
      <3>1. \A i \in Stripes : Exchanged(i) => job[i].token \in honoured
        BY DEF TokensInv, CurrentTokenWorks
      <3> QED BY <1>2, <3>1
    <2>3. \A i \in Stripes : Exchanged(i)' = Exchanged(i)
      BY DEF Exchanged
    <2>4. \A d \in Consent \ {c} : Carries(d)' = Carries(d)
      BY DEF Carries
    <2>5. \A x \in honoured : x \in honoured'
      OBVIOUS
    <2>6. CASE ~Carries(c)'
      BY <2>3, <2>4, <2>5, <2>6 DEF TokensInv, TokensAreApart
    <2>7. CASE Carries(c) /\ callback'[c].token = callback[c].token
      BY <2>3, <2>4, <2>5, <2>7 DEF TokensInv, TokensAreApart
    <2>8. CASE issued' = issued + 1 /\ honoured' = honoured \union {issued'}
               /\ callback'[c].token = issued'
      <3>1. \A d \in Consent \ {c} : Carries(d) => callback'[d].token # callback'[c].token
        BY <1>2, <2>1, <2>8
      <3>2. \A i \in Stripes : /\ stripe'[i].token # callback'[c].token
                               /\ Exchanged(i) => job'[i].token # callback'[c].token
        BY <1>2, <2>2, <2>8
      <3>3. callback'[c].token \in honoured'
        BY <2>8
      <3> QED BY <2>3, <2>4, <2>5, <3>1, <3>2, <3>3 DEF TokensInv, TokensAreApart
    <2> QED BY <2>6, <2>7, <2>8
  <1> QED BY <1>1, <1>3, <1>4, <1>5 DEF TokensInv

(* The steps of consent: none but the last writes an installation          *)
(* (stripe.py:61-140).                                                     *)
LEMMA ConsentInv ==
  ASSUME CredentialInv, NEW c \in Consent,
         \/ oauth_start(c) \/ CallbackBegins(c) \/ ExchangeCode(c) \/ ExchangeCodeFails(c)
         \/ CallbackLooks(c) \/ CallbackConflicts(c) \/ CallbackCrashes(c)
  PROVE  CredentialInv'
  <1> USE DEF workerVars, atStripe
  <1>0. CredentialTypeOK /\ callback[c] \in CallbackRow /\ Away \in CallbackRow
    BY DEF CredentialInv, CredentialTypeOK, CallbackRow, Away, Token
  <1>1. CASE oauth_start(c)
    <2>1. CredentialTypeOK'
      BY <1>0, <1>1 DEF oauth_start, CredentialTypeOK
    <2> QED
      BY <1>1, <2>1 DEF oauth_start, CredentialInv, ConnectorsInv, OneActive, HeldIsActive,
         Active, Held, TokensInv, TokensWereIssued, TokensAreApart, CurrentTokenWorks,
         Carries, Exchanged
  <1>2. CASE CallbackBegins(c)
    <2>1. /\ callback' \in [Consent -> CallbackRow] /\ callback'[c].step = "exchanging"
          /\ \A d \in Consent \ {c} : callback'[d] = callback[d]
      BY <1>0, <1>2 DEF CallbackBegins, CredentialTypeOK, CallbackRow
    <2>2. CredentialTypeOK'
      BY <1>0, <1>2, <2>1 DEF CallbackBegins, CredentialTypeOK, CallbackRow
    <2> QED BY <1>2, <2>1, <2>2, CallbackKeeps DEF CallbackBegins, Carries
  <1>3. CASE ExchangeCode(c)
    <2>1. issued' = issued + 1 /\ issued' \in Token \ {0}
      BY <1>0, <1>3 DEF ExchangeCode, CredentialTypeOK, Token
    <2>2. /\ callback' \in [Consent -> CallbackRow] /\ callback'[c].token = issued'
          /\ \A d \in Consent \ {c} : callback'[d] = callback[d]
      BY <1>0, <1>3, <2>1 DEF ExchangeCode, CredentialTypeOK, CallbackRow
    <2>3. CredentialTypeOK'
      BY <1>0, <1>3, <2>1, <2>2 DEF ExchangeCode, CredentialTypeOK, CallbackRow
    <2> QED BY <1>3, <2>1, <2>2, <2>3, CallbackKeeps DEF ExchangeCode
  <1>4. CASE ExchangeCodeFails(c) \/ CallbackConflicts(c) \/ CallbackCrashes(c)
    <2>1. /\ callback' = [callback EXCEPT ![c] = Away]
          /\ UNCHANGED <<tenant, stripe, job, reporting, lost, honoured, issued>>
      BY <1>4 DEF ExchangeCodeFails, CallbackConflicts, CallbackCrashes, RollBack
    <2>2. /\ redeemed' \subseteq Consent /\ consent' \in [Consent -> {"none", "open", "used"}]
          /\ tokenCrashes' \in 0 .. MaxTokenCrashes
      BY <1>0, <1>4 DEF ExchangeCodeFails, CallbackConflicts, CallbackCrashes, RollBack,
         CredentialTypeOK
    <2>3. /\ callback' \in [Consent -> CallbackRow] /\ callback'[c] = Away
          /\ \A d \in Consent \ {c} : callback'[d] = callback[d]
      BY <1>0, <2>1 DEF CredentialTypeOK, CallbackRow
    <2>4. CredentialTypeOK'
      BY <1>0, <2>1, <2>2, <2>3 DEF CredentialTypeOK, CallbackRow
    <2> QED BY <2>1, <2>3, <2>4, CallbackKeeps DEF Carries, Away
  <1>5. CASE CallbackLooks(c)
    <2>1. PICK i \in Stripes \union {Nobody} :
            callback' = [callback EXCEPT ![c] = [@ EXCEPT !.step = "saving", !.found = i]]
      BY <1>5 DEF CallbackLooks
    <2>2. /\ callback' \in [Consent -> CallbackRow]
          /\ callback'[c].step = "saving" /\ callback'[c].token = callback[c].token
          /\ \A d \in Consent \ {c} : callback'[d] = callback[d]
      BY <1>0, <2>1 DEF CredentialTypeOK, CallbackRow
    <2>3. CredentialTypeOK'
      BY <1>0, <1>5, <2>2 DEF CallbackLooks, CredentialTypeOK, CallbackRow
    <2> QED BY <1>5, <2>2, <2>3, CallbackKeeps DEF CallbackLooks, Carries
  <1> QED BY <1>1, <1>2, <1>3, <1>4, <1>5

(* A request saves the token it carries, over whatever its installation    *)
(* had: the token is Stripe's, and nobody else's (stripe.py:141-180).      *)
LEMMA CallbackSavesInv == ASSUME CredentialInv, NEW c \in Consent, CallbackSaves(c) PROVE CredentialInv'
  <1> USE DEF CredentialInv
  <1> DEFINE t == callback[c].token
  <1>1. PICK i \in Stripes :
          /\ ~Held(i) /\ Unique(i)
          /\ Set(i, "active", t)
          /\ lost' = lost \ {i}
    BY DEF CallbackSaves
  <1>2. /\ Carries(c) /\ t \in Token
        /\ consent' = [consent EXCEPT ![c] = "used"]
        /\ callback' = [callback EXCEPT ![c] = Away]
        /\ UNCHANGED <<tenant, job, reporting, honoured, redeemed, issued, tokenCrashes>>
    BY DEF CallbackSaves, Carries, atStripe, CredentialTypeOK
  <1> HIDE DEF t
  <1>3. /\ stripe' \in [Stripes -> StripeRow]
        /\ stripe'[i].status = "active" /\ stripe'[i].token = t
        /\ \A j \in Stripes \ {i} : stripe'[j] = stripe[j]
    BY <1>1, <1>2, SetWrites
  <1>4. /\ callback' \in [Consent -> CallbackRow] /\ callback'[c] = Away
        /\ \A d \in Consent \ {c} : callback'[d] = callback[d]
    <2>1. callback \in [Consent -> CallbackRow] /\ Away \in CallbackRow
      BY DEF CredentialTypeOK, CallbackRow, Away, Token
    <2> QED BY <1>2, <2>1
  <1>5. CredentialTypeOK'
    <2>1. consent' \in [Consent -> {"none", "open", "used"}] /\ lost' \subseteq Stripes
      BY <1>1, <1>2 DEF CredentialTypeOK
    <2> QED BY <1>2, <1>3, <1>4, <2>1 DEF CredentialTypeOK, StripeRow, CallbackRow
  <1>6. ConnectorsInv'
    BY <1>1, <1>2, <1>3 DEF ConnectorsInv, OneActive, HeldIsActive, Active, Held, Unique
  <1>7. /\ t \in honoured
        /\ \A d \in Consent \ {c} : Carries(d) => callback[d].token # t
    BY <1>2 DEF TokensInv, TokensAreApart, t
  <1>8. TokensWereIssued'
    <2>1. t <= issued
      BY <1>7 DEF TokensInv, TokensWereIssued, CredentialTypeOK, Token
    <2> QED BY <1>2, <1>3, <2>1 DEF TokensInv, TokensWereIssued
  <1>9. TokensAreApart'
    <2>1. /\ ~Carries(c)'
          /\ \A d \in Consent \ {c} : Carries(d)' = Carries(d)
      BY <1>4 DEF Carries, Away
    <2>2. \A j \in Stripes : Exchanged(j)' = Exchanged(j) /\ job'[j] = job[j]
      BY <1>2 DEF Exchanged
    <2> QED BY <1>2, <1>3, <1>4, <1>7, <2>1, <2>2 DEF TokensInv, TokensAreApart
  <1>10. CurrentTokenWorks'
    BY <1>1, <1>2, <1>3, <1>7 DEF TokensInv, CurrentTokenWorks, Exchanged, Active
  <1> QED BY <1>5, <1>6, <1>8, <1>9, <1>10 DEF TokensInv

(* Forgetting the tokens of installations that stop being active, and of   *)
(* which no worker goes on with one, keeps the invariant.                  *)
LEMMA ForgettingKeeps ==
  ASSUME CredentialInv, CredentialTypeOK', NEW I \in SUBSET Stripes,
         UNCHANGED <<callback, honoured, issued>>,
         \A i \in I : ~Active(i)' /\ ~Held(i)' /\ stripe'[i].token = 0,
         \A j \in Stripes \ I :
           /\ stripe'[j] = stripe[j] /\ job'[j] = job[j]
           /\ Active(j) /\ j \in lost => j \in lost'
  PROVE  CredentialInv'
  <1> USE DEF CredentialInv
  <1>1. ConnectorsInv'
    BY DEF ConnectorsInv, OneActive, HeldIsActive, Active, Held
  <1>2. \A i \in I : ~Exchanged(i)'
    BY DEF Exchanged, Held
  <1>3. 0 \notin honoured /\ 0 <= issued
    BY DEF CredentialTypeOK, Token
  <1>4. TokensWereIssued'
    BY <1>3 DEF TokensInv, TokensWereIssued
  <1>5. TokensAreApart'
    <2>1. \A c \in Consent : Carries(c)' = Carries(c) /\ callback'[c] = callback[c]
      BY DEF Carries
    <2>2. \A j \in Stripes \ I : Exchanged(j)' = Exchanged(j)
      BY DEF Exchanged
    <2> QED BY <1>2, <1>3, <2>1, <2>2 DEF TokensInv, TokensAreApart
  <1>6. CurrentTokenWorks'
    BY <1>2 DEF TokensInv, CurrentTokenWorks, Exchanged, Active
  <1> QED BY <1>1, <1>4, <1>5, <1>6 DEF TokensInv

(* A worker that gives an installation up suspends it and forgets its      *)
(* token (runtime.py:228-231).                                             *)
LEMMA SuspendInv ==
  ASSUME CredentialInv, NEW i \in Stripes, Suspend(i), Release(i), UNCHANGED <<honoured, issued>>
  PROVE  CredentialInv'
  <1> USE DEF CredentialInv
  <1>1. /\ stripe' \in [Stripes -> StripeRow]
        /\ stripe'[i].status = "suspended" /\ stripe'[i].token = 0
        /\ \A j \in Stripes \ {i} : stripe'[j] = stripe[j]
    BY SetWrites DEF Suspend, Token
  <1>2. /\ job' \in [Stripes -> JobRow] /\ job'[i] = NoJob
        /\ \A j \in Stripes \ {i} : job'[j] = job[j]
    BY DEF Release, NoJob, CredentialTypeOK, JobRow, Token
  <1>3. CredentialTypeOK'
    BY <1>1, <1>2 DEF CredentialTypeOK, Suspend, Release, atStripe, StripeRow, JobRow
  <1>4. ~Active(i)' /\ ~Held(i)'
    BY <1>1, <1>2 DEF Active, Held, NoJob
  <1>5. \A j \in Stripes \ {i} : j \in lost => j \in lost'
    BY DEF Suspend
  <1>6. UNCHANGED callback
    BY DEF Release
  <1>7. PICK I \in SUBSET Stripes : I = {i}
    OBVIOUS
  <1> QED BY <1>1, <1>2, <1>3, <1>4, <1>5, <1>6, <1>7, ForgettingKeeps

(* The second transaction of a failure, and the owner, forget the token of *)
(* an installation that no worker holds (runtime.py:274-277,               *)
(* stripe.py:484-491); so does the request to delete the organization, of  *)
(* every installation (api.py:716-730).                                    *)
LEMMA PeopleForgetInv ==
  ASSUME CredentialInv,
         \/ \E i \in Stripes : ReportSuspension(i) \/ connector_disconnect(i)
         \/ deletion_request
  PROVE  CredentialInv'
  <1> USE DEF CredentialInv
  <1>1. ASSUME NEW i \in Stripes, ReportSuspension(i) \/ connector_disconnect(i)
        PROVE  CredentialInv'
    <2>1. /\ stripe' \in [Stripes -> StripeRow]
          /\ stripe'[i].status # "active" /\ stripe'[i].token = 0
          /\ \A j \in Stripes \ {i} : stripe'[j] = stripe[j]
      <3>1. PICK status \in {"suspended", "disconnected"} : Set(i, status, 0)
        BY <1>1 DEF ReportSuspension, connector_disconnect
      <3> QED BY <3>1, SetWrites DEF Token
    <2>2. /\ ~Held(i) /\ lost' = lost \ {i} /\ reporting' \subseteq reporting
          /\ UNCHANGED <<tenant, consent, callback, job, honoured, redeemed, issued, tokenCrashes>>
      BY <1>1 DEF ReportSuspension, connector_disconnect, atStripe
    <2>3. CredentialTypeOK'
      BY <2>1, <2>2 DEF CredentialTypeOK, StripeRow
    <2>4. ~Active(i)' /\ ~Held(i)'
      BY <2>1, <2>2 DEF Active, Held
    <2>5. PICK I \in SUBSET Stripes : I = {i}
      OBVIOUS
    <2> QED BY <2>1, <2>2, <2>3, <2>4, <2>5, ForgettingKeeps
  <1>2. CASE deletion_request
    <2> DEFINE I == {i \in Stripes : stripe[i].status # "none"}
    <2>1. /\ \A i \in Stripes : ~Held(i)
          /\ stripe' = [i \in Stripes |->
                          IF stripe[i].status = "none" THEN stripe[i]
                          ELSE [status |-> "disconnected", token |-> 0, expired |-> FALSE]]
          /\ tenant' = "deleted" /\ lost' = {}
          /\ UNCHANGED <<consent, callback, job, reporting, honoured, redeemed, issued, tokenCrashes>>
      BY <1>2 DEF deletion_request, atStripe
    <2>2. /\ stripe' \in [Stripes -> StripeRow]
          /\ \A i \in I : stripe'[i].status = "disconnected" /\ stripe'[i].token = 0
          /\ \A j \in Stripes \ I : stripe'[j] = stripe[j] /\ ~Active(j)
      <3>1. [status |-> "disconnected", token |-> 0, expired |-> FALSE] \in StripeRow
        BY DEF StripeRow, Token
      <3>2. stripe \in [Stripes -> StripeRow]
        BY DEF CredentialTypeOK, StripeRow
      <3>3. stripe' \in [Stripes -> StripeRow]
        BY <2>1, <3>1, <3>2
      <3> QED BY <2>1, <3>3 DEF Active
    <2>3. CredentialTypeOK'
      BY <2>1, <2>2 DEF CredentialTypeOK, StripeRow
    <2>4. \A i \in I : ~Active(i)' /\ ~Held(i)'
      BY <2>1, <2>2 DEF Active, Held
    <2>5. I \in SUBSET Stripes
      OBVIOUS
    <2> HIDE DEF I
    <2> QED BY <2>1, <2>2, <2>3, <2>4, <2>5, ForgettingKeeps
  <1> QED BY <1>1, <1>2

(* The refresh of an expired token (stripe.py:183-199): Stripe forgets the *)
(* old one, which no request and no other active installation has.         *)
LEMMA RefreshInv == ASSUME CredentialInv, NEW i \in Stripes, Refresh(i) PROVE CredentialInv'
  <1> USE DEF CredentialInv
  <1> DEFINE old == stripe[i].token
             new == issued + 1
  <1>1. /\ Held(i) /\ ~Exchanged(i) /\ old \in honoured
        /\ issued' = new /\ new \in Token \ {0}
        /\ honoured' = (honoured \ {old}) \union {new}
        /\ job' = [job EXCEPT ![i] = [step |-> "exchanged", token |-> new]]
        /\ UNCHANGED <<tenant, stripe, consent, callback, reporting, lost, redeemed, tokenCrashes>>
    BY DEF Refresh, Held, Exchanged, CredentialTypeOK, Token
  <1>2. /\ job' \in [Stripes -> JobRow]
        /\ job'[i].step = "exchanged" /\ job'[i].token = new
        /\ \A j \in Stripes \ {i} : job'[j] = job[j]
    <2>1. [step |-> "exchanged", token |-> new] \in JobRow
      BY <1>1 DEF JobRow
    <2> QED BY <1>1, <2>1 DEF CredentialTypeOK, JobRow
  <1>3. CredentialTypeOK'
    BY <1>1, <1>2 DEF CredentialTypeOK, JobRow
  <1>4. \A j \in Stripes \ {i} : ~Active(j) /\ ~Held(j) /\ ~Exchanged(j) /\ ~Exchanged(j)'
    BY <1>1, <1>2 DEF ConnectorsInv, OneActive, HeldIsActive, Held, Exchanged
  <1>5. ConnectorsInv'
    BY <1>1, <1>2, <1>4 DEF ConnectorsInv, OneActive, HeldIsActive, Active, Held
  <1>6. /\ issued \in Nat /\ honoured \subseteq 1 .. issued
        /\ \A j \in Stripes : stripe[j].token <= issued /\ stripe[j].token \in Nat
    BY DEF TokensInv, TokensWereIssued, CredentialTypeOK, Token
  <1> HIDE DEF old
  <1>7. TokensWereIssued'
    <2>1. 1 .. issued \subseteq 1 .. new /\ new \in 1 .. new
      BY <1>6
    <2> HIDE DEF new
    <2>2. \A j \in Stripes : stripe'[j].token <= issued'
      BY <1>1, <1>6 DEF new
    <2> QED BY <1>1, <1>6, <2>1, <2>2 DEF TokensWereIssued
  <1>8. TokensAreApart'
    <2>1. \A c \in Consent : Carries(c)' = Carries(c) /\ callback'[c] = callback[c]
      BY <1>1 DEF Carries
    <2>2. \A c \in Consent : Carries(c) =>
            callback[c].token \in honoured /\ callback[c].token # old
      BY DEF TokensInv, TokensAreApart, old
    <2>3. \A c \in Consent : Carries(c) => callback[c].token \in honoured' /\ callback[c].token # new
      BY <1>1, <1>6, <2>2
    <2> HIDE DEF new
    <2> QED BY <1>1, <1>2, <1>4, <2>1, <2>3 DEF TokensInv, TokensAreApart
  <1>9. CurrentTokenWorks'
    BY <1>1, <1>2, <1>4 DEF CurrentTokenWorks, Exchanged, Active
  <1> QED BY <1>3, <1>5, <1>7, <1>8, <1>9 DEF TokensInv

(* The new token is saved with the job, or lost with its worker, which is  *)
(* then recorded (runtime.py:212-235).                                     *)
LEMMA KeepTokenInv ==
  ASSUME CredentialInv, NEW i \in Stripes, NEW failed \in BOOLEAN,
         job[i].step = "exchanged", Release(i),
         Set(i, "active", Kept(i, failed)), UNCHANGED <<reporting, lost>>
  PROVE  CredentialInv'
  <1> USE DEF CredentialInv
  <1> DEFINE t == job[i].token
  <1>1. t \in Token /\ t \in honoured
    BY DEF TokensInv, CurrentTokenWorks, Exchanged, CredentialTypeOK
  <1>2. /\ stripe' \in [Stripes -> StripeRow]
        /\ stripe'[i].status = "active" /\ stripe'[i].token = t
        /\ \A j \in Stripes \ {i} : stripe'[j] = stripe[j]
    BY <1>1, SetWrites DEF Kept
  <1>3. /\ job' \in [Stripes -> JobRow] /\ job'[i] = NoJob
        /\ \A j \in Stripes \ {i} : job'[j] = job[j]
    BY DEF Release, NoJob, CredentialTypeOK, JobRow, Token
  <1>4. UNCHANGED <<tenant, consent, callback, reporting, lost, honoured, redeemed, issued,
                    tokenCrashes>>
    BY DEF Release, atStripe
  <1>5. CredentialTypeOK'
    BY <1>2, <1>3, <1>4 DEF CredentialTypeOK, StripeRow, JobRow
  <1>6. Active(i)
    BY DEF ConnectorsInv, HeldIsActive, Held
  <1>7. ConnectorsInv'
    BY <1>2, <1>3, <1>6 DEF ConnectorsInv, OneActive, HeldIsActive, Active, Held, NoJob
  <1>8. \A c \in Consent : Carries(c) => callback[c].token # t
    BY DEF TokensInv, TokensAreApart, Exchanged
  <1> HIDE DEF t
  <1>9. TokensWereIssued'
    <2>1. t <= issued
      BY <1>1 DEF TokensInv, TokensWereIssued, CredentialTypeOK, Token
    <2> QED BY <1>2, <1>4, <2>1 DEF TokensInv, TokensWereIssued
  <1>10. TokensAreApart'
    <2>1. \A c \in Consent : Carries(c)' = Carries(c) /\ callback'[c] = callback[c]
      BY <1>4 DEF Carries
    <2>2. ~Exchanged(i)' /\ \A j \in Stripes \ {i} : Exchanged(j)' = Exchanged(j)
      BY <1>3 DEF Exchanged, NoJob
    <2> QED BY <1>2, <1>3, <1>4, <1>8, <2>1, <2>2 DEF TokensInv, TokensAreApart
  <1>11. CurrentTokenWorks'
    BY <1>1, <1>2, <1>3, <1>4 DEF TokensInv, CurrentTokenWorks, Exchanged, Active, NoJob
  <1> QED BY <1>5, <1>7, <1>9, <1>10, <1>11 DEF TokensInv

(* A worker takes the row of an installation, dies with it, or leaves it   *)
(* as it was; a token runs out (runtime.py:206-235, 288-303).              *)
LEMMA WorkerKeepsInv ==
  ASSUME CredentialInv, NEW i \in Stripes,
         \/ TokenExpires(i) \/ TakeCredential(i) \/ WorkerCrashes(i)
         \/ UseToken(i) /\ UNCHANGED <<stripe, reporting, lost>>
  PROVE  CredentialInv'
  <1> USE DEF CredentialInv
  <1>1. /\ UNCHANGED <<tenant, consent, callback, reporting, honoured, redeemed, issued>>
        /\ tokenCrashes' \in 0 .. MaxTokenCrashes
    BY DEF TokenExpires, TakeCredential, WorkerCrashes, UseToken, Release, atStripe, workerVars,
       CredentialTypeOK
  <1>2. /\ stripe' \in [Stripes -> StripeRow]
        /\ \A j \in Stripes : stripe'[j].status = stripe[j].status
                              /\ stripe'[j].token = stripe[j].token
    <2>1. CASE TokenExpires(i)
      <3>1. stripe' = [stripe EXCEPT ![i].expired = TRUE]
        BY <2>1 DEF TokenExpires
      <3>2. stripe \in [Stripes -> StripeRow]
        BY DEF CredentialTypeOK, StripeRow
      <3>3. /\ [stripe[i] EXCEPT !.expired = TRUE] \in StripeRow
            /\ [stripe[i] EXCEPT !.expired = TRUE].status = stripe[i].status
            /\ [stripe[i] EXCEPT !.expired = TRUE].token = stripe[i].token
        BY <3>2 DEF StripeRow
      <3> QED BY <3>1, <3>2, <3>3
    <2>2. CASE UNCHANGED stripe
      BY <2>2 DEF CredentialTypeOK, StripeRow
    <2> QED BY <2>1, <2>2 DEF TakeCredential, WorkerCrashes
  <1>3. /\ lost \subseteq lost' /\ lost' \subseteq Stripes
        /\ Exchanged(i) => i \in lost' \/ Exchanged(i)'
    <2>1. CASE TokenExpires(i)
      BY <2>1 DEF TokenExpires, Exchanged, workerVars, CredentialTypeOK
    <2>2. CASE ~Exchanged(i) /\ UNCHANGED lost
      BY <2>2 DEF CredentialTypeOK
    <2>3. CASE WorkerCrashes(i)
      BY <2>3 DEF WorkerCrashes, Exchanged, CredentialTypeOK
    <2> QED BY <2>1, <2>2, <2>3 DEF TakeCredential, UseToken, Exchanged, Held
  <1>4. /\ job' \in [Stripes -> JobRow]
        /\ \A j \in Stripes \ {i} : job'[j] = job[j]
        /\ Held(i)' => Active(i)
        /\ Exchanged(i)' => Exchanged(i) /\ job'[i] = job[i]
    <2>1. CASE TokenExpires(i)
      BY <2>1 DEF TokenExpires, workerVars, CredentialTypeOK, JobRow, Exchanged
    <2>2. CASE TakeCredential(i)
      BY <2>2 DEF TakeCredential, CredentialTypeOK, JobRow, Exchanged
    <2>3. CASE WorkerCrashes(i) \/ UseToken(i)
      <3>1. job' = [job EXCEPT ![i] = NoJob]
        BY <2>3 DEF WorkerCrashes, UseToken, Release
      <3> QED BY <3>1 DEF NoJob, CredentialTypeOK, JobRow, Exchanged, Held, Token
    <2> QED BY <2>1, <2>2, <2>3
  <1>5. CredentialTypeOK'
    BY <1>1, <1>2, <1>3, <1>4 DEF CredentialTypeOK, StripeRow, JobRow
  <1>6. ConnectorsInv'
    BY <1>2, <1>4 DEF ConnectorsInv, OneActive, HeldIsActive, Active, Held
  <1>7. TokensWereIssued'
    BY <1>1, <1>2 DEF TokensInv, TokensWereIssued
  <1>8. TokensAreApart'
    <2>1. \A c \in Consent : Carries(c)' = Carries(c) /\ callback'[c] = callback[c]
      BY <1>1 DEF Carries
    <2>2. \A j \in Stripes : Exchanged(j)' => Exchanged(j) /\ job'[j] = job[j]
      BY <1>4 DEF Exchanged
    <2> QED BY <1>1, <1>2, <2>1, <2>2 DEF TokensInv, TokensAreApart
  <1>9. CurrentTokenWorks'
    BY <1>1, <1>2, <1>3, <1>4 DEF TokensInv, CurrentTokenWorks, Exchanged, Active
  <1> QED BY <1>5, <1>6, <1>7, <1>8, <1>9 DEF TokensInv

(* The invariant of the connector's credential holds in every state.       *)
THEOREM CredentialInvariant == CredentialSpec => []CredentialInv
  <1>1. CredentialInv /\ [CredentialNext]_credentialVars => CredentialInv'
    <2> SUFFICES ASSUME CredentialInv, [CredentialNext]_credentialVars PROVE CredentialInv'
      OBVIOUS
    <2>1. CASE UNCHANGED credentialVars
      BY <2>1 DEF credentialVars, workerVars, atStripe, CredentialInv, CredentialTypeOK,
         ConnectorsInv, OneActive, HeldIsActive, Active, Held, TokensInv, TokensWereIssued,
         TokensAreApart, CurrentTokenWorks, Carries, Exchanged
    <2>2. ASSUME NEW i \in Stripes, UseToken(i) PROVE CredentialInv'
      <3>1. UNCHANGED <<honoured, issued>>
        BY <2>2 DEF UseToken, Release, atStripe
      <3> QED BY <2>2, <3>1, SuspendInv, WorkerKeepsInv DEF UseToken
    <2>3. ASSUME NEW i \in Stripes, RefreshFails(i) PROVE CredentialInv'
      <3>1. UNCHANGED <<honoured, issued>>
        BY <2>3 DEF RefreshFails, Release, atStripe
      <3> QED BY <2>3, <3>1, SuspendInv DEF RefreshFails
    <2>4. ASSUME NEW i \in Stripes, FinishJob(i) PROVE CredentialInv'
      <3>1. UNCHANGED <<honoured, issued>>
        BY <2>4 DEF FinishJob, Release, atStripe
      <3> QED BY <2>4, <3>1, SuspendInv, KeepTokenInv DEF FinishJob
    <2> QED
      BY <2>1, <2>2, <2>3, <2>4, ConsentInv, CallbackSavesInv, PeopleForgetInv, RefreshInv,
         WorkerKeepsInv DEF CredentialNext
  <1> QED BY <1>1, InitCredentials, PTL DEF CredentialSpec

(* The token of an active connector works, whatever refreshes, consents,   *)
(* failures and deaths of workers came before (runtime.py:206-233).        *)
THEOREM TokensWork == CredentialSpec => []StoredTokenWorks
  <1>1. CredentialInv => StoredTokenWorks
    BY DEF CredentialInv, TokensInv, CurrentTokenWorks, StoredTokenWorks, Held, Exchanged
  <1> QED BY <1>1, CredentialInvariant, PTL

-----------------------------------------------------------------------------
(* Requests that may still be served.                                      *)
Requests == underWay \union ({waiting} \ {NoRequest})
Rotations == {q \in Requests : q.kind = "rotate"}

KeysWereGenerated ==
  /\ identity.key <= generated /\ claimOption.key <= generated /\ rotation <= generated
  /\ \A c \in Code : usedBy[c] <= generated
  /\ \A q \in Requests : q.key <= generated
  /\ \A q \in Rotations : q.new <= generated
  /\ \A k \in PluginKey : k <= generated \/ registered[k].expiry = "never"

(* One request at a time: the options are those it was made from           *)
(* (plugin.php:136-148, 184-192).                                          *)
WaitingIsCurrent ==
  /\ waiting.kind = "claim" =>
       claimOption = [key |-> waiting.key, code |-> waiting.code]
  /\ waiting.kind = "rotate" =>
       identity = [key |-> waiting.key, inst |-> waiting.code] /\ rotation = waiting.new

(* A code is used once, so an installation that was closed stays closed    *)
(* (views.py:83-98).                                                       *)
IdentityWasClaimed == identity # NoOption => usedBy[identity.inst] # 0

OptionsApart ==
  /\ rotation # 0 => rotation # identity.key /\ rotation # claimOption.key
  /\ claimOption # NoOption => claimOption.key # identity.key

RotationsOfferOneKey ==
  \A q \in Rotations :
    /\ q.key # rotation /\ q.key # claimOption.key
    /\ identity # NoOption /\ q.key = identity.key => q.new = rotation

OfferedKeyIsFresh == rotation # 0 => registered[rotation].expiry = "never"

ClaimedKeyIsFresh ==
  /\ claimOption # NoOption
  /\ claimOption.code \in live /\ usedBy[claimOption.code] = claimOption.key
  => registered[claimOption.key] = [inst |-> claimOption.code, expiry |-> "never"]

KeysInv ==
  /\ OptionsApart /\ RotationsOfferOneKey
  /\ OfferedKeyIsFresh /\ ClaimedKeyIsFresh /\ HoldsLiveKey

PluginInv == KeysWereGenerated /\ WaitingIsCurrent /\ IdentityWasClaimed
PairingInv == PairingTypeOK /\ PluginInv /\ (~torn => KeysInv)

KeyRow == [inst : Code \union {"none"}, expiry : {"never", "overlap", "over"}]

(* What a request carries (client.php:11-46).                              *)
LEMMA RequestTypes ==
  /\ \A q \in PluginRequest :
       /\ q.kind \in {"claim", "rotate"} /\ q.code \in Code /\ q.key \in PluginKey
       /\ q.kind = "rotate" => q.new \in PluginKey
       /\ q # NoRequest
  /\ NoRequest.kind = "none" /\ NoOption.key = 0
  /\ \A c \in Code, k \in PluginKey : Claim(c, k) \in PluginRequest
  /\ \A c \in Code, k, n \in PluginKey : Rotation(c, k, n) \in PluginRequest
  <1>1. NoRequest.kind = "none" /\ NoOption.key = 0
    BY DEF NoRequest, NoOption
  <1>2. ASSUME NEW c \in Code, NEW k \in PluginKey
        PROVE  /\ Claim(c, k) \in PluginRequest
               /\ Claim(c, k).kind = "claim"
               /\ Claim(c, k).code = c /\ Claim(c, k).key = k
    BY DEF PluginRequest, Claim
  <1>3. ASSUME NEW c \in Code, NEW k \in PluginKey, NEW n \in PluginKey
        PROVE  /\ Rotation(c, k, n) \in PluginRequest
               /\ Rotation(c, k, n).kind = "rotate"
               /\ Rotation(c, k, n).code = c /\ Rotation(c, k, n).key = k
               /\ Rotation(c, k, n).new = n
    BY DEF PluginRequest, Rotation
  <1>4. ASSUME NEW q \in PluginRequest
        PROVE  \/ \E c \in Code, k \in PluginKey : q = Claim(c, k)
               \/ \E c \in Code, k, n \in PluginKey : q = Rotation(c, k, n)
    BY DEF PluginRequest
  <1> QED BY <1>1, <1>2, <1>3, <1>4

(* The plugin's options and keys are numbers that can be compared.         *)
LEMMA OptionTypes ==
  ASSUME PairingTypeOK
  PROVE  /\ identity.key \in Nat /\ claimOption.key \in Nat /\ rotation \in Nat
         /\ generated \in Nat
         /\ \A c \in Code : usedBy[c] \in Nat
         /\ Requests \subseteq PluginRequest
         /\ \A q \in Requests : q.key \in Nat \ {0}
         /\ \A q \in Rotations : q.new \in Nat \ {0}
         /\ identity # NoOption => identity.key \in PluginKey /\ identity.inst \in Code
         /\ claimOption # NoOption => claimOption.key \in PluginKey /\ claimOption.code \in Code
         /\ rotation # 0 => rotation \in PluginKey
  <1>1. Requests \subseteq PluginRequest
    BY DEF PairingTypeOK, Requests
  <1>2. \A k \in PluginKey : k \in Nat /\ k # 0
    BY DEF PluginKey
  <1>3. /\ identity.key \in Nat /\ claimOption.key \in Nat
        /\ identity # NoOption => identity.key \in PluginKey /\ identity.inst \in Code
        /\ claimOption # NoOption => claimOption.key \in PluginKey /\ claimOption.code \in Code
    <2>1. /\ identity = NoOption \/ identity \in [key : PluginKey, inst : Code]
          /\ claimOption = NoOption \/ claimOption \in [key : PluginKey, code : Code]
      BY DEF PairingTypeOK
    <2>2. NoOption.key = 0
      BY DEF NoOption
    <2>3. ASSUME identity \in [key : PluginKey, inst : Code]
          PROVE  identity.key \in PluginKey /\ identity.inst \in Code
      BY <2>3
    <2>4. ASSUME claimOption \in [key : PluginKey, code : Code]
          PROVE  claimOption.key \in PluginKey /\ claimOption.code \in Code
      BY <2>4
    <2> QED BY <1>2, <2>1, <2>2, <2>3, <2>4
  <1>4. /\ rotation \in Nat /\ generated \in Nat
        /\ rotation # 0 => rotation \in PluginKey
        /\ \A c \in Code : usedBy[c] \in Nat
    <2>1. /\ rotation \in {0} \union PluginKey /\ generated \in {0} \union PluginKey
          /\ usedBy \in [Code -> {0} \union PluginKey]
      BY DEF PairingTypeOK
    <2> QED BY <1>2, <2>1
  <1>5. /\ \A q \in Requests : q.key \in Nat \ {0}
        /\ \A q \in Rotations : q.new \in Nat \ {0}
    BY <1>1, <1>2, RequestTypes DEF Rotations
  <1> QED BY <1>1, <1>3, <1>4, <1>5

(* Nothing is paired at first.                                             *)
LEMMA InitPairing == PairingInit => PairingInv
  <1> SUFFICES ASSUME PairingInit PROVE PairingInv
    OBVIOUS
  <1> USE DEF PairingInit, NoOption, NoRequest
  <1>1. PairingTypeOK
    <2>1. registered \in [PluginKey -> KeyRow]
      BY DEF Unregistered, KeyRow
    <2>2. /\ code \in [Code -> {"unissued", "fresh", "expired"}]
          /\ usedBy \in [Code -> {0} \union PluginKey]
      OBVIOUS
    <2>3. identity = NoOption /\ claimOption = NoOption /\ waiting = NoRequest
      BY DEF NoOption, NoRequest
    <2>4. live = {} /\ rotation = 0 /\ generated = 0 /\ underWay = {} /\ torn = FALSE
      OBVIOUS
    <2>5. lateOnes \in 0 .. MaxLate
      OBVIOUS
    <2> HIDE DEF PairingInit, NoOption, NoRequest
    <2> QED BY <2>1, <2>2, <2>3, <2>4, <2>5 DEF PairingTypeOK, KeyRow
  <1>2. PluginInv
    BY DEF PluginInv, KeysWereGenerated, WaitingIsCurrent, IdentityWasClaimed, Requests,
       Rotations, Unregistered
  <1>3. KeysInv
    BY DEF KeysInv, OptionsApart, RotationsOfferOneKey, OfferedKeyIsFresh, ClaimedKeyIsFresh,
       HoldsLiveKey, Requests, Rotations
  <1> QED BY <1>1, <1>2, <1>3 DEF PairingInv

(* What the server does to a request: nothing, or it registers the key of  *)
(* a first claim, or the new key of a rotation (views.py:52-208).          *)
LEMMA ServeCases ==
  ASSUME NEW q \in PluginRequest, Serve(q)
  PROVE  /\ code' = code
         /\ \/ UNCHANGED <<usedBy, live, registered>>
            \/ q.kind = "claim" /\ usedBy[q.code] = 0 /\ FirstClaim(q)
            \/ /\ q.kind = "rotate" /\ Accepted(q) /\ RotateKey(q)
               /\ UNCHANGED <<usedBy, live>>
  BY RequestTypes DEF Serve

(* The entries of the registered keys after a rotation (views.py:180-197). *)
LEMMA RotateWrites ==
  ASSUME PairingTypeOK, NEW q \in PluginRequest, q.kind = "rotate", RotateKey(q)
  PROVE  /\ registered' \in [PluginKey -> KeyRow]
         /\ registered'[q.new].inst = q.code
         /\ \A k \in PluginKey \ {q.new} : registered'[k].inst = registered[k].inst
         /\ \A k \in PluginKey \ {q.key} : registered'[k].expiry = registered[k].expiry
  <1>1. q.new \in PluginKey /\ q.key \in PluginKey /\ q.code \in Code
    BY RequestTypes
  <1>2. registered \in [PluginKey -> KeyRow]
    BY DEF PairingTypeOK, KeyRow
  <1> DEFINE new == [registered EXCEPT ![q.new].inst = q.code]
  <1>3. /\ new \in [PluginKey -> KeyRow]
        /\ new[q.new].inst = q.code
        /\ \A k \in PluginKey \ {q.new} : new[k].inst = registered[k].inst
        /\ \A k \in PluginKey : new[k].expiry = registered[k].expiry
    BY <1>1, <1>2 DEF KeyRow
  <1>4. registered' = [new EXCEPT ![q.key].expiry = IF @ = "never" THEN "overlap" ELSE @]
    BY DEF RotateKey
  <1> HIDE DEF new
  <1>5. /\ registered' \in [PluginKey -> KeyRow]
        /\ \A k \in PluginKey : registered'[k].inst = new[k].inst
        /\ \A k \in PluginKey \ {q.key} : registered'[k].expiry = new[k].expiry
    BY <1>1, <1>3, <1>4 DEF KeyRow
  <1> QED BY <1>1, <1>3, <1>5

(* The types of the server's rows, and codes that are used stay used.      *)
LEMMA ServeTypes ==
  ASSUME PairingTypeOK, KeysWereGenerated, NEW q \in Requests, Serve(q)
  PROVE  /\ code' = code /\ live' \subseteq Code
         /\ usedBy' \in [Code -> {0} \union PluginKey]
         /\ registered' \in [PluginKey -> KeyRow]
         /\ \A c \in Code : usedBy[c] # 0 => usedBy'[c] = usedBy[c]
         /\ \A c \in Code : usedBy'[c] <= generated
         /\ \A k \in PluginKey : k <= generated \/ registered'[k].expiry = "never"
         /\ \A c \in live' : usedBy[c] # 0 => c \in live
  <1>1. q \in PluginRequest
    BY OptionTypes
  <1>2. q.code \in Code /\ q.key \in PluginKey /\ q.key <= generated /\ q.key # 0
    BY <1>1, RequestTypes DEF KeysWereGenerated, PluginKey
  <1>3. code' = code
    BY <1>1, ServeCases
  <1>4. CASE UNCHANGED <<usedBy, live, registered>>
    BY <1>3, <1>4 DEF PairingTypeOK, KeyRow, KeysWereGenerated
  <1>5. CASE usedBy[q.code] = 0 /\ FirstClaim(q)
    <2>1. [inst |-> q.code, expiry |-> "never"] \in KeyRow
      BY <1>2 DEF KeyRow
    <2>2. registered' \in [PluginKey -> KeyRow]
      BY <1>2, <1>5, <2>1 DEF FirstClaim, PairingTypeOK, KeyRow
    <2> QED BY <1>2, <1>3, <1>5, <2>2 DEF FirstClaim, PairingTypeOK, KeysWereGenerated
  <1>6. CASE q.kind = "rotate" /\ RotateKey(q) /\ UNCHANGED <<usedBy, live>>
    BY <1>1, <1>3, <1>6, RotateWrites DEF PairingTypeOK, KeysWereGenerated
  <1> QED BY <1>1, <1>4, <1>5, <1>6, ServeCases

(* A served request leaves the plugin the keys it counts on, as long as    *)
(* its options stay: the key it offers and the one it claimed are good     *)
(* when they are accepted, and the key in use, or the one offered, does    *)
(* not run out (views.py:52-208).                                          *)
LEMMA ServeKeepsKeys ==
  ASSUME PairingTypeOK, PluginInv, ~torn, KeysInv, NEW q \in Requests, Serve(q)
  PROVE  /\ rotation # 0 => registered'[rotation].expiry = "never"
         /\ claimOption # NoOption /\ claimOption.code \in live'
            /\ usedBy'[claimOption.code] = claimOption.key
            => registered'[claimOption.key] = [inst |-> claimOption.code, expiry |-> "never"]
         /\ identity # NoOption /\ identity.inst \in live' =>
              \E k \in {identity.key, rotation} \ {0} :
                registered'[k] = [inst |-> identity.inst, expiry |-> "never"]
  <1> USE DEF PluginInv, KeysInv
  <1>1. q \in PluginRequest /\ q.code \in Code /\ q.key \in PluginKey
    BY OptionTypes, RequestTypes
  <1>2. /\ rotation # 0 => rotation \in PluginKey
        /\ identity # NoOption =>
             identity.key \in PluginKey /\ identity.inst \in Code /\ usedBy[identity.inst] # 0
        /\ claimOption # NoOption => claimOption.key \in PluginKey /\ claimOption.code \in Code
    BY OptionTypes DEF IdentityWasClaimed
  <1>3. /\ registered \in [PluginKey -> KeyRow] /\ registered' \in [PluginKey -> KeyRow]
        /\ \A c \in live' : usedBy[c] # 0 => c \in live
        /\ \A c \in Code : usedBy[c] # 0 => usedBy'[c] = usedBy[c]
    BY ServeTypes DEF PairingTypeOK, KeyRow
  <1>4. \A k \in PluginKey, r \in KeyRow, c \in Code :
          r = [inst |-> c, expiry |-> "never"] <=> r.inst = c /\ r.expiry = "never"
    BY DEF KeyRow
  <1>5. 0 \notin PluginKey
    BY DEF PluginKey
  <1>6. CASE UNCHANGED <<usedBy, live, registered>>
    <2>1. rotation # 0 => registered'[rotation].expiry = "never"
      BY <1>6 DEF OfferedKeyIsFresh
    <2>2. ASSUME claimOption # NoOption, claimOption.code \in live',
                 usedBy'[claimOption.code] = claimOption.key
          PROVE  registered'[claimOption.key] = [inst |-> claimOption.code, expiry |-> "never"]
      BY <1>6, <2>2 DEF ClaimedKeyIsFresh
    <2>3. ASSUME identity # NoOption, identity.inst \in live'
          PROVE  \E k \in {identity.key, rotation} \ {0} :
                   registered'[k] = [inst |-> identity.inst, expiry |-> "never"]
      BY <1>6, <2>3 DEF HoldsLiveKey
    <2> QED BY <2>1, <2>2, <2>3
  <1>7. CASE usedBy[q.code] = 0 /\ FirstClaim(q)
    <2>1. /\ live' = {q.code}
          /\ usedBy' = [usedBy EXCEPT ![q.code] = q.key]
          /\ registered'[q.key] = [inst |-> q.code, expiry |-> "never"]
          /\ \A k \in PluginKey \ {q.key} : registered'[k] = registered[k]
      BY <1>1, <1>3, <1>7 DEF FirstClaim
    <2>2. rotation # 0 => registered'[rotation].expiry = "never"
      BY <1>2, <2>1 DEF OfferedKeyIsFresh
    <2>3. ASSUME claimOption # NoOption, claimOption.code \in live',
                 usedBy'[claimOption.code] = claimOption.key
          PROVE  registered'[claimOption.key] = [inst |-> claimOption.code, expiry |-> "never"]
      <3>1. claimOption.code = q.code /\ claimOption.key = q.key
        BY <1>1, <2>1, <2>3 DEF PairingTypeOK
      <3> QED BY <2>1, <3>1
    <2>4. ~(identity # NoOption /\ identity.inst \in live')
      BY <1>2, <1>7, <2>1
    <2> QED BY <2>2, <2>3, <2>4
  <1>8. CASE q.kind = "rotate" /\ Accepted(q) /\ RotateKey(q) /\ UNCHANGED <<usedBy, live>>
    <2>1. /\ registered'[q.new].inst = q.code /\ q.new \in PluginKey
          /\ \A k \in PluginKey \ {q.new} : registered'[k].inst = registered[k].inst
          /\ \A k \in PluginKey \ {q.key} : registered'[k].expiry = registered[k].expiry
      BY <1>1, <1>8, RotateWrites, RequestTypes
    <2>2. registered[q.new].inst \in {"none", q.code}
      BY <1>8 DEF Accepted
    <2>3. /\ q.key # rotation /\ q.key # claimOption.key
          /\ identity # NoOption /\ q.key = identity.key => q.new = rotation
      BY <1>8 DEF RotationsOfferOneKey, Rotations
    <2>4. rotation # 0 => registered'[rotation].expiry = "never"
      BY <1>2, <2>1, <2>3 DEF OfferedKeyIsFresh
    <2>5. ASSUME NEW k \in PluginKey, k # q.key, NEW c \in Code,
                 registered[k] = [inst |-> c, expiry |-> "never"]
          PROVE  registered'[k] = [inst |-> c, expiry |-> "never"]
      <3>1. registered[k].inst = c /\ registered[k].expiry = "never"
        BY <2>5
      <3>2. registered'[k].inst = c
        BY <2>1, <2>2, <2>5, <3>1
      <3>3. registered'[k].expiry = "never"
        BY <2>1, <2>5, <3>1
      <3> QED BY <1>3, <1>4, <3>2, <3>3
    <2>6. ASSUME claimOption # NoOption, claimOption.code \in live',
                 usedBy'[claimOption.code] = claimOption.key
          PROVE  registered'[claimOption.key] = [inst |-> claimOption.code, expiry |-> "never"]
      BY <1>2, <1>8, <2>3, <2>5, <2>6 DEF ClaimedKeyIsFresh
    <2>7. ASSUME identity # NoOption, identity.inst \in live'
          PROVE  \E k \in {identity.key, rotation} \ {0} :
                   registered'[k] = [inst |-> identity.inst, expiry |-> "never"]
      <3> DEFINE Good(k) == registered[k] = [inst |-> identity.inst, expiry |-> "never"]
      <3>1. PICK k \in {identity.key, rotation} \ {0} : Good(k)
        BY <1>8, <2>7 DEF HoldsLiveKey
      <3>2. CASE k # q.key
        BY <1>2, <2>5, <2>7, <3>1, <3>2
      <3>3. CASE k = q.key
        <4>1. k = identity.key /\ q.new = rotation
          BY <2>3, <2>7, <3>1, <3>3
        <4>2. registered[q.key].inst = q.code
          BY <1>8 DEF Accepted, KeyWorks
        <4>3. q.code = identity.inst
          BY <3>1, <3>3, <4>2
        <4>4. rotation # 0 /\ rotation \in PluginKey
          BY <1>5, <2>1, <4>1
        <4>5. registered'[rotation] = [inst |-> identity.inst, expiry |-> "never"]
          BY <1>2, <1>3, <1>4, <2>1, <2>4, <2>7, <4>1, <4>3, <4>4
        <4> QED BY <4>4, <4>5
      <3> QED BY <3>2, <3>3
    <2> QED BY <2>4, <2>6, <2>7
  <1> QED BY <1>1, <1>6, <1>7, <1>8, ServeCases

(* Codes are issued and run out, an installation is closed, a key that was *)
(* running out has run out: nothing the plugin counts on                   *)
(* (api.py:212-228, 317-326, views.py:64-71, 147-151).                     *)
LEMMA ServerAloneInv ==
  ASSUME PairingInv,
         \/ \E c \in Code : pairing_code(c) \/ CodeExpires(c) \/ DisconnectAtServer(c)
         \/ \E k \in PluginKey : KeyExpires(k)
  PROVE  PairingInv'
  <1> USE DEF PairingInv
  <1>1. /\ UNCHANGED <<usedBy, identity, claimOption, rotation, generated, waiting, underWay,
                       lateOnes, torn>>
        /\ live' \subseteq live
        /\ code' \in [Code -> {"unissued", "fresh", "expired"}]
    BY DEF pairing_code, CodeExpires, DisconnectAtServer, KeyExpires, issueVars, optionVars,
       requestVars, PairingTypeOK
  <1>2. /\ registered' \in [PluginKey -> KeyRow]
        /\ \A k \in PluginKey : registered[k].expiry = "never" => registered'[k] = registered[k]
    <2>1. registered \in [PluginKey -> KeyRow]
      BY DEF PairingTypeOK, KeyRow
    <2>2. ASSUME NEW k \in PluginKey, KeyExpires(k)
          PROVE  /\ registered' \in [PluginKey -> KeyRow]
                 /\ \A m \in PluginKey :
                      registered[m].expiry = "never" => registered'[m] = registered[m]
      BY <2>1, <2>2 DEF KeyExpires, KeyRow
    <2> QED BY <2>1, <2>2 DEF pairing_code, CodeExpires, DisconnectAtServer
  <1>3. PairingTypeOK'
    BY <1>1, <1>2 DEF PairingTypeOK, KeyRow
  <1>4. Requests' = Requests /\ Rotations' = Rotations
    BY <1>1 DEF Requests, Rotations
  <1>5. PluginInv'
    <2>1. KeysWereGenerated'
      BY <1>1, <1>2, <1>4 DEF PluginInv, KeysWereGenerated
    <2>2. WaitingIsCurrent' /\ IdentityWasClaimed'
      BY <1>1 DEF PluginInv, WaitingIsCurrent, IdentityWasClaimed
    <2> QED BY <2>1, <2>2 DEF PluginInv
  <1>6. ASSUME ~torn PROVE KeysInv'
    <2>1. OptionsApart' /\ RotationsOfferOneKey'
      BY <1>1, <1>4, <1>6 DEF KeysInv, OptionsApart, RotationsOfferOneKey
    <2>2. OfferedKeyIsFresh'
      BY <1>1, <1>2, <1>6, OptionTypes DEF KeysInv, OfferedKeyIsFresh
    <2>3. ClaimedKeyIsFresh'
      <3>1. CASE claimOption # NoOption /\ claimOption.code \in live
                 /\ usedBy[claimOption.code] = claimOption.key
        <4>1. registered[claimOption.key] = [inst |-> claimOption.code, expiry |-> "never"]
          BY <1>6, <3>1 DEF KeysInv, ClaimedKeyIsFresh
        <4>2. registered'[claimOption.key] = registered[claimOption.key]
          BY <1>2, <3>1, <4>1, OptionTypes
        <4> QED BY <1>1, <4>1, <4>2 DEF ClaimedKeyIsFresh
      <3> QED BY <1>1, <3>1 DEF ClaimedKeyIsFresh
    <2>4. HoldsLiveKey'
      <3> SUFFICES ASSUME identity # NoOption, identity.inst \in live
                   PROVE  \E k \in {identity.key, rotation} \ {0} :
                            registered'[k] = [inst |-> identity.inst, expiry |-> "never"]
        BY <1>1 DEF HoldsLiveKey
      <3>1. PICK k \in {identity.key, rotation} \ {0} :
              registered[k] = [inst |-> identity.inst, expiry |-> "never"]
        BY <1>6 DEF KeysInv, HoldsLiveKey
      <3>2. k \in PluginKey
        BY <3>1, OptionTypes
      <3> QED BY <1>2, <3>1, <3>2
    <2> QED BY <2>1, <2>2, <2>3, <2>4 DEF KeysInv
  <1> QED BY <1>1, <1>3, <1>5, <1>6

(* A pairing attempt with a new code makes a key that nothing else has;    *)
(* with the same code it sends the key it has (plugin.php:136-148).        *)
LEMMA PairInv == ASSUME PairingInv, NEW c \in Code, pair(c) PROVE PairingInv'
  <1> USE DEF PairingInv
  <1> DEFINE k == claimOption'.key
  <1>0. /\ UNCHANGED <<code, usedBy, live, registered, identity, rotation, underWay, lateOnes, torn>>
        /\ waiting = NoRequest /\ waiting' = Claim(c, k)
    BY DEF pair, Ready, serverVars, issueVars
  <1>1. \/ /\ claimOption # NoOption /\ claimOption.code = c
           /\ UNCHANGED <<claimOption, generated>>
        \/ /\ generated < MaxKeys /\ generated' = generated + 1
           /\ claimOption' = [key |-> generated', code |-> c]
    BY DEF pair
  <1>2. /\ claimOption' = [key |-> k, code |-> c]
        /\ k \in PluginKey /\ k <= generated'
        /\ generated <= generated' /\ generated' \in {0} \union PluginKey
    <2>1. CASE claimOption # NoOption /\ claimOption.code = c /\ UNCHANGED <<claimOption, generated>>
      <3>1. claimOption \in [key : PluginKey, code : Code]
        BY <2>1 DEF PairingTypeOK
      <3> QED BY <2>1, <3>1, OptionTypes DEF PluginInv, KeysWereGenerated, PairingTypeOK
    <2>2. CASE /\ generated < MaxKeys /\ generated' = generated + 1
               /\ claimOption' = [key |-> generated', code |-> c]
      BY <2>2, OptionTypes DEF PluginKey
    <2> QED BY <1>1, <2>1, <2>2
  <1> HIDE DEF k
  <1>3. Claim(c, k) \in PluginRequest /\ Claim(c, k).kind = "claim"
        /\ Claim(c, k).key = k /\ Claim(c, k).code = c
    BY <1>2, RequestTypes DEF Claim
  <1>4. PairingTypeOK'
    BY <1>0, <1>2, <1>3 DEF PairingTypeOK
  <1>5. Requests' = Requests \union {Claim(c, k)} /\ Rotations' = Rotations
    BY <1>0, <1>3, RequestTypes DEF Requests, Rotations
  <1>6. PluginInv'
    <2>1. generated' \in Nat /\ PluginKey \subseteq Nat
      BY <1>2 DEF PluginKey
    <2>2. KeysWereGenerated'
      <3>1. /\ identity'.key <= generated' /\ claimOption'.key <= generated'
            /\ rotation' <= generated'
            /\ \A d \in Code : usedBy'[d] <= generated'
        BY <1>0, <1>2, <2>1, OptionTypes DEF PluginInv, KeysWereGenerated
      <3>2. /\ \A q \in Requests' : q.key <= generated'
            /\ \A q \in Rotations' : q.new <= generated'
        BY <1>2, <1>3, <1>5, <2>1, OptionTypes DEF PluginInv, KeysWereGenerated
      <3>3. \A x \in PluginKey : x <= generated' \/ registered'[x].expiry = "never"
        BY <1>0, <1>2, <2>1, OptionTypes DEF PluginInv, KeysWereGenerated
      <3> QED BY <3>1, <3>2, <3>3 DEF KeysWereGenerated
    <2>3. WaitingIsCurrent' /\ IdentityWasClaimed'
      BY <1>0, <1>2, <1>3 DEF PluginInv, WaitingIsCurrent, IdentityWasClaimed
    <2> QED BY <2>2, <2>3 DEF PluginInv
  <1>7. ASSUME ~torn PROVE KeysInv'
    <2>1. CASE UNCHANGED <<claimOption, generated>>
      BY <1>0, <1>5, <1>7, <2>1 DEF KeysInv, OptionsApart, RotationsOfferOneKey,
         OfferedKeyIsFresh, ClaimedKeyIsFresh, HoldsLiveKey
    <2>2. CASE generated' = generated + 1 /\ k = generated'
      <3>1. /\ \A d \in Code : usedBy[d] # k
            /\ identity.key # k /\ rotation # k
            /\ \A q \in Rotations : q.key # k
        BY <2>2, OptionTypes DEF PluginInv, KeysWereGenerated, Rotations
      <3>2. OptionsApart' /\ RotationsOfferOneKey'
        BY <1>0, <1>2, <1>5, <1>7, <3>1 DEF KeysInv, OptionsApart, RotationsOfferOneKey
      <3>3. ClaimedKeyIsFresh'
        BY <1>0, <1>2, <3>1 DEF ClaimedKeyIsFresh
      <3>4. OfferedKeyIsFresh' /\ HoldsLiveKey'
        BY <1>0, <1>7 DEF KeysInv, OfferedKeyIsFresh, HoldsLiveKey
      <3> QED BY <3>2, <3>3, <3>4 DEF KeysInv
    <2> QED BY <1>1, <1>2, <2>1, <2>2
  <1> QED BY <1>0, <1>4, <1>6, <1>7

(* A rotation offers the key it offered before, or a new one               *)
(* (plugin.php:179-190).                                                   *)
LEMMA RotateInv == ASSUME PairingInv, rotate PROVE PairingInv'
  <1> USE DEF PairingInv
  <1> DEFINE n == rotation'
             q == Rotation(identity.inst, identity.key, n)
  <1>0. /\ UNCHANGED <<code, usedBy, live, registered, identity, claimOption, underWay, lateOnes, torn>>
        /\ waiting = NoRequest /\ waiting' = q /\ identity # NoOption
    BY DEF rotate, Ready, serverVars, issueVars
  <1>1. \/ rotation # 0 /\ UNCHANGED <<rotation, generated>>
        \/ rotation = 0 /\ generated < MaxKeys /\ generated' = generated + 1 /\ n = generated'
    BY DEF rotate
  <1>2. /\ n \in PluginKey /\ n <= generated' /\ n # 0
        /\ generated <= generated' /\ generated' \in {0} \union PluginKey
    BY <1>1, OptionTypes DEF PluginKey, PluginInv, KeysWereGenerated, PairingTypeOK
  <1>3. /\ identity.key \in PluginKey /\ identity.inst \in Code
        /\ identity = [key |-> identity.key, inst |-> identity.inst]
    <2>1. identity \in [key : PluginKey, inst : Code]
      BY <1>0 DEF PairingTypeOK
    <2> QED BY <2>1
  <1> HIDE DEF n
  <1>4. /\ q \in PluginRequest /\ q.kind = "rotate"
        /\ q.key = identity.key /\ q.code = identity.inst /\ q.new = n
    BY <1>2, <1>3, RequestTypes DEF Rotation
  <1> HIDE DEF q
  <1>5. PairingTypeOK'
    <2>1. rotation' \in {0} \union PluginKey
      BY <1>2 DEF n
    <2> QED BY <1>0, <1>2, <1>4, <2>1 DEF PairingTypeOK
  <1>6. Requests' = Requests \union {q} /\ Rotations' = Rotations \union {q}
    BY <1>0, <1>4, RequestTypes DEF Requests, Rotations
  <1>7. PluginInv'
    <2>1. generated' \in Nat /\ n \in Nat
      BY <1>2 DEF PluginKey
    <2>2. KeysWereGenerated'
      BY <1>0, <1>2, <1>4, <1>6, <2>1, OptionTypes DEF PluginInv, KeysWereGenerated, n
    <2>3. WaitingIsCurrent' /\ IdentityWasClaimed'
      BY <1>0, <1>3, <1>4 DEF PluginInv, WaitingIsCurrent, IdentityWasClaimed, n
    <2> QED BY <2>2, <2>3 DEF PluginInv
  <1>8. ASSUME ~torn PROVE KeysInv'
    <2>1. OptionsApart' /\ n # identity.key /\ n # claimOption.key
      BY <1>0, <1>1, <1>2, <1>8, OptionTypes DEF KeysInv, OptionsApart, PluginInv,
         KeysWereGenerated, n
    <2>2. RotationsOfferOneKey'
      <3>1. ASSUME NEW p \in Rotations
            PROVE  /\ p.key # n /\ p.key # claimOption.key
                   /\ p.key = identity.key => p.new = n
        <4>1. /\ p.key # claimOption.key /\ p.key # rotation
              /\ p.key = identity.key => p.new = rotation
          BY <1>0, <1>8 DEF KeysInv, RotationsOfferOneKey
        <4>2. p.new # 0 /\ p.key <= generated /\ p.key \in Nat
          BY OptionTypes DEF PluginInv, KeysWereGenerated, Rotations
        <4>3. CASE UNCHANGED rotation
          BY <4>1, <4>3 DEF n
        <4>4. CASE rotation = 0 /\ n = generated + 1
          BY <4>1, <4>2, <4>4, OptionTypes
        <4> QED BY <1>1, <4>3, <4>4
      <3>2. identity.key # claimOption.key
        <4>1. identity.key # 0 /\ NoOption.key = 0
          BY <1>3 DEF PluginKey, NoOption
        <4> QED BY <1>8, <4>1 DEF KeysInv, OptionsApart
      <3> QED BY <1>0, <1>4, <1>6, <2>1, <3>1, <3>2 DEF RotationsOfferOneKey, n
    <2>3. OfferedKeyIsFresh'
      <3>1. CASE UNCHANGED rotation
        BY <1>0, <1>8, <3>1 DEF KeysInv, OfferedKeyIsFresh
      <3>2. CASE n = generated + 1
        BY <1>0, <1>2, <3>2, OptionTypes DEF OfferedKeyIsFresh, PluginInv, KeysWereGenerated, n
      <3> QED BY <1>1, <3>1, <3>2 DEF n
    <2>4. ClaimedKeyIsFresh'
      BY <1>0, <1>8 DEF KeysInv, ClaimedKeyIsFresh
    <2>5. HoldsLiveKey'
      BY <1>0, <1>1, <1>8 DEF KeysInv, HoldsLiveKey, n
    <2> QED BY <2>1, <2>2, <2>3, <2>4, <2>5 DEF KeysInv
  <1> QED BY <1>0, <1>5, <1>7, <1>8

(* A disconnected plugin counts on nothing (plugin.php:170-177).           *)
LEMMA DisconnectInv == ASSUME PairingInv, disconnect PROVE PairingInv'
  <1> USE DEF PairingInv
  <1>0. /\ UNCHANGED <<code, usedBy, live, registered, generated, waiting, underWay, lateOnes, torn>>
        /\ waiting = NoRequest
        /\ identity' = NoOption /\ claimOption' = NoOption /\ rotation' = 0
    BY DEF disconnect, Ready, serverVars, issueVars, requestVars
  <1>1. PairingTypeOK'
    BY <1>0 DEF PairingTypeOK
  <1>2. Requests' = Requests /\ Rotations' = Rotations /\ NoOption.key = 0
    BY <1>0 DEF Requests, Rotations, NoOption
  <1>3. PluginInv'
    <2>1. KeysWereGenerated'
      BY <1>0, <1>2, OptionTypes DEF PluginInv, KeysWereGenerated
    <2>2. WaitingIsCurrent' /\ IdentityWasClaimed'
      BY <1>0, RequestTypes DEF WaitingIsCurrent, IdentityWasClaimed
    <2> QED BY <2>1, <2>2 DEF PluginInv
  <1>4. KeysInv'
    <2>1. OptionsApart' /\ OfferedKeyIsFresh' /\ ClaimedKeyIsFresh' /\ HoldsLiveKey'
      BY <1>0 DEF OptionsApart, OfferedKeyIsFresh, ClaimedKeyIsFresh, HoldsLiveKey
    <2>2. RotationsOfferOneKey'
      BY <1>0, <1>2, OptionTypes DEF RotationsOfferOneKey, Rotations
    <2> QED BY <2>1, <2>2 DEF KeysInv
  <1> QED BY <1>1, <1>3, <1>4

(* A request that the plugin gives up is still on its way, or is not       *)
(* (client.php:20-46).                                                     *)
LEMMA GaveUpInv == ASSUME PairingInv, GaveUp PROVE PairingInv'
  <1> USE DEF PairingInv
  <1>0. /\ UNCHANGED <<code, usedBy, live, registered, identity, claimOption, rotation,
                       generated, torn>>
        /\ waiting # NoRequest /\ waiting' = NoRequest
        /\ \/ UNCHANGED <<underWay, lateOnes>>
           \/ /\ lateOnes < MaxLate /\ lateOnes' = lateOnes + 1
              /\ underWay' = underWay \union {waiting}
    BY DEF GaveUp, serverVars, issueVars, RotationAfterFailure
  <1>1. PairingTypeOK'
    <2>1. underWay' \subseteq PluginRequest /\ lateOnes' \in 0 .. MaxLate
      BY <1>0 DEF PairingTypeOK
    <2> QED BY <1>0, <2>1 DEF PairingTypeOK
  <1>2. Requests' \subseteq Requests /\ Rotations' \subseteq Rotations
    BY <1>0 DEF Requests, Rotations
  <1>3. PluginInv'
    <2>1. KeysWereGenerated'
      BY <1>0, <1>2 DEF PluginInv, KeysWereGenerated
    <2>2. WaitingIsCurrent' /\ IdentityWasClaimed'
      BY <1>0, RequestTypes DEF PluginInv, WaitingIsCurrent, IdentityWasClaimed
    <2> QED BY <2>1, <2>2 DEF PluginInv
  <1>4. ASSUME ~torn PROVE KeysInv'
    BY <1>0, <1>2, <1>4 DEF KeysInv, OptionsApart, RotationsOfferOneKey, OfferedKeyIsFresh,
       ClaimedKeyIsFresh, HoldsLiveKey
  <1> QED BY <1>0, <1>1, <1>3, <1>4

(* A request that is refused, whose answer is lost, or that arrives late   *)
(* leaves the options as they were (views.py:137-208).                     *)
LEMMA ServedUnheardInv ==
  ASSUME PairingInv, Failed \/ (\E q \in underWay : ArrivesLate(q)) PROVE PairingInv'
  <1> USE DEF PairingInv
  <1>0. /\ \E q \in Requests : Serve(q)
        /\ UNCHANGED <<identity, claimOption, rotation, generated, lateOnes, torn>>
        /\ waiting' \in {waiting, NoRequest} /\ underWay' \subseteq underWay
    BY DEF Failed, ArrivesLate, Requests, optionVars, RotationAfterFailure
  <1>1. PICK q \in Requests : Serve(q)
    BY <1>0
  <1>2. /\ code' = code /\ live' \subseteq Code
        /\ usedBy' \in [Code -> {0} \union PluginKey]
        /\ registered' \in [PluginKey -> KeyRow]
        /\ \A c \in Code : usedBy[c] # 0 => usedBy'[c] = usedBy[c]
        /\ \A c \in Code : usedBy'[c] <= generated
        /\ \A k \in PluginKey : k <= generated \/ registered'[k].expiry = "never"
    BY <1>1, ServeTypes DEF PluginInv
  <1>3. PairingTypeOK'
    BY <1>0, <1>2 DEF PairingTypeOK, KeyRow
  <1>4. Requests' \subseteq Requests /\ Rotations' \subseteq Rotations
    BY <1>0 DEF Requests, Rotations
  <1>5. PluginInv'
    <2>1. KeysWereGenerated'
      BY <1>0, <1>2, <1>4 DEF PluginInv, KeysWereGenerated
    <2>2. WaitingIsCurrent'
      BY <1>0, RequestTypes DEF PluginInv, WaitingIsCurrent
    <2>3. IdentityWasClaimed'
      BY <1>0, <1>2, OptionTypes DEF PluginInv, IdentityWasClaimed
    <2> QED BY <2>1, <2>2, <2>3 DEF PluginInv
  <1>6. ASSUME ~torn PROVE KeysInv'
    <2>1. OptionsApart' /\ RotationsOfferOneKey'
      BY <1>0, <1>4, <1>6 DEF KeysInv, OptionsApart, RotationsOfferOneKey
    <2>2. OfferedKeyIsFresh' /\ ClaimedKeyIsFresh' /\ HoldsLiveKey'
      BY <1>0, <1>1, <1>6, ServeKeepsKeys DEF OfferedKeyIsFresh, ClaimedKeyIsFresh,
         HoldsLiveKey
    <2> QED BY <2>1, <2>2 DEF KeysInv
  <1> QED BY <1>0, <1>3, <1>5, <1>6

(* An accepted claim names its key as the plugin's; an accepted rotation   *)
(* names the offered one (plugin.php:149-168, 191-198).                    *)
LEMMA AnsweredInv == ASSUME PairingInv, Answered PROVE PairingInv'
  <1> USE DEF PairingInv
  <1> DEFINE q == waiting
             claims == q.kind = "claim"
             k == identity'.key
  <1>0. /\ q \in Requests /\ Serve(q) /\ Accepted(q)
        /\ waiting' = NoRequest /\ UNCHANGED <<generated, underWay, lateOnes>>
        /\ identity' = [key |-> IF claims THEN q.key ELSE q.new, inst |-> q.code]
        /\ \/ /\ claimOption' = IF claims THEN NoOption ELSE claimOption
              /\ rotation' = IF q.kind = "rotate" THEN 0 ELSE rotation
              /\ torn' = torn
           \/ torn' = TRUE /\ UNCHANGED <<claimOption, rotation>>
    BY DEF Answered, Requests
  <1>1. /\ q \in PluginRequest /\ q.kind \in {"claim", "rotate"}
        /\ q.code \in Code /\ q.key \in PluginKey
        /\ q.kind = "rotate" => q.new \in PluginKey
        /\ q.kind = "rotate" => q \in Rotations
    BY <1>0, OptionTypes, RequestTypes DEF Rotations
  <1>2. /\ code' = code /\ live' \subseteq Code
        /\ usedBy' \in [Code -> {0} \union PluginKey]
        /\ registered' \in [PluginKey -> KeyRow]
        /\ \A c \in Code : usedBy[c] # 0 => usedBy'[c] = usedBy[c]
        /\ \A c \in Code : usedBy'[c] <= generated
        /\ \A x \in PluginKey : x <= generated \/ registered'[x].expiry = "never"
    BY <1>0, ServeTypes DEF PluginInv
  <1>3. /\ claims => claimOption = [key |-> q.key, code |-> q.code]
        /\ q.kind = "rotate" =>
             identity = [key |-> q.key, inst |-> q.code] /\ rotation = q.new
    BY DEF PluginInv, WaitingIsCurrent
  <1>4. /\ k \in PluginKey /\ k = (IF claims THEN q.key ELSE q.new)
        /\ identity' \in [key : PluginKey, inst : Code] /\ identity'.inst = q.code
        /\ k <= generated
    <2>1. q.key <= generated /\ (q.kind = "rotate" => q.new <= generated)
      BY <1>0, <1>1 DEF PluginInv, KeysWereGenerated
    <2> QED BY <1>0, <1>1, <2>1
  <1>5. /\ claimOption' \in {claimOption, NoOption} /\ rotation' \in {rotation, 0}
        /\ NoOption.key = 0
    BY <1>0 DEF NoOption
  <1>6. PairingTypeOK'
    <2>1. /\ claimOption' \in {NoOption} \union [key : PluginKey, code : Code]
          /\ rotation' \in {0} \union PluginKey /\ torn' \in BOOLEAN
      BY <1>0, <1>5 DEF PairingTypeOK
    <2> QED BY <1>0, <1>2, <1>4, <2>1 DEF PairingTypeOK, KeyRow
  <1>7. Requests' \subseteq Requests /\ Rotations' \subseteq Rotations
    BY <1>0 DEF Requests, Rotations
  <1>8. usedBy'[q.code] # 0 /\ (claims => usedBy'[q.code] = q.key)
    <2>1. 0 \notin PluginKey
      BY DEF PluginKey
    <2>2. CASE q.kind = "rotate"
      <3>1. identity # NoOption /\ identity.inst = q.code
        BY <1>1, <1>3, <2>1, <2>2, RequestTypes
      <3>2. usedBy[q.code] # 0
        BY <3>1 DEF PluginInv, IdentityWasClaimed
      <3> QED BY <1>1, <1>2, <2>2, <3>2
    <2>3. CASE claims /\ usedBy[q.code] # 0
      <3>1. usedBy[q.code] = q.key
        BY <1>0, <2>3 DEF Accepted, ClaimRepeated
      <3> QED BY <1>1, <1>2, <2>1, <3>1
    <2>4. CASE claims /\ usedBy[q.code] = 0
      <3>1. usedBy' = [usedBy EXCEPT ![q.code] = q.key]
        BY <1>0, <2>4 DEF Serve, FirstClaim
      <3> QED BY <1>1, <2>1, <3>1 DEF PairingTypeOK
    <2> QED BY <1>1, <2>2, <2>3, <2>4
  <1>9. PluginInv'
    <2>1. KeysWereGenerated'
      BY <1>0, <1>2, <1>4, <1>5, <1>7, OptionTypes DEF PluginInv, KeysWereGenerated
    <2>2. WaitingIsCurrent' /\ IdentityWasClaimed'
      BY <1>0, <1>4, <1>8, RequestTypes DEF WaitingIsCurrent, IdentityWasClaimed
    <2> QED BY <2>1, <2>2 DEF PluginInv
  <1>10. ASSUME ~torn' PROVE KeysInv'
    <2>0. /\ ~torn
          /\ claimOption' = IF claims THEN NoOption ELSE claimOption
          /\ rotation' = IF q.kind = "rotate" THEN 0 ELSE rotation
      BY <1>0, <1>10
    <2>1. OptionsApart /\ RotationsOfferOneKey
      BY <2>0 DEF KeysInv
    <2>2. k # 0 /\ q.key # 0
      BY <1>1, <1>4 DEF PluginKey
    <2>3. OptionsApart'
      BY <1>1, <1>3, <1>4, <1>5, <2>0, <2>1, <2>2 DEF OptionsApart
    <2>4. \A p \in Rotations : p.key # k
      BY <1>1, <1>3, <1>4, <2>1 DEF RotationsOfferOneKey
    <2>5. RotationsOfferOneKey'
      <3>1. \A p \in Rotations : p.key # 0
        BY OptionTypes DEF Rotations
      <3>2. \A p \in Rotations : p.key # rotation' /\ p.key # claimOption'.key
        BY <1>5, <2>1, <3>1 DEF RotationsOfferOneKey
      <3> QED BY <1>7, <2>4, <3>2 DEF RotationsOfferOneKey
    <2>6. OfferedKeyIsFresh' /\ ClaimedKeyIsFresh'
      BY <1>0, <2>0, ServeKeepsKeys DEF OfferedKeyIsFresh, ClaimedKeyIsFresh
    <2>7. HoldsLiveKey'
      <3> SUFFICES ASSUME q.code \in live'
                   PROVE  registered'[k] = [inst |-> q.code, expiry |-> "never"]
        BY <1>4, <2>2 DEF HoldsLiveKey
      <3>1. CASE claims
        <4>1. claimOption # NoOption /\ claimOption.code = q.code /\ claimOption.key = q.key
          BY <1>3, <1>5, <2>2, <3>1
        <4> QED BY <1>0, <1>4, <1>8, <2>0, <3>1, <4>1, ServeKeepsKeys
      <3>2. CASE q.kind = "rotate"
        <4>1. RotateKey(q)
          BY <1>0, <3>2 DEF Serve
        <4>2. registered'[k].inst = q.code
          BY <1>1, <1>4, <3>2, <4>1, RotateWrites
        <4>3. registered'[k].expiry = "never"
          BY <1>0, <1>3, <1>4, <2>0, <2>2, <3>2, ServeKeepsKeys
        <4> QED BY <1>2, <1>4, <4>2, <4>3 DEF KeyRow
      <3> QED BY <1>1, <3>1, <3>2
    <2> QED BY <2>3, <2>5, <2>6, <2>7 DEF KeysInv
  <1> QED BY <1>6, <1>9, <1>10

(* The invariant of the plugin's keys holds in every state.                *)
THEOREM PairingInvariant == PairingSpec => []PairingInv
  <1>1. PairingInv /\ [PairingNext]_pairingVars => PairingInv'
    <2> SUFFICES ASSUME PairingInv, [PairingNext]_pairingVars PROVE PairingInv'
      OBVIOUS
    <2>1. CASE UNCHANGED pairingVars
      BY <2>1 DEF pairingVars, serverVars, issueVars, optionVars, requestVars, PairingInv,
         PairingTypeOK, PluginInv, KeysWereGenerated, WaitingIsCurrent, IdentityWasClaimed,
         KeysInv, OptionsApart, RotationsOfferOneKey, OfferedKeyIsFresh, ClaimedKeyIsFresh,
         HoldsLiveKey, Requests, Rotations
    <2> QED
      BY <2>1, ServerAloneInv, PairInv, RotateInv, DisconnectInv, GaveUpInv, ServedUnheardInv,
         AnsweredInv DEF PairingNext
  <1> QED BY <1>1, InitPairing, PTL DEF PairingSpec

(* No lost answer, retry or late request leaves a paired plugin with keys  *)
(* that run out only (plugin.php:184-198, views.py:180-196).               *)
THEOREM PluginKeepsKey == PairingSpec => []HoldsLiveKey
  <1>1. PairingInv => HoldsLiveKey
    BY DEF PairingInv, KeysInv, HoldsLiveKey
  <1> QED BY <1>1, PairingInvariant, PTL
=============================================================================
