------------------------------ MODULE WooScan -------------------------------
(***************************************************************************)
(* How the orders of a WooCommerce store reach LedgerGuard: the plugin     *)
(* takes a snapshot of order ids, sends their facts page by page, and the  *)
(* server advances coverage when the last page of a scan is accepted       *)
(* (class-ledgerguard-plugin.php start_scan, page, retry; accept_woo_batch *)
(* and upsert of modules/ingestion/service.py).                            *)
(*                                                                         *)
(* The plugin's state is WordPress options, read and written by PHP        *)
(* processes that hold their own copy of the scan; the option              *)
(* ledgerguard_scan_lock is their only synchronisation.  A page travels in *)
(* an HTTP request that may fail before or after the server handled it, or *)
(* be handled after the plugin gave up waiting.                            *)
(***************************************************************************)
EXTENDS Integers, FiniteSets, FiniteSetsExt

CONSTANTS
    Process,      \* PHP processes: Action Scheduler runners, admin requests
    Order,        \* order ids, naturals, as the snapshot sorts them
    PageSize,     \* records of a page (100); an order is one record here
    Lag,          \* a scan ends this long before now (120 seconds)
    Overlap,      \* a delta scan starts this long before the cursor (30 min)
    History,      \* a repair scan reaches this far back (35 days)
    MaxAge,       \* the server accepts no older window (36 days)
    MaxAttempts,  \* failures after which the plugin stops by itself (8)
    MaxTime,      \* bound: the clock
    MaxEdits,     \* bound: modifications of orders
    MaxScans,     \* bound: scans
    MaxJobs,      \* bound: queued page jobs; more add nothing
    MaxFaults     \* bound: crashes, lost answers, failed extractions, and
                  \* repairs the merchant asks for

ASSUME ScanAssumption ==
    /\ Order \subseteq Nat /\ IsFiniteSet(Order)
    /\ {PageSize, Lag, MaxAttempts, MaxScans, MaxJobs} \subseteq Nat \ {0}
    /\ {Overlap, History, MaxAge, MaxTime, MaxEdits, MaxFaults} \subseteq Nat
    /\ History + Lag <= MaxAge /\ Lag <= MaxTime

(* 36 days are less than twice 35: the server takes no page of a window    *)
(* that lies wholly before the coverage (ingestion/service.py:131, 191).   *)
ASSUME WindowAssumption == MaxAge <= 2 * History + Lag

VARIABLES
    clock,        \* seconds, coarsely
    order,        \* the shop: when each order was modified, and its content
    option,       \* the plugin's options: scan, lock, cursor
    jobs,         \* queued actions of the hook ledgerguard_page
    process,      \* what each PHP process is doing, with its copy of the scan
    late,         \* pages the server may still handle, nobody waits for them
    server,       \* the Cursor row of woo_orders and the Projection rows
    accepted,     \* BatchPage rows
    spent         \* counts scans, edits and faults

shopVars == <<clock, order>>
pluginVars == <<option, jobs, process>>
serverVars == <<server, accepted>>
vars == <<shopVars, pluginVars, late, serverVars, spent>>

None == -(History + Lag + Overlap) - 1
NoScan == [id |-> 0]
NoPage == [scan |-> 0]
NoFact == [at |-> None]
NoAnswer == [ok |-> FALSE]
Body == 0..MaxEdits
Time == -(History + Lag + Overlap)..MaxTime
Fact == [at : Time, body : Body, valid : BOOLEAN]

(* One request body; its records are the facts of some orders.             *)
Page ==
    [scan : 1..MaxScans, from : Time, through : Time, number : 1..Cardinality(Order) + 1,
     final : BOOLEAN, records : UNION {[ids -> Fact] : ids \in SUBSET Order}]
MostAttempts == MaxAttempts + MaxJobs + Cardinality(Process)
Scan(Attempts) ==
    [id : 1..MaxScans, from : Time, through : Time, number : 1..Cardinality(Order) + 1,
     left : SUBSET Order, pending : Page \union {NoPage}, attempt : Attempts]
Answer == [ok : BOOLEAN, rejected : BOOLEAN, advanced : BOOLEAN]
Idle == [pc |-> "idle", scan |-> NoScan, repair |-> FALSE, answer |-> NoAnswer]

TypesWith(Attempts) ==
    /\ clock \in Lag..MaxTime
    /\ order \in [Order -> Fact]
    /\ option \in [scan : Scan(Attempts) \union {NoScan}, lock : {"free", "held", "old"},
                   cursor : Time \union {None}]
    /\ jobs \in 0..MaxJobs
    /\ process \in [Process ->
          [pc : {"idle", "start", "snapshot", "read", "sent", "answered"},
           scan : Scan(Attempts) \union {NoScan}, repair : BOOLEAN,
           answer : Answer \union {NoAnswer}]]
    /\ late \subseteq Page
    /\ server \in
          [scan : 0..MaxScans, from : Time \union {None}, through : Time \union {None},
           next : 1..Cardinality(Order) + 2, failed : BOOLEAN, stale : BOOLEAN,
           complete : BOOLEAN, covered_from : Time \union {None},
           covered_through : Time \union {None}, fact : [Order -> Fact \union {NoFact}]]
    /\ accepted \subseteq [page : Page, answer : Answer]
    /\ spent \in [scans : 0..MaxScans, edits : 0..MaxEdits, faults : 0..MaxFaults]

(* A copy of the scan from before a success may be written back after it,  *)
(* so that attempts have a bound only where few processes hold copies.     *)
TypeOK == TypesWith(0..MostAttempts)

Init ==
    /\ clock = Lag
    /\ order = [o \in Order |-> [at |-> 0, body |-> 0, valid |-> TRUE]]
    /\ option = [scan |-> NoScan, lock |-> "free", cursor |-> None]
    /\ jobs = 0
    /\ process = [p \in Process |-> Idle]
    /\ late = {}
    /\ server =
          [scan |-> 0, from |-> None, through |-> None, next |-> 1, failed |-> FALSE,
           stale |-> FALSE, complete |-> FALSE, covered_from |-> None,
           covered_through |-> None, fact |-> [o \in Order |-> NoFact]]
    /\ accepted = {}
    /\ spent = [scans |-> 0, edits |-> 0, faults |-> 0]

At(p, pc) == process[p].pc = pc
Becomes(p, state) == process' = [process EXCEPT ![p] = state]
Rest(p) == Becomes(p, Idle)
Queued == IF jobs < MaxJobs THEN jobs + 1 ELSE jobs
Fault ==
    /\ spent.faults < MaxFaults
    /\ spent' = [spent EXCEPT !.faults = @ + 1]

-----------------------------------------------------------------------------
(* The server: one transaction under the lock of the connector             *)

(* What Projection keeps of a fact that arrives: nothing if its content is *)
(* known or its revision is older.                                         *)
Upserted(known, new) ==
    IF known = NoFact THEN new
    ELSE IF known.body # new.body /\ known.at < new.at THEN new
    ELSE known

(* A record is rejected if the server cannot parse it, or if it knows      *)
(* another content under the same revision.                                *)
Conflicts(known, new) == known # NoFact /\ known.at = new.at /\ known.body # new.body

Rejected(page) ==
    {o \in DOMAIN page.records :
        ~page.records[o].valid \/ Conflicts(server.fact[o], page.records[o])}

Prior(page) == {b \in accepted : b.page.scan = page.scan /\ b.page.number = page.number}

(* A new scan begins with its first page, and not while another one is     *)
(* under way, unless that one failed or has been silent for 30 minutes.    *)
MayBegin(page) ==
    /\ page.number = 1
    /\ server.scan = 0 \/ server.failed \/ server.stale

(* The scan the page belongs to, begun by it or under way; its beginning   *)
(* withdraws the coverage.                                                 *)
Begun(page) ==
    IF server.scan = page.scan THEN server
    ELSE [server EXCEPT !.scan = page.scan, !.from = page.from, !.through = page.through,
                        !.next = 1, !.failed = FALSE, !.complete = FALSE]

InSequence(page) ==
    LET s == Begun(page)
    IN  s.next = page.number /\ s.from = page.from /\ s.through = page.through

Acceptable(page) ==
    /\ Prior(page) = {}
    /\ clock - MaxAge <= page.from
    /\ server.scan = page.scan \/ MayBegin(page)
    /\ InSequence(page)

FailsScan(page) == Begun(page).failed \/ Rejected(page) # {}

(* The last page advances coverage if no record of the scan was rejected   *)
(* and the window touches what is covered.                                 *)
Advances(page) ==
    /\ page.final
    /\ ~FailsScan(page)
    /\ server.covered_through = None \/ page.from <= server.covered_through

Received(page) ==
    [Begun(page) EXCEPT
        !.next = @ + 1,
        !.stale = FALSE,
        !.failed = FailsScan(page),
        !.fact = [o \in Order |->
                    IF o \in DOMAIN page.records \ Rejected(page)
                    THEN Upserted(@[o], page.records[o])
                    ELSE @[o]],
        !.scan = IF page.final THEN 0 ELSE @,
        !.through = IF page.final THEN None ELSE @,
        !.complete = Advances(page) \/ (@ /\ ~(page.final /\ FailsScan(page))),
        !.covered_from =
            IF ~Advances(page) THEN @ ELSE IF @ = None THEN page.from ELSE Min({@, page.from}),
        !.covered_through = IF Advances(page) THEN Max({@, page.through}) ELSE @]

NotOk == [ok |-> FALSE, rejected |-> FALSE, advanced |-> FALSE]

(* A page the server has is answered as it was then; the same scan and page*)
(* number with another content is refused, and so is what is out of turn.  *)
AnswerTo(page) ==
    IF Acceptable(page)
    THEN [ok |-> TRUE, rejected |-> Rejected(page) # {}, advanced |-> Advances(page)]
    ELSE IF \E b \in Prior(page) : b.page = page
    THEN (CHOOSE b \in Prior(page) : TRUE).answer
    ELSE NotOk

Handle(page) ==
    IF Acceptable(page)
    THEN /\ server' = Received(page)
         /\ accepted' = accepted \union {[page |-> page, answer |-> AnswerTo(page)]}
    ELSE UNCHANGED serverVars

-----------------------------------------------------------------------------
(* start_scan()                                                            *)

(* Mutant: the plugin never stops by itself.                               *)
MayTryForever(scan) == TRUE

(* A delta or repair is due, or an order was changed: a scan that exists   *)
(* and has attempts left gets a page job, otherwise a new scan begins.     *)
MayTryAgain(scan) == scan.attempt < MaxAttempts

Trigger(p, repair) ==
    /\ At(p, "idle")
    /\ IF option.scan # NoScan
       THEN /\ jobs' = IF MayTryAgain(option.scan) THEN Queued ELSE jobs
            /\ UNCHANGED process
       ELSE /\ Becomes(p, [Idle EXCEPT !.pc = "start", !.repair = repair])
            /\ UNCHANGED jobs
    /\ UNCHANGED <<shopVars, option, late, serverVars, spent>>

(* Whoever finds the lock taken, however old it is, gives up.              *)
LockStart(p) ==
    /\ At(p, "start")
    /\ IF option.lock = "free"
       THEN /\ option' = [option EXCEPT !.lock = "held"]
            /\ Becomes(p, [process[p] EXCEPT !.pc = "snapshot"])
       ELSE /\ Rest(p)
            /\ UNCHANGED option
    /\ UNCHANGED <<shopVars, jobs, late, serverVars, spent>>

ScanFrom(p, through) ==
    IF process[p].repair \/ option.cursor = None
    THEN through - History
    ELSE option.cursor - Overlap

(* Mutant: orders may still change under the last second of the window.    *)
ScanThroughNow == clock

(* The window ends where orders can no longer change.                      *)
ScanThrough == clock - Lag

Snapshot(p) ==
    /\ At(p, "snapshot")
    /\ spent.scans < MaxScans
    /\ spent' = [spent EXCEPT !.scans = @ + 1]
    /\ LET through == ScanThrough
           from == ScanFrom(p, through)
           scan ==
             [id |-> spent.scans + 1, from |-> from, through |-> through, number |-> 1,
              left |-> {o \in Order : from <= order[o].at /\ order[o].at <= through},
              pending |-> NoPage, attempt |-> 0]
       IN  option' = [option EXCEPT !.scan = scan, !.lock = "free"]
    /\ jobs' = Queued
    /\ Rest(p)
    /\ UNCHANGED <<shopVars, late, serverVars>>

(* More orders than a scan may have, or a failing query.                   *)
SnapshotFails(p) ==
    /\ At(p, "snapshot")
    /\ option' = [option EXCEPT !.lock = "free"]
    /\ Rest(p)
    /\ UNCHANGED <<shopVars, jobs, late, serverVars, spent>>

-----------------------------------------------------------------------------
(* page()                                                                  *)

(* The scan is read before the lock is taken.                              *)
ReadScan(p) ==
    /\ At(p, "idle")
    /\ jobs > 0
    /\ jobs' = jobs - 1
    /\ IF option.scan = NoScan
       THEN UNCHANGED process
       ELSE Becomes(p, [Idle EXCEPT !.pc = "read", !.scan = option.scan])
    /\ UNCHANGED <<shopVars, option, late, serverVars, spent>>

LockBusy(p) ==
    /\ At(p, "read")
    /\ option.lock = "held"
    /\ Rest(p)
    /\ UNCHANGED <<shopVars, option, jobs, late, serverVars, spent>>

(* The next ids of the snapshot, as many as a page holds.                  *)
Chunk(left) == {o \in left : Cardinality({x \in left : x < o}) < PageSize}

(* The page is built from the orders as they are now, and stored with the  *)
(* scan before it is sent.                                                 *)
WithPage(scan) ==
    LET ids == Chunk(scan.left)
        page == [scan |-> scan.id, from |-> scan.from, through |-> scan.through,
                 number |-> scan.number, final |-> scan.left = ids,
                 records |-> [o \in ids |-> order[o]]]
    IN  [scan EXCEPT !.left = @ \ ids, !.pending = page]

Send(p) ==
    /\ At(p, "read")
    /\ option.lock # "held"
    /\ LET mine == process[p].scan
           scan == IF mine.pending = NoPage THEN WithPage(mine) ELSE mine
       IN  /\ option' =
                [option EXCEPT !.lock = "held",
                               !.scan = IF mine.pending = NoPage THEN scan ELSE @]
           /\ Becomes(p, [Idle EXCEPT !.pc = "sent", !.scan = scan])
    /\ UNCHANGED <<shopVars, jobs, late, serverVars, spent>>

(* The catch branch: the copy of the scan is written back with one attempt *)
(* more, and tried again later while attempts are left.                    *)
GiveUp(p, scan) ==
    LET failed == [scan EXCEPT !.attempt = @ + 1]
    IN  /\ option' = [option EXCEPT !.scan = failed, !.lock = "free"]
        /\ jobs' = IF MayTryAgain(failed) THEN Queued ELSE jobs
        /\ Rest(p)

(* An order that cannot be extracted ends the attempt; the copy that is    *)
(* written back has already passed the orders before it.                   *)
Passed(scan, o) == {x \in Chunk(scan.left) : x < o}

ExtractionFails(p, o) ==
    /\ At(p, "read")
    /\ option.lock # "held"
    /\ process[p].scan.pending = NoPage
    /\ o \in Chunk(process[p].scan.left)
    /\ GiveUp(p, [process[p].scan EXCEPT !.left = @ \ Passed(process[p].scan, o)])
    /\ Fault
    /\ UNCHANGED <<shopVars, late, serverVars>>

Deliver(p) ==
    /\ At(p, "sent")
    /\ LET page == process[p].scan.pending
       IN  /\ Handle(page)
           /\ Becomes(p, [process[p] EXCEPT !.pc = "answered", !.answer = AnswerTo(page)])
    /\ UNCHANGED <<shopVars, option, jobs, late, spent>>

(* A page nobody waits for any more: it was lost, or is handled later.     *)
Orphaned(p) ==
    late' \in IF At(p, "sent") THEN {late, late \union {process[p].scan.pending}} ELSE {late}

NoResponse(p) ==
    /\ Fault
    /\ At(p, "sent") \/ At(p, "answered")
    /\ Orphaned(p)
    /\ GiveUp(p, process[p].scan)
    /\ UNCHANGED <<shopVars, serverVars>>

DeliverLate(page) ==
    /\ late' = late \ {page}
    /\ Handle(page)
    /\ UNCHANGED <<shopVars, pluginVars, spent>>

(* Mutant: any answer that is not an error acknowledges the page.          *)
AcknowledgedByAny(p) == process[p].answer.ok

(* Every record was taken, and the last page advanced coverage.            *)
Acknowledged(p) ==
    LET answer == process[p].answer
    IN  answer.ok /\ ~answer.rejected /\ (process[p].scan.pending.final => answer.advanced)

NextPage(p) ==
    /\ At(p, "answered")
    /\ Acknowledged(p)
    /\ ~process[p].scan.pending.final
    /\ option' = [option EXCEPT !.lock = "free",
                                !.scan = [process[p].scan EXCEPT
                                            !.pending = NoPage, !.number = @ + 1, !.attempt = 0]]
    /\ jobs' = Queued
    /\ Rest(p)
    /\ UNCHANGED <<shopVars, late, serverVars, spent>>

EndScan(p) ==
    /\ At(p, "answered")
    /\ Acknowledged(p)
    /\ process[p].scan.pending.final
    /\ option' = [scan |-> NoScan, lock |-> "free", cursor |-> process[p].scan.through]
    /\ Rest(p)
    /\ UNCHANGED <<shopVars, jobs, late, serverVars, spent>>

Refused(p) ==
    /\ At(p, "answered")
    /\ ~Acknowledged(p)
    /\ GiveUp(p, IF process[p].answer.ok /\ ~process[p].answer.rejected
                 THEN [process[p].scan EXCEPT !.attempt = 0]
                 ELSE process[p].scan)
    /\ UNCHANGED <<shopVars, late, serverVars, spent>>

-----------------------------------------------------------------------------
(* A process that dies leaves the lock as it is.                           *)
Crash(p) ==
    /\ Fault
    /\ ~At(p, "idle")
    /\ Orphaned(p)
    /\ Rest(p)
    /\ UNCHANGED <<shopVars, option, jobs, serverVars>>

(* "Retry a full repair": the scan and its lock are dropped, whoever may   *)
(* be at work on them, and a repair scan begins.                           *)
Retry(p) ==
    /\ Fault
    /\ At(p, "idle")
    /\ option' = [option EXCEPT !.scan = NoScan, !.lock = "free"]
    /\ Becomes(p, [Idle EXCEPT !.pc = "start", !.repair = TRUE])
    /\ UNCHANGED <<shopVars, jobs, late, serverVars>>

(* An order changes, under the modification time of now, perhaps to        *)
(* something the server does not support.                                  *)
Edit(o, valid) ==
    /\ spent.edits < MaxEdits
    /\ spent' = [spent EXCEPT !.edits = @ + 1]
    /\ order' = [order EXCEPT ![o] = [at |-> clock, body |-> spent.edits + 1, valid |-> valid]]
    /\ UNCHANGED <<clock, pluginVars, late, serverVars>>

Tick ==
    /\ clock < MaxTime
    /\ clock' = clock + 1
    /\ UNCHANGED <<order, pluginVars, late, serverVars, spent>>

(* 120 seconds pass for the lock, 30 minutes for the scan at the server.   *)
LockAges ==
    /\ option.lock = "held"
    /\ option' = [option EXCEPT !.lock = "old"]
    /\ UNCHANGED <<shopVars, jobs, process, late, serverVars, spent>>

ScanAges ==
    /\ server.scan # 0 /\ ~server.stale
    /\ server' = [server EXCEPT !.stale = TRUE]
    /\ UNCHANGED <<shopVars, pluginVars, late, accepted, spent>>

Next ==
    \/ \E p \in Process :
        \/ \E repair \in BOOLEAN : Trigger(p, repair)
        \/ LockStart(p) \/ Snapshot(p) \/ SnapshotFails(p)
        \/ ReadScan(p) \/ LockBusy(p) \/ Send(p) \/ Deliver(p)
        \/ \E o \in Order : ExtractionFails(p, o)
        \/ NextPage(p) \/ EndScan(p) \/ Refused(p)
        \/ NoResponse(p) \/ Crash(p) \/ Retry(p)
    \/ \E page \in late : DeliverLate(page)
    \/ \E o \in Order, valid \in BOOLEAN : Edit(o, valid)
    \/ Tick \/ LockAges \/ ScanAges

Spec == Init /\ [][Next]_vars

-----------------------------------------------------------------------------
(* docs/connectors.md:35: "A bounded ID snapshot prevents ordinary offset  *)
(* pagination skips during source changes.  [...]  The server advances     *)
(* coverage only after contiguous acknowledged completion."  So every order*)
(* last modified inside a complete coverage is known as it is.             *)
CoverageIsKnown ==
    server.complete =>
        \A o \in Order :
            server.covered_from <= order[o].at /\ order[o].at <= server.covered_through
                => server.fact[o] = order[o]

(* The plugin's cursor, where its next delta starts, never runs ahead of   *)
(* what the server has covered; otherwise no delta would ever be contiguous*)
(* again (class-ledgerguard-plugin.php:324-327, service.py:191).           *)
CursorIsCovered == option.cursor # None => option.cursor <= server.covered_through
=============================================================================
