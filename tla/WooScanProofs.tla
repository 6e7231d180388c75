--------------------------- MODULE WooScanProofs ---------------------------
(***************************************************************************)
(* What holds of WooScan for every set of processes and orders and every   *)
(* bound.                                                                  *)
(*                                                                         *)
(* The cursor: the coverage of the server never moves back, an answer that *)
(* says "advanced" is given for a page whose window the coverage has       *)
(* reached, the copy of the answer a late repetition gets is the one for   *)
(* that very page, and the page a scan sends has the window of the scan.   *)
(* So the end of the scan, which becomes the cursor, is covered, whichever *)
(* copies of the scan other processes write back meanwhile.                *)
(*                                                                         *)
(* The coverage: all copies of a scan and all its pages follow one plan,   *)
(* its snapshot taken chunk by chunk, so that the last page in sequence    *)
(* comes after all of them, unless a failed extraction left some out; a    *)
(* window closed before anything that changes later, so that a page shows  *)
(* an order as it is or as it was; and a window that joins the coverage    *)
(* meets it, so that no gap is covered.                                    *)
(*                                                                         *)
(* The types: a page that is not the last leaves orders for the next, so   *)
(* that a scan has no more pages than orders and one.                      *)
(***************************************************************************)
EXTENDS WooScan, Sums, TLAPS

-----------------------------------------------------------------------------
(* The state, with no bound on numbers.                                    *)

FactRecord == [at : Int, body : Nat, valid : BOOLEAN]
PageRecord ==
    [scan : Nat, from : Int, through : Nat, number : Nat, final : BOOLEAN,
     records : UNION {[ids -> FactRecord] : ids \in SUBSET Order}]
ScanRecord ==
    [id : Nat, from : Int, through : Nat, number : Nat, left : SUBSET Order,
     pending : PageRecord \union {NoPage}, attempt : Nat]
ServerRecord ==
    [scan : Nat, from : Int, through : Int, next : Nat, failed : BOOLEAN,
     stale : BOOLEAN, complete : BOOLEAN, covered_from : Int,
     covered_through : Int, fact : [Order -> FactRecord \union {NoFact}]]
OptionRecord ==
    [scan : ScanRecord \union {NoScan}, lock : {"free", "held", "old"}, cursor : Int]
ProcessRecord ==
    [pc : {"idle", "start", "snapshot", "read", "sent", "answered"},
     scan : ScanRecord \union {NoScan}, repair : BOOLEAN,
     answer : Answer \union {NoAnswer}]

PluginTypes ==
    /\ clock \in Nat /\ Lag <= clock
    /\ order \in [Order -> FactRecord]
    /\ option \in OptionRecord
    /\ jobs \in Nat
    /\ process \in [Process -> ProcessRecord]
    /\ late \subseteq PageRecord
    /\ spent \in [scans : Nat, edits : Nat, faults : Nat]

ServerTypes ==
    /\ server \in ServerRecord
    /\ accepted \subseteq [page : PageRecord, answer : Answer]

(* A process that read, sent or had an answer holds a scan; one that sent  *)
(* holds the page it sent.                                                 *)
HasItsScan ==
    \A p \in Process :
        /\ process[p].pc \in {"read", "sent", "answered"} => process[p].scan \in ScanRecord
        /\ process[p].pc \in {"sent", "answered"} => process[p].scan.pending \in PageRecord
        /\ process[p].pc = "answered" => process[p].answer \in Answer

OwnWindow(scan) ==
    scan \in ScanRecord /\ scan.pending \in PageRecord
        => scan.pending.through = scan.through

(* The page of a scan has the window of the scan.                          *)
PagesHaveTheirWindow ==
    /\ OwnWindow(option.scan)
    /\ \A p \in Process : OwnWindow(process[p].scan)

(* The server keeps one answer for each page of a scan.                    *)
OneAnswer ==
    \A a, b \in accepted :
        a.page.scan = b.page.scan /\ a.page.number = b.page.number => a = b

(* An answer that says "advanced" was given for a window that is covered.  *)
AnswersAreCovered ==
    \A a \in accepted : a.answer.advanced => a.page.through <= server.covered_through

(* So was the answer a process holds.                                      *)
HeldAnswersAreCovered ==
    \A p \in Process :
        process[p].pc = "answered" /\ process[p].answer.advanced
            => process[p].scan.pending.through <= server.covered_through

(* All of it that is about processes.                                      *)
ProcessesAreSound ==
    /\ process \in [Process -> ProcessRecord]
    /\ HasItsScan
    /\ \A p \in Process : OwnWindow(process[p].scan)
    /\ HeldAnswersAreCovered

ScanInv ==
    /\ PluginTypes
    /\ ServerTypes
    /\ HasItsScan
    /\ PagesHaveTheirWindow
    /\ OneAnswer
    /\ AnswersAreCovered
    /\ HeldAnswersAreCovered
    /\ CursorIsCovered

-----------------------------------------------------------------------------
(* Operators                                                               *)

LEMMA Numbers ==
  /\ Order \subseteq Nat
  /\ Lag \in Nat /\ History \in Nat /\ Overlap \in Nat /\ MaxTime \in Nat
  /\ MaxEdits \in Nat /\ MaxJobs \in Nat
  BY ScanAssumption

LEMMA MaxIs ==
  ASSUME NEW a \in Int, NEW b \in Int
  PROVE  Max({a, b}) = IF a <= b THEN b ELSE a
  <1>1. \E m \in {a, b} : \A n \in {a, b} : m >= n
    BY SMT
  <1>2. Max({a, b}) \in {a, b} /\ \A n \in {a, b} : Max({a, b}) >= n
    BY <1>1, Zenon DEF Max
  <1> QED
    BY <1>2

LEMMA MinIs ==
  ASSUME NEW a \in Int, NEW b \in Int
  PROVE  Min({a, b}) = IF a <= b THEN a ELSE b
  <1>1. \E m \in {a, b} : \A n \in {a, b} : m <= n
    BY SMT
  <1>2. Min({a, b}) \in {a, b} /\ \A n \in {a, b} : Min({a, b}) <= n
    BY <1>1, Zenon DEF Min
  <1> QED
    BY <1>2

(* What the sentinels are not (class-ledgerguard-plugin.php:303).          *)
LEMMA Sentinels ==
  /\ NoScan \notin ScanRecord
  /\ NoPage \notin PageRecord
  /\ NoAnswer \notin Answer
  /\ None \in Int
  <1>1. NoScan \notin ScanRecord
    BY DEF NoScan, ScanRecord
  <1>2. NoPage \notin PageRecord
    BY DEF NoPage, PageRecord
  <1>3. NoAnswer \notin Answer
    BY DEF NoAnswer, Answer
  <1>4. None \in Int
    BY Numbers DEF None
  <1> QED
    BY <1>1, <1>2, <1>3, <1>4

LEMMA IdleTypes ==
  /\ Idle \in ProcessRecord
  /\ Idle.pc = "idle"
  /\ Idle.scan = NoScan
  /\ \A repair \in BOOLEAN :
        [Idle EXCEPT !.pc = "start", !.repair = repair] \in ProcessRecord
  BY DEF Idle, ProcessRecord

-----------------------------------------------------------------------------
(* The server                                                              *)

LEMMA BegunType ==
  ASSUME server \in ServerRecord, NEW page \in PageRecord
  PROVE  /\ Begun(page) \in ServerRecord
         /\ Begun(page).covered_through = server.covered_through
  <1> DEFINE new == [server EXCEPT !.scan = page.scan, !.from = page.from,
                                   !.through = page.through, !.next = 1,
                                   !.failed = FALSE, !.complete = FALSE]
  <1>1. page.scan \in Nat /\ page.from \in Int /\ page.through \in Int
    BY DEF PageRecord
  <1>2. new \in ServerRecord /\ new.covered_through = server.covered_through
    BY <1>1 DEF ServerRecord
  <1>3. Begun(page) = IF server.scan = page.scan THEN server ELSE new
    BY DEF Begun
  <1> QED
    BY <1>2, <1>3, Zenon

LEMMA UpsertedType ==
  ASSUME NEW known \in FactRecord \union {NoFact}, NEW new \in FactRecord
  PROVE  Upserted(known, new) \in FactRecord \union {NoFact}
  BY DEF Upserted

(* The transaction of accept_woo_batch (ingestion/service.py:113-207)      *)
(* never moves the coverage back, and moves it to the end of the page's    *)
(* window if it advances it.                                               *)
LEMMA ReceivedCovers ==
  ASSUME server \in ServerRecord, NEW page \in PageRecord
  PROVE  /\ Received(page) \in ServerRecord
         /\ server.covered_through <= Received(page).covered_through
         /\ Advances(page) => page.through <= Received(page).covered_through
  <1> DEFINE b == Begun(page)
             facts == [o \in Order |->
                         IF o \in DOMAIN page.records \ Rejected(page)
                         THEN Upserted(b.fact[o], page.records[o]) ELSE b.fact[o]]
             from == IF ~Advances(page) THEN b.covered_from
                     ELSE IF b.covered_from = None THEN page.from
                     ELSE Min({b.covered_from, page.from})
             through == IF Advances(page) THEN Max({b.covered_through, page.through})
                        ELSE b.covered_through
             complete == Advances(page) \/ (b.complete /\ ~(page.final /\ FailsScan(page)))
             scan == IF page.final THEN 0 ELSE b.scan
             end == IF page.final THEN None ELSE b.through
  <1>1. b \in ServerRecord /\ b.covered_through = server.covered_through
    BY BegunType
  <1>2. facts \in [Order -> FactRecord \union {NoFact}]
    <2> SUFFICES ASSUME NEW o \in Order PROVE facts[o] \in FactRecord \union {NoFact}
      BY Zenon
    <2>1. b.fact[o] \in FactRecord \union {NoFact}
      BY <1>1 DEF ServerRecord
    <2>2. ASSUME o \in DOMAIN page.records PROVE page.records[o] \in FactRecord
      BY <2>2 DEF PageRecord
    <2> QED
      BY <2>1, <2>2, UpsertedType
  <1>3. page.from \in Int /\ page.through \in Int /\ page.final \in BOOLEAN
    BY DEF PageRecord
  <1>4. b.covered_from \in Int /\ b.covered_through \in Int /\ b.complete \in BOOLEAN
        /\ b.scan \in Nat /\ b.through \in Int /\ b.next \in Nat
    BY <1>1 DEF ServerRecord
  <1>5. from \in Int
    BY <1>3, <1>4, MinIs
  <1>6. through \in Int /\ b.covered_through <= through
        /\ (Advances(page) => page.through <= through)
    <2> HIDE DEF b
    <2>1. CASE Advances(page)
      <3>1. through = Max({b.covered_through, page.through})
        BY <2>1
      <3> HIDE DEF through
      <3> QED
        BY <3>1, <1>3, <1>4, MaxIs
    <2>2. CASE ~Advances(page)
      <3>1. through = b.covered_through
        BY <2>2
      <3> HIDE DEF through
      <3> QED
        BY <2>2, <3>1, <1>4
    <2> QED
      BY <2>1, <2>2
  <1>7. complete \in BOOLEAN /\ FailsScan(page) \in BOOLEAN
    BY DEF FailsScan
  <1>8. scan \in Nat /\ end \in Int
    BY <1>3, <1>4, Sentinels
  <1>9. Received(page) =
          [b EXCEPT !.next = b.next + 1, !.stale = FALSE, !.failed = FailsScan(page),
                    !.fact = facts, !.scan = scan, !.through = end, !.complete = complete,
                    !.covered_from = from, !.covered_through = through]
    BY Zenon DEF Received
  <1> HIDE DEF b, facts, from, through, complete, scan, end
  <1>a. b.next + 1 \in Nat
    BY <1>4
  <1>10. Received(page) \in ServerRecord /\ Received(page).covered_through = through
    <2>1. Received(page).covered_through = through
      BY <1>1, <1>9 DEF ServerRecord
    <2>2. Received(page) \in ServerRecord
      BY <1>1, <1>2, <1>a, <1>5, <1>6, <1>7, <1>8, <1>9 DEF ServerRecord
    <2> QED
      BY <2>1, <2>2
  <1> QED
    BY <1>1, <1>6, <1>10

(* Whoever asks with this page is told the truth about the coverage, also  *)
(* when the server has handled the page before.                            *)
LEMMA HandleCovers ==
  ASSUME ServerTypes, OneAnswer, AnswersAreCovered,
         NEW page \in PageRecord, Handle(page)
  PROVE  /\ ServerTypes' /\ OneAnswer' /\ AnswersAreCovered'
         /\ server.covered_through <= server'.covered_through
         /\ AnswerTo(page) \in Answer
         /\ AnswerTo(page).advanced => page.through <= server'.covered_through
  <1> server \in ServerRecord /\ accepted \subseteq [page : PageRecord, answer : Answer]
    BY DEF ServerTypes
  <1>0. server.covered_through \in Int /\ page.through \in Int
    BY DEF ServerRecord, PageRecord
  <1>1. ASSUME Acceptable(page)
        PROVE  /\ ServerTypes' /\ OneAnswer' /\ AnswersAreCovered'
               /\ server.covered_through <= server'.covered_through
               /\ AnswerTo(page) \in Answer
               /\ AnswerTo(page).advanced => page.through <= server'.covered_through
    <2> DEFINE mine == [page |-> page, answer |-> AnswerTo(page)]
    <2>1. server' = Received(page) /\ accepted' = accepted \union {mine}
      BY <1>1 DEF Handle
    <2>2. AnswerTo(page) \in Answer /\ AnswerTo(page).advanced = Advances(page)
      <3>1. AnswerTo(page) =
              [ok |-> TRUE, rejected |-> Rejected(page) # {}, advanced |-> Advances(page)]
        BY <1>1 DEF AnswerTo
      <3>2. Advances(page) \in BOOLEAN /\ (Rejected(page) # {}) \in BOOLEAN
        BY DEF Advances
      <3> QED
        BY <3>1, <3>2 DEF Answer
    <2>3. /\ server' \in ServerRecord
          /\ server.covered_through <= server'.covered_through
          /\ AnswerTo(page).advanced => page.through <= server'.covered_through
      BY <2>1, <2>2, ReceivedCovers
    <2>4. mine \in [page : PageRecord, answer : Answer]
      BY <2>2
    <2>5. ServerTypes'
      BY <2>1, <2>3, <2>4 DEF ServerTypes
    <2>6. \A b \in accepted : ~(b.page.scan = page.scan /\ b.page.number = page.number)
      BY <1>1 DEF Acceptable, Prior
    <2>7. OneAnswer'
      BY <2>1, <2>6 DEF OneAnswer
    <2>8. AnswersAreCovered'
      <3> SUFFICES ASSUME NEW a \in accepted', a.answer.advanced
                   PROVE  a.page.through <= server'.covered_through
        BY DEF AnswersAreCovered
      <3>1. CASE a \in accepted
        <4>1. a.page.through \in Nat /\ server'.covered_through \in Int
          BY <3>1, <2>3 DEF PageRecord, ServerRecord
        <4>2. a.page.through <= server.covered_through
          BY <3>1 DEF AnswersAreCovered
        <4> QED
          BY <4>1, <4>2, <1>0, <2>3
      <3>2. CASE a = mine
        BY <3>2, <2>3
      <3> QED
        BY <2>1, <3>1, <3>2
    <2> QED
      BY <2>2, <2>3, <2>5, <2>7, <2>8
  <1>2. ASSUME ~Acceptable(page)
        PROVE  /\ ServerTypes' /\ OneAnswer' /\ AnswersAreCovered'
               /\ server.covered_through <= server'.covered_through
               /\ AnswerTo(page) \in Answer
               /\ AnswerTo(page).advanced => page.through <= server'.covered_through
    <2>1. server' = server /\ accepted' = accepted
      BY <1>2 DEF Handle, serverVars
    <2>2. ServerTypes' /\ OneAnswer' /\ AnswersAreCovered'
      BY <2>1 DEF ServerTypes, OneAnswer, AnswersAreCovered
    <2>3. CASE \E b \in Prior(page) : b.page = page
      <3>1. PICK b \in Prior(page) : b.page = page
        BY <2>3
      <3>2. b \in accepted /\ \A c \in Prior(page) : c = b
        BY <3>1 DEF Prior, OneAnswer
      <3>3. AnswerTo(page) = (CHOOSE c \in Prior(page) : TRUE).answer
        BY <1>2, <2>3 DEF AnswerTo
      <3>4. (CHOOSE c \in Prior(page) : TRUE) = b
        BY <3>1, <3>2
      <3>5. AnswerTo(page) = b.answer /\ b.answer \in Answer
        BY <3>2, <3>3, <3>4
      <3> QED
        BY <1>0, <2>1, <2>2, <3>1, <3>2, <3>5 DEF AnswersAreCovered
    <2>4. CASE ~\E b \in Prior(page) : b.page = page
      <3>1. AnswerTo(page) = NotOk
        BY <1>2, <2>4 DEF AnswerTo
      <3> QED
        BY <1>0, <2>1, <2>2, <3>1 DEF NotOk, Answer
    <2> QED
      BY <2>3, <2>4
  <1> QED
    BY <1>1, <1>2

-----------------------------------------------------------------------------
(* The plugin                                                              *)

(* A process changes: what has to be known of its new state, and what then *)
(* holds of all of them.                                                   *)
LEMMA ProcessChanges ==
  ASSUME ScanInv, NEW p \in Process, NEW state \in ProcessRecord,
         Becomes(p, state), OwnWindow(state.scan),
         state.pc \in {"read", "sent", "answered"} => state.scan \in ScanRecord,
         state.pc \in {"sent", "answered"} => state.scan.pending \in PageRecord,
         state.pc = "answered" => state.answer \in Answer,
         state.pc = "answered" /\ state.answer.advanced
            => state.scan.pending.through <= server'.covered_through,
         server'.covered_through \in Int,
         server.covered_through <= server'.covered_through
  PROVE  ProcessesAreSound'
  <1>1. process \in [Process -> ProcessRecord] /\ server.covered_through \in Int
    BY DEF ScanInv, PluginTypes, ServerTypes, ServerRecord
  <1>2. /\ process' \in [Process -> ProcessRecord]
        /\ process'[p] = state
        /\ \A q \in Process \ {p} : process'[q] = process[q]
    BY <1>1 DEF Becomes
  <1>3. HasItsScan'
    BY <1>2, Zenon DEF ScanInv, HasItsScan
  <1>4. \A q \in Process : OwnWindow(process'[q].scan)
    BY <1>2, Zenon DEF ScanInv, PagesHaveTheirWindow
  <1>5. HeldAnswersAreCovered'
    <2> SUFFICES ASSUME NEW q \in Process,
                        process'[q].pc = "answered" /\ process'[q].answer.advanced
                 PROVE  process'[q].scan.pending.through <= server'.covered_through
      BY DEF HeldAnswersAreCovered
    <2>1. CASE q = p
      BY <1>2, <2>1
    <2>2. CASE q # p
      <3>1. process'[q] = process[q]
        BY <1>2, <2>2
      <3>2. process[q].scan.pending.through <= server.covered_through
        BY <3>1 DEF ScanInv, HeldAnswersAreCovered
      <3>3. process[q].scan.pending.through \in Nat
        BY <3>1 DEF ScanInv, HasItsScan, PageRecord
      <3> QED
        BY <1>1, <3>1, <3>2, <3>3
    <2> QED
      BY <2>1, <2>2
  <1> QED
    BY <1>2, <1>3, <1>4, <1>5 DEF ProcessesAreSound

(* A process that goes on without a page keeps everything, provided what   *)
(* it leaves in the options and the queue is in order.                     *)
LEMMA WithoutServer ==
  ASSUME ScanInv, UNCHANGED <<shopVars, serverVars>>,
         ProcessesAreSound',
         option' \in OptionRecord, OwnWindow(option'.scan), option'.cursor = option.cursor,
         jobs' \in Nat, late' \subseteq PageRecord,
         spent' \in [scans : Nat, edits : Nat, faults : Nat]
  PROVE  ScanInv'
  <1>1. PluginTypes'
    BY DEF ScanInv, PluginTypes, shopVars, ProcessesAreSound
  <1>2. ServerTypes' /\ OneAnswer' /\ AnswersAreCovered'
    BY DEF ScanInv, ServerTypes, OneAnswer, AnswersAreCovered, serverVars
  <1>3. PagesHaveTheirWindow'
    BY Zenon DEF PagesHaveTheirWindow, ProcessesAreSound
  <1>4. CursorIsCovered'
    BY DEF ScanInv, CursorIsCovered, serverVars
  <1> QED
    BY <1>1, <1>2, <1>3, <1>4 DEF ScanInv, ProcessesAreSound

LEMMA NoWindow == OwnWindow(NoScan)
  BY Sentinels DEF OwnWindow

LEMMA QueuedType ==
  ASSUME jobs \in Nat PROVE Queued \in Nat
  BY Numbers DEF Queued

LEMMA FaultType ==
  ASSUME spent \in [scans : Nat, edits : Nat, faults : Nat], Fault
  PROVE  spent' \in [scans : Nat, edits : Nat, faults : Nat]
  BY DEF Fault

(* A process that rests, or is about to start a scan.                      *)
LEMMA ProcessRests ==
  ASSUME ScanInv, NEW p \in Process, NEW state \in ProcessRecord, Becomes(p, state),
         state.pc \in {"idle", "start", "snapshot"}, OwnWindow(state.scan),
         UNCHANGED serverVars
  PROVE  ProcessesAreSound'
  <1>1. server' = server /\ server.covered_through \in Int
    BY DEF serverVars, ScanInv, ServerTypes, ServerRecord
  <1>3. server.covered_through <= server'.covered_through /\ server'.covered_through \in Int
    BY <1>1
  <1>4. state.pc \notin {"read", "sent", "answered"}
    OBVIOUS
  <1> QED
    BY <1>3, <1>4, ProcessChanges

(* The catch branch (class-ledgerguard-plugin.php:330-338) writes back a   *)
(* scan whose page has the window of the scan.                             *)
LEMMA GiveUpKeeps ==
  ASSUME ScanInv, NEW p \in Process, NEW scan \in ScanRecord, OwnWindow(scan),
         GiveUp(p, scan), UNCHANGED serverVars
  PROVE  /\ ProcessesAreSound'
         /\ option' \in OptionRecord
         /\ OwnWindow(option'.scan)
         /\ option'.cursor = option.cursor
         /\ jobs' \in Nat
  <1> DEFINE failed == [scan EXCEPT !.attempt = @ + 1]
  <1>1. /\ option' = [option EXCEPT !.scan = failed, !.lock = "free"]
        /\ jobs' = IF MayTryAgain(failed) THEN Queued ELSE jobs
        /\ Becomes(p, Idle)
    BY DEF GiveUp, Rest
  <1>2. option \in OptionRecord /\ jobs \in Nat
    BY DEF ScanInv, PluginTypes
  <1>3. /\ failed \in ScanRecord
        /\ failed.pending = scan.pending
        /\ failed.through = scan.through
    BY DEF ScanRecord
  <1>4. OwnWindow(failed)
    BY <1>3, Zenon DEF OwnWindow
  <1> HIDE DEF failed
  <1>5. option' \in OptionRecord /\ option'.scan = failed /\ option'.cursor = option.cursor
    BY <1>1, <1>2, <1>3 DEF OptionRecord
  <1>6. jobs' \in Nat
    BY <1>1, <1>2, QueuedType
  <1>7. ProcessesAreSound'
    BY <1>1, ProcessRests, IdleTypes, NoWindow
  <1> QED
    BY <1>4, <1>5, <1>6, <1>7

-----------------------------------------------------------------------------
(* One lemma for each action                                               *)

LEMMA InitStep == ASSUME Init PROVE ScanInv
  <1>1. \A p \in Process : process[p] = Idle
    BY DEF Init
  <1>2. process \in [Process -> ProcessRecord]
    BY IdleTypes, Zenon DEF Init
  <1>3. order \in [Order -> FactRecord]
    <2>1. [at |-> 0, body |-> 0, valid |-> TRUE] \in FactRecord
      BY DEF FactRecord
    <2> QED
      BY <2>1, Zenon DEF Init
  <1>4. server \in ServerRecord
    <2>1. [o \in Order |-> NoFact] \in [Order -> FactRecord \union {NoFact}]
      OBVIOUS
    <2> QED
      BY <2>1, Sentinels DEF Init, ServerRecord
  <1>5. /\ option \in OptionRecord /\ option.scan = NoScan /\ option.cursor = None
        /\ jobs \in Nat /\ late = {} /\ accepted = {} /\ clock \in Nat /\ Lag <= clock
    BY Numbers, Sentinels DEF Init, OptionRecord
  <1>6. spent \in [scans : Nat, edits : Nat, faults : Nat]
    BY DEF Init
  <1>7. PluginTypes /\ ServerTypes
    BY <1>2, <1>3, <1>4, <1>5, <1>6 DEF PluginTypes, ServerTypes
  <1>8. HasItsScan /\ HeldAnswersAreCovered
    BY <1>1, IdleTypes DEF HasItsScan, HeldAnswersAreCovered
  <1>9. PagesHaveTheirWindow
    BY <1>1, <1>5, IdleTypes, NoWindow DEF PagesHaveTheirWindow
  <1>10. OneAnswer /\ AnswersAreCovered /\ CursorIsCovered
    BY <1>5 DEF OneAnswer, AnswersAreCovered, CursorIsCovered
  <1> QED
    BY <1>7, <1>8, <1>9, <1>10 DEF ScanInv

(* What an action without the server finds and may rely on.                *)
LEMMA PluginFacts ==
  ASSUME ScanInv
  PROVE  /\ jobs \in Nat /\ option \in OptionRecord /\ late \subseteq PageRecord
         /\ process \in [Process -> ProcessRecord]
         /\ spent \in [scans : Nat, edits : Nat, faults : Nat]
         /\ OwnWindow(option.scan)
         /\ \A q \in Process : OwnWindow(process[q].scan)
         /\ HasItsScan
  BY DEF ScanInv, PluginTypes, PagesHaveTheirWindow

LEMMA ProcessesStay ==
  ASSUME ScanInv, UNCHANGED <<process, serverVars>>
  PROVE  ProcessesAreSound'
  BY PluginFacts DEF ScanInv, HasItsScan, HeldAnswersAreCovered, serverVars,
                     ProcessesAreSound

(* start_scan()                                                            *)
LEMMA TriggerStep ==
  ASSUME ScanInv, NEW p \in Process, NEW repair \in BOOLEAN, Trigger(p, repair)
  PROVE  ScanInv'
  <1>1. /\ UNCHANGED <<shopVars, serverVars>> /\ option' = option /\ late' = late
        /\ spent' = spent
        /\ jobs' \in {Queued, jobs}
    BY DEF Trigger
  <1>2. jobs \in Nat /\ option \in OptionRecord
    BY PluginFacts
  <1>3. jobs' \in Nat
    BY <1>1, <1>2, QueuedType
  <1>4. CASE process' = process
    <2>1. ProcessesAreSound'
      BY <1>1, <1>4, ProcessesStay
    <2> QED
      BY <1>1, <1>2, <1>3, <2>1, WithoutServer, PluginFacts
  <1>5. CASE Becomes(p, [Idle EXCEPT !.pc = "start", !.repair = repair])
    <2> DEFINE state == [Idle EXCEPT !.pc = "start", !.repair = repair]
    <2>1. state \in ProcessRecord /\ state.pc = "start" /\ state.scan = NoScan
      BY IdleTypes DEF Idle
    <2>2. Becomes(p, state)
      BY <1>5
    <2> HIDE DEF state
    <2>3. ProcessesAreSound'
      BY <1>1, <2>1, <2>2, ProcessRests, NoWindow
    <2> QED
      BY <1>1, <1>2, <1>3, <2>3, WithoutServer, PluginFacts
  <1> QED
    BY <1>4, <1>5 DEF Trigger

LEMMA LockStartStep ==
  ASSUME ScanInv, NEW p \in Process, LockStart(p) PROVE ScanInv'
  <1>1. /\ UNCHANGED <<shopVars, serverVars>> /\ jobs' = jobs /\ late' = late
        /\ spent' = spent /\ process[p].pc = "start"
    BY DEF LockStart, At
  <1>2. option' \in OptionRecord /\ option'.scan = option.scan
        /\ option'.cursor = option.cursor
    BY PluginFacts DEF LockStart, OptionRecord
  <1>3. PICK state \in ProcessRecord :
           Becomes(p, state) /\ state.pc \in {"idle", "snapshot"} /\ OwnWindow(state.scan)
    <2>1. CASE Becomes(p, Idle)
      BY <2>1, IdleTypes, NoWindow
    <2>2. CASE Becomes(p, [process[p] EXCEPT !.pc = "snapshot"])
      <3>1. /\ [process[p] EXCEPT !.pc = "snapshot"] \in ProcessRecord
            /\ [process[p] EXCEPT !.pc = "snapshot"].pc = "snapshot"
            /\ [process[p] EXCEPT !.pc = "snapshot"].scan = process[p].scan
        BY PluginFacts DEF ProcessRecord
      <3> QED
        BY <2>2, <3>1, PluginFacts
    <2> QED
      BY <2>1, <2>2 DEF LockStart, Rest
  <1>4. ProcessesAreSound'
    BY <1>1, <1>3, ProcessRests
  <1> QED
    BY <1>1, <1>2, <1>4, WithoutServer, PluginFacts

LEMMA SnapshotStep ==
  ASSUME ScanInv, NEW p \in Process, Snapshot(p) PROVE ScanInv'
  <1> DEFINE scan ==
               [id |-> spent.scans + 1, from |-> ScanFrom(p, ScanThrough),
                through |-> ScanThrough, number |-> 1,
                left |-> {o \in Order : ScanFrom(p, ScanThrough) <= order[o].at
                                        /\ order[o].at <= ScanThrough},
                pending |-> NoPage, attempt |-> 0]
  <1>1. /\ UNCHANGED <<shopVars, serverVars>> /\ late' = late /\ jobs' = Queued
        /\ spent' = [spent EXCEPT !.scans = @ + 1]
        /\ option' = [option EXCEPT !.scan = scan, !.lock = "free"]
        /\ Becomes(p, Idle)
    BY DEF Snapshot, Rest
  <1>2. ScanThrough \in Nat
    BY Numbers DEF ScanInv, PluginTypes, ScanThrough
  <1>3. ScanFrom(p, ScanThrough) \in Int
    BY <1>2, Numbers, PluginFacts DEF ScanFrom, OptionRecord
  <1>4. scan \in ScanRecord /\ scan.pending = NoPage
    BY <1>2, <1>3, PluginFacts DEF ScanRecord
  <1> HIDE DEF scan
  <1>5. OwnWindow(scan)
    BY <1>4, Sentinels DEF OwnWindow
  <1>6. option' \in OptionRecord /\ option'.scan = scan /\ option'.cursor = option.cursor
    BY <1>1, <1>4, PluginFacts DEF OptionRecord
  <1>7. spent' \in [scans : Nat, edits : Nat, faults : Nat]
    BY <1>1, PluginFacts
  <1>8. ProcessesAreSound'
    BY <1>1, ProcessRests, IdleTypes, NoWindow
  <1> QED
    BY <1>1, <1>5, <1>6, <1>7, <1>8, PluginFacts, QueuedType, WithoutServer

LEMMA SnapshotFailsStep ==
  ASSUME ScanInv, NEW p \in Process, SnapshotFails(p) PROVE ScanInv'
  <1>1. /\ UNCHANGED <<shopVars, serverVars>> /\ late' = late /\ jobs' = jobs
        /\ spent' = spent
        /\ option' = [option EXCEPT !.lock = "free"]
        /\ Becomes(p, Idle)
    BY DEF SnapshotFails, Rest
  <1>2. option' \in OptionRecord /\ option'.scan = option.scan
        /\ option'.cursor = option.cursor
    BY <1>1, PluginFacts DEF OptionRecord
  <1>3. ProcessesAreSound'
    BY <1>1, ProcessRests, IdleTypes, NoWindow
  <1> QED
    BY <1>1, <1>2, <1>3, PluginFacts, WithoutServer

(* page()                                                                  *)
LEMMA ReadScanStep ==
  ASSUME ScanInv, NEW p \in Process, ReadScan(p) PROVE ScanInv'
  <1>1. /\ UNCHANGED <<shopVars, serverVars>> /\ late' = late /\ jobs' = jobs - 1
        /\ spent' = spent /\ option' = option /\ jobs > 0
    BY DEF ReadScan
  <1>2. jobs' \in Nat
    BY <1>1, PluginFacts
  <1>3. CASE process' = process
    BY <1>1, <1>2, <1>3, ProcessesStay, PluginFacts, WithoutServer
  <1>4. ASSUME option.scan # NoScan, Becomes(p, [Idle EXCEPT !.pc = "read", !.scan = option.scan])
        PROVE  ScanInv'
    <2> DEFINE state == [Idle EXCEPT !.pc = "read", !.scan = option.scan]
    <2>1. option.scan \in ScanRecord
      BY <1>4, PluginFacts DEF OptionRecord
    <2>2. state \in ProcessRecord /\ state.pc = "read" /\ state.scan = option.scan
      BY <2>1, IdleTypes DEF Idle, ProcessRecord
    <2>3. Becomes(p, state)
      BY <1>4
    <2>4. server'.covered_through \in Int
          /\ server.covered_through <= server'.covered_through
      BY <1>1 DEF serverVars, ScanInv, ServerTypes, ServerRecord
    <2> HIDE DEF state
    <2>5. ProcessesAreSound'
      BY <2>1, <2>2, <2>3, <2>4, PluginFacts, ProcessChanges
    <2> QED
      BY <1>1, <1>2, <2>5, PluginFacts, WithoutServer
  <1> QED
    BY <1>3, <1>4 DEF ReadScan

LEMMA LockBusyStep ==
  ASSUME ScanInv, NEW p \in Process, LockBusy(p) PROVE ScanInv'
  <1>1. /\ UNCHANGED <<shopVars, serverVars>> /\ late' = late /\ jobs' = jobs
        /\ spent' = spent /\ option' = option /\ Becomes(p, Idle)
    BY DEF LockBusy, Rest
  <1>2. ProcessesAreSound'
    BY <1>1, ProcessRests, IdleTypes, NoWindow
  <1> QED
    BY <1>1, <1>2, PluginFacts, WithoutServer

(* The page that is built for a scan has the window of the scan            *)
(* (class-ledgerguard-plugin.php:286-303).                                 *)
LEMMA BuiltPage ==
  ASSUME ScanInv, NEW scan \in ScanRecord
  PROVE  /\ WithPage(scan) \in ScanRecord
         /\ WithPage(scan).pending \in PageRecord
         /\ OwnWindow(WithPage(scan))
  <1> DEFINE ids == Chunk(scan.left)
             records == [o \in ids |-> order[o]]
             page == [scan |-> scan.id, from |-> scan.from, through |-> scan.through,
                      number |-> scan.number, final |-> scan.left = ids,
                      records |-> records]
  <1>1. ids \subseteq scan.left /\ scan.left \subseteq Order
    BY DEF Chunk, ScanRecord
  <1>2. records \in UNION {[x -> FactRecord] : x \in SUBSET Order}
    <2>1. \A o \in ids : order[o] \in FactRecord
      BY <1>1 DEF ScanInv, PluginTypes
    <2>2. records \in [ids -> FactRecord] /\ ids \in SUBSET Order
      BY <1>1, <2>1
    <2> QED
      BY <2>2, Zenon
  <1>3. (scan.left = ids) \in BOOLEAN
    OBVIOUS
  <1> HIDE DEF records, ids
  <1>4. page \in PageRecord /\ page.through = scan.through
    BY <1>2, <1>3 DEF PageRecord, ScanRecord
  <1>5. WithPage(scan) = [scan EXCEPT !.left = @ \ ids, !.pending = page]
    BY Zenon DEF WithPage, ids, records
  <1> HIDE DEF page
  <1>6. /\ WithPage(scan) \in ScanRecord /\ WithPage(scan).pending = page
        /\ WithPage(scan).through = scan.through
    BY <1>1, <1>4, <1>5 DEF ScanRecord
  <1> QED
    BY <1>4, <1>6 DEF OwnWindow

LEMMA SendStep ==
  ASSUME ScanInv, NEW p \in Process, Send(p) PROVE ScanInv'
  <1> DEFINE mine == process[p].scan
             scan == IF mine.pending = NoPage THEN WithPage(mine) ELSE mine
             state == [Idle EXCEPT !.pc = "sent", !.scan = scan]
  <1>1. /\ UNCHANGED <<shopVars, serverVars>> /\ late' = late /\ jobs' = jobs
        /\ spent' = spent /\ process[p].pc = "read" /\ Becomes(p, state)
        /\ option' = [option EXCEPT !.lock = "held",
                                    !.scan = IF mine.pending = NoPage THEN scan ELSE @]
    BY DEF Send, At
  <1>2. mine \in ScanRecord /\ OwnWindow(mine)
    BY <1>1, PluginFacts DEF HasItsScan
  <1>3. scan \in ScanRecord /\ scan.pending \in PageRecord /\ OwnWindow(scan)
    <2>1. mine.pending \in PageRecord \union {NoPage}
      BY <1>2 DEF ScanRecord
    <2> HIDE DEF mine
    <2> QED
      BY <1>2, <2>1, BuiltPage
  <1> HIDE DEF scan
  <1>4. state \in ProcessRecord /\ state.pc = "sent" /\ state.scan = scan
    BY <1>3, IdleTypes DEF Idle, ProcessRecord
  <1>5. server'.covered_through \in Int
        /\ server.covered_through <= server'.covered_through
    BY <1>1 DEF serverVars, ScanInv, ServerTypes, ServerRecord
  <1> HIDE DEF state, mine
  <1>6. ProcessesAreSound'
    BY <1>1, <1>3, <1>4, <1>5, ProcessChanges
  <1>7. option' \in OptionRecord /\ option'.cursor = option.cursor
        /\ option'.scan \in {scan, option.scan}
    BY <1>1, <1>3, PluginFacts DEF OptionRecord
  <1> QED
    BY <1>1, <1>3, <1>6, <1>7, PluginFacts, WithoutServer

LEMMA ExtractionFailsStep ==
  ASSUME ScanInv, NEW p \in Process, NEW o \in Order, ExtractionFails(p, o) PROVE ScanInv'
  <1> DEFINE mine == process[p].scan
             scan == [mine EXCEPT !.left = @ \ Passed(mine, o)]
  <1>1. /\ UNCHANGED <<shopVars, serverVars>> /\ late' = late
        /\ Fault /\ process[p].pc = "read" /\ GiveUp(p, scan)
    BY DEF ExtractionFails, At
  <1>2. mine \in ScanRecord /\ OwnWindow(mine)
    BY <1>1, PluginFacts DEF HasItsScan
  <1> HIDE DEF mine
  <1>3. /\ scan \in ScanRecord /\ scan.pending = mine.pending
        /\ scan.through = mine.through
    BY <1>2 DEF ScanRecord
  <1>4. OwnWindow(scan)
    BY <1>2, <1>3, Zenon DEF OwnWindow
  <1> HIDE DEF scan
  <1> QED
    BY <1>1, <1>3, <1>4, GiveUpKeeps, PluginFacts, FaultType, WithoutServer

LEMMA DeliverStep ==
  ASSUME ScanInv, NEW p \in Process, Deliver(p) PROVE ScanInv'
  <1> DEFINE page == process[p].scan.pending
             state == [process[p] EXCEPT !.pc = "answered", !.answer = AnswerTo(page)]
  <1>1. /\ UNCHANGED <<shopVars, option, jobs, late, spent>>
        /\ process[p].pc = "sent" /\ Handle(page) /\ Becomes(p, state)
    BY DEF Deliver, At
  <1>2. process[p].scan \in ScanRecord /\ page \in PageRecord
    BY <1>1, PluginFacts DEF HasItsScan
  <1> HIDE DEF page
  <1>3. /\ ServerTypes' /\ OneAnswer' /\ AnswersAreCovered'
        /\ server.covered_through <= server'.covered_through
        /\ AnswerTo(page) \in Answer
        /\ AnswerTo(page).advanced => page.through <= server'.covered_through
    BY <1>1, <1>2, HandleCovers DEF ScanInv
  <1>4. /\ state \in ProcessRecord /\ state.pc = "answered"
        /\ state.scan = process[p].scan /\ state.answer = AnswerTo(page)
    BY <1>3, PluginFacts DEF ProcessRecord
  <1> HIDE DEF state
  <1>5. server'.covered_through \in Int /\ server.covered_through \in Int
    BY <1>3 DEF ScanInv, ServerTypes, ServerRecord
  <1>6. ProcessesAreSound'
    BY <1>1, <1>2, <1>3, <1>4, <1>5, PluginFacts, ProcessChanges DEF page
  <1>7. PluginTypes'
    BY <1>1, <1>6 DEF ScanInv, PluginTypes, ProcessesAreSound, shopVars
  <1>8. PagesHaveTheirWindow'
    BY <1>1, <1>6, PluginFacts DEF PagesHaveTheirWindow, ProcessesAreSound
  <1>9. CursorIsCovered'
    BY <1>1, <1>3, <1>5, PluginFacts DEF ScanInv, CursorIsCovered, OptionRecord, None
  <1> QED
    BY <1>3, <1>6, <1>7, <1>8, <1>9 DEF ScanInv, ProcessesAreSound

(* A request nobody waits for any more may still be handled.               *)
LEMMA OrphanedType ==
  ASSUME ScanInv, NEW p \in Process, Orphaned(p) PROVE late' \subseteq PageRecord
  BY PluginFacts DEF Orphaned, At, HasItsScan

LEMMA NoResponseStep ==
  ASSUME ScanInv, NEW p \in Process, NoResponse(p) PROVE ScanInv'
  <1>1. /\ UNCHANGED <<shopVars, serverVars>>
        /\ Fault /\ process[p].pc \in {"sent", "answered"} /\ Orphaned(p)
        /\ GiveUp(p, process[p].scan)
    BY DEF NoResponse, At
  <1>2. process[p].scan \in ScanRecord /\ OwnWindow(process[p].scan)
    BY <1>1, PluginFacts DEF HasItsScan
  <1> QED
    BY <1>1, <1>2, GiveUpKeeps, PluginFacts, FaultType, OrphanedType, WithoutServer

LEMMA DeliverLateStep ==
  ASSUME ScanInv, NEW page \in late, DeliverLate(page) PROVE ScanInv'
  <1>1. /\ UNCHANGED <<shopVars, pluginVars, spent>> /\ Handle(page)
        /\ late' = late \ {page}
    BY DEF DeliverLate
  <1>2. page \in PageRecord
    BY PluginFacts
  <1>3. /\ ServerTypes' /\ OneAnswer' /\ AnswersAreCovered'
        /\ server.covered_through <= server'.covered_through
    BY <1>1, <1>2, HandleCovers DEF ScanInv
  <1>4. server'.covered_through \in Int /\ server.covered_through \in Int
    BY <1>3 DEF ScanInv, ServerTypes, ServerRecord
  <1>5. PluginTypes' /\ HasItsScan' /\ PagesHaveTheirWindow'
    BY <1>1 DEF ScanInv, PluginTypes, HasItsScan, PagesHaveTheirWindow, pluginVars, shopVars
  <1>6. HeldAnswersAreCovered'
    <2> SUFFICES ASSUME NEW q \in Process,
                        process[q].pc = "answered" /\ process[q].answer.advanced
                 PROVE  process[q].scan.pending.through <= server'.covered_through
      BY <1>1 DEF HeldAnswersAreCovered, pluginVars
    <2>1. process[q].scan.pending.through <= server.covered_through
      BY DEF ScanInv, HeldAnswersAreCovered
    <2>2. process[q].scan.pending.through \in Nat
      BY DEF ScanInv, HasItsScan, PageRecord
    <2> QED
      BY <1>3, <1>4, <2>1, <2>2
  <1>7. CursorIsCovered'
    BY <1>1, <1>3, <1>4, PluginFacts DEF ScanInv, CursorIsCovered, OptionRecord, pluginVars,
                                         None
  <1> QED
    BY <1>3, <1>5, <1>6, <1>7 DEF ScanInv

LEMMA NextPageStep ==
  ASSUME ScanInv, NEW p \in Process, NextPage(p) PROVE ScanInv'
  <1> DEFINE mine == process[p].scan
             scan == [mine EXCEPT !.pending = NoPage, !.number = @ + 1, !.attempt = 0]
  <1>1. /\ UNCHANGED <<shopVars, serverVars>> /\ late' = late /\ jobs' = Queued
        /\ spent' = spent /\ process[p].pc = "answered" /\ Becomes(p, Idle)
        /\ option' = [option EXCEPT !.lock = "free", !.scan = scan]
    BY DEF NextPage, At, Rest
  <1>2. mine \in ScanRecord
    BY <1>1, PluginFacts DEF HasItsScan
  <1> HIDE DEF mine
  <1>3. scan \in ScanRecord /\ scan.pending = NoPage
    <2>1. mine.number + 1 \in Nat
      BY <1>2 DEF ScanRecord
    <2>2. scan = [mine EXCEPT !.pending = NoPage, !.number = mine.number + 1, !.attempt = 0]
      BY <1>2 DEF ScanRecord
    <2> HIDE DEF scan
    <2> QED
      BY <1>2, <2>1, <2>2 DEF ScanRecord
  <1> HIDE DEF scan
  <1>4. OwnWindow(scan)
    BY <1>3, Sentinels DEF OwnWindow
  <1>5. option' \in OptionRecord /\ option'.scan = scan /\ option'.cursor = option.cursor
    BY <1>1, <1>3, PluginFacts DEF OptionRecord
  <1>6. ProcessesAreSound'
    BY <1>1, ProcessRests, IdleTypes, NoWindow
  <1> QED
    BY <1>1, <1>4, <1>5, <1>6, PluginFacts, QueuedType, WithoutServer

(* The scan ends with an answer that says "advanced": its end, the cursor  *)
(* from now on, is covered (class-ledgerguard-plugin.php:324-327).         *)
LEMMA EndScanStep ==
  ASSUME ScanInv, NEW p \in Process, EndScan(p) PROVE ScanInv'
  <1>1. /\ UNCHANGED <<shopVars, serverVars>> /\ late' = late /\ jobs' = jobs
        /\ spent' = spent /\ process[p].pc = "answered" /\ Becomes(p, Idle)
        /\ option' = [scan |-> NoScan, lock |-> "free", cursor |-> process[p].scan.through]
        /\ Acknowledged(p) /\ process[p].scan.pending.final
    BY DEF EndScan, At, Rest
  <1>2. /\ process[p].scan \in ScanRecord /\ process[p].scan.pending \in PageRecord
        /\ process[p].answer.advanced
    BY <1>1, PluginFacts DEF HasItsScan, Acknowledged
  <1>3. process[p].scan.pending.through = process[p].scan.through
    BY <1>2, PluginFacts DEF OwnWindow
  <1>4. process[p].scan.pending.through <= server.covered_through
    BY <1>1, <1>2 DEF ScanInv, HeldAnswersAreCovered
  <1>5. CursorIsCovered'
    BY <1>1, <1>3, <1>4 DEF CursorIsCovered, serverVars
  <1>6. option' \in OptionRecord /\ OwnWindow(option'.scan)
    BY <1>1, <1>2, NoWindow DEF OptionRecord, ScanRecord
  <1>7. ProcessesAreSound'
    BY <1>1, ProcessRests, IdleTypes, NoWindow
  <1>8. PluginTypes'
    BY <1>1, <1>6, <1>7 DEF ScanInv, PluginTypes, ProcessesAreSound, shopVars
  <1>9. PagesHaveTheirWindow'
    BY <1>6, <1>7 DEF PagesHaveTheirWindow, ProcessesAreSound
  <1>10. ServerTypes' /\ OneAnswer' /\ AnswersAreCovered'
    BY <1>1 DEF ScanInv, ServerTypes, OneAnswer, AnswersAreCovered, serverVars
  <1> QED
    BY <1>5, <1>7, <1>8, <1>9, <1>10 DEF ScanInv, ProcessesAreSound

LEMMA RefusedStep ==
  ASSUME ScanInv, NEW p \in Process, Refused(p) PROVE ScanInv'
  <1> DEFINE mine == process[p].scan
             again == [mine EXCEPT !.attempt = 0]
  <1>1. /\ UNCHANGED <<shopVars, serverVars>> /\ late' = late /\ spent' = spent
        /\ process[p].pc = "answered"
        /\ GiveUp(p, again) \/ GiveUp(p, mine)
    BY DEF Refused, At
  <1>2. mine \in ScanRecord /\ OwnWindow(mine)
    BY <1>1, PluginFacts DEF HasItsScan
  <1> HIDE DEF mine
  <1>3. /\ again \in ScanRecord /\ again.pending = mine.pending
        /\ again.through = mine.through
    BY <1>2 DEF ScanRecord
  <1>4. OwnWindow(again)
    BY <1>2, <1>3, Zenon DEF OwnWindow
  <1> HIDE DEF again
  <1>5. PICK scan \in ScanRecord : OwnWindow(scan) /\ GiveUp(p, scan)
    BY <1>1, <1>2, <1>3, <1>4
  <1> QED
    BY <1>1, <1>5, GiveUpKeeps, PluginFacts, WithoutServer

-----------------------------------------------------------------------------
(* Faults, the merchant, the shop and time                                 *)

LEMMA CrashStep ==
  ASSUME ScanInv, NEW p \in Process, Crash(p) PROVE ScanInv'
  <1>1. /\ UNCHANGED <<shopVars, serverVars>> /\ option' = option /\ jobs' = jobs
        /\ Fault /\ Orphaned(p) /\ Becomes(p, Idle)
    BY DEF Crash, Rest
  <1>2. ProcessesAreSound'
    BY <1>1, ProcessRests, IdleTypes, NoWindow
  <1> QED
    BY <1>1, <1>2, PluginFacts, FaultType, OrphanedType, WithoutServer

LEMMA RetryStep ==
  ASSUME ScanInv, NEW p \in Process, Retry(p) PROVE ScanInv'
  <1> DEFINE state == [Idle EXCEPT !.pc = "start", !.repair = TRUE]
  <1>1. /\ UNCHANGED <<shopVars, serverVars>> /\ late' = late /\ jobs' = jobs
        /\ Fault /\ Becomes(p, state)
        /\ option' = [option EXCEPT !.scan = NoScan, !.lock = "free"]
    BY DEF Retry
  <1>2. state \in ProcessRecord /\ state.pc = "start" /\ state.scan = NoScan
    BY IdleTypes DEF Idle
  <1> HIDE DEF state
  <1>3. ProcessesAreSound'
    BY <1>1, <1>2, ProcessRests, NoWindow
  <1>4. option' \in OptionRecord /\ OwnWindow(option'.scan) /\ option'.cursor = option.cursor
    BY <1>1, NoWindow, PluginFacts DEF OptionRecord
  <1> QED
    BY <1>1, <1>3, <1>4, PluginFacts, FaultType, WithoutServer

(* An order changes, or time passes for the shop, the lock or the scan at  *)
(* the server.                                                             *)
LEMMA ShopStep ==
  ASSUME ScanInv, \/ \E o \in Order, valid \in BOOLEAN : Edit(o, valid)
                  \/ Tick
  PROVE  ScanInv'
  <1>1. UNCHANGED <<pluginVars, late, serverVars>>
    BY DEF Edit, Tick
  <1>2. clock' \in Nat /\ Lag <= clock'
    BY Numbers DEF ScanInv, PluginTypes, Edit, Tick
  <1>3. order' \in [Order -> FactRecord] /\ spent' \in [scans : Nat, edits : Nat, faults : Nat]
    <2>1. ASSUME NEW o \in Order, NEW valid \in BOOLEAN, Edit(o, valid)
          PROVE  /\ order' \in [Order -> FactRecord]
                 /\ spent' \in [scans : Nat, edits : Nat, faults : Nat]
      <3>1. [at |-> clock, body |-> spent.edits + 1, valid |-> valid] \in FactRecord
        BY PluginFacts DEF ScanInv, PluginTypes, FactRecord
      <3> QED
        BY <2>1, <3>1, PluginFacts DEF Edit, ScanInv, PluginTypes
    <2>2. CASE Tick
      BY <2>2, PluginFacts DEF Tick, ScanInv, PluginTypes
    <2> QED
      BY <2>1, <2>2
  <1>4. PluginTypes'
    BY <1>1, <1>2, <1>3 DEF ScanInv, PluginTypes, pluginVars
  <1>5. ServerTypes' /\ HasItsScan' /\ PagesHaveTheirWindow' /\ OneAnswer'
        /\ AnswersAreCovered' /\ HeldAnswersAreCovered' /\ CursorIsCovered'
    BY <1>1 DEF ScanInv, ServerTypes, HasItsScan, PagesHaveTheirWindow, OneAnswer,
                AnswersAreCovered, HeldAnswersAreCovered, CursorIsCovered, pluginVars,
                serverVars
  <1> QED
    BY <1>4, <1>5 DEF ScanInv

LEMMA LockAgesStep ==
  ASSUME ScanInv, LockAges PROVE ScanInv'
  <1>1. /\ UNCHANGED <<shopVars, serverVars>> /\ late' = late /\ jobs' = jobs
        /\ spent' = spent /\ process' = process
        /\ option' = [option EXCEPT !.lock = "old"]
    BY DEF LockAges
  <1>2. option' \in OptionRecord /\ option'.scan = option.scan
        /\ option'.cursor = option.cursor
    BY <1>1, PluginFacts DEF OptionRecord
  <1> QED
    BY <1>1, <1>2, ProcessesStay, PluginFacts, WithoutServer

LEMMA ScanAgesStep ==
  ASSUME ScanInv, ScanAges PROVE ScanInv'
  <1>1. /\ UNCHANGED <<shopVars, pluginVars, late, accepted, spent>>
        /\ server' = [server EXCEPT !.stale = TRUE]
    BY DEF ScanAges
  <1>2. server' \in ServerRecord /\ server'.covered_through = server.covered_through
    BY <1>1 DEF ScanInv, ServerTypes, ServerRecord
  <1>3. PluginTypes' /\ HasItsScan' /\ PagesHaveTheirWindow'
    BY <1>1 DEF ScanInv, PluginTypes, HasItsScan, PagesHaveTheirWindow, pluginVars, shopVars
  <1>4. ServerTypes' /\ OneAnswer' /\ AnswersAreCovered' /\ HeldAnswersAreCovered'
        /\ CursorIsCovered'
    BY <1>1, <1>2 DEF ScanInv, ServerTypes, OneAnswer, AnswersAreCovered,
                      HeldAnswersAreCovered, CursorIsCovered, pluginVars
  <1> QED
    BY <1>3, <1>4 DEF ScanInv

LEMMA StutterStep ==
  ASSUME ScanInv, UNCHANGED vars PROVE ScanInv'
  BY PluginFacts, ProcessesStay, WithoutServer DEF vars, pluginVars

-----------------------------------------------------------------------------
(* The invariant that carries the next theorem.                            *)
THEOREM ScanInvariant == Spec => []ScanInv
  <1>1. Init => ScanInv
    BY InitStep
  <1>2. ScanInv /\ [Next]_vars => ScanInv'
    <2> SUFFICES ASSUME ScanInv, [Next]_vars PROVE ScanInv'
      OBVIOUS
    <2>1. ASSUME NEW p \in Process,
                 \/ \E repair \in BOOLEAN : Trigger(p, repair)
                 \/ LockStart(p) \/ Snapshot(p) \/ SnapshotFails(p)
          PROVE  ScanInv'
      BY <2>1, TriggerStep, LockStartStep, SnapshotStep, SnapshotFailsStep
    <2>2. ASSUME NEW p \in Process,
                 \/ ReadScan(p) \/ LockBusy(p) \/ Send(p) \/ Deliver(p)
                 \/ \E o \in Order : ExtractionFails(p, o)
          PROVE  ScanInv'
      BY <2>2, ReadScanStep, LockBusyStep, SendStep, DeliverStep, ExtractionFailsStep
    <2>3. ASSUME NEW p \in Process,
                 \/ NextPage(p) \/ EndScan(p) \/ Refused(p)
                 \/ NoResponse(p) \/ Crash(p) \/ Retry(p)
          PROVE  ScanInv'
      BY <2>3, NextPageStep, EndScanStep, RefusedStep, NoResponseStep, CrashStep, RetryStep
    <2>4. ASSUME \E page \in late : DeliverLate(page) PROVE ScanInv'
      BY <2>4, DeliverLateStep
    <2>5. ASSUME \/ \E o \in Order, valid \in BOOLEAN : Edit(o, valid)
                 \/ Tick \/ LockAges \/ ScanAges
          PROVE  ScanInv'
      BY <2>5, ShopStep, LockAgesStep, ScanAgesStep
    <2>6. CASE UNCHANGED vars
      BY <2>6, StutterStep
    <2> QED
      BY <2>1, <2>2, <2>3, <2>4, <2>5, <2>6, Zenon DEF Next
  <1> QED
    BY <1>1, <1>2, PTL DEF Spec

(* The plugin's cursor never runs ahead of the server's coverage, with any *)
(* number of PHP processes that hold old copies of the scan, any scan and  *)
(* page size, locks that run out, lost answers and requests that arrive    *)
(* late: page() and accept_woo_batch (class-ledgerguard-plugin.php:        *)
(* 324-327, ingestion/service.py:191).                                     *)
THEOREM CursorStaysCovered == Spec => []CursorIsCovered
  <1>1. ScanInv => CursorIsCovered
    BY DEF ScanInv
  <1> QED
    BY <1>1, ScanInvariant, PTL

-----------------------------------------------------------------------------
(* What coverage means.  The plan of a scan is its window and what is left *)
(* of its snapshot before each page: every copy of the scan and every page,*)
(* wherever they are, follow it, so that the last page of a scan is only   *)
(* accepted after all that the snapshot took.  Orders are modified after   *)
(* the windows of all scans.                                               *)

(* What a scan sends: its window, and what is left of its snapshot before  *)
(* each page.                                                              *)
ScanPlan == [from : Int, through : Nat, rest : [Nat -> SUBSET Order]]

(* The window of a plan is closed, and its snapshot has every order that is*)
(* still in it.                                                            *)
InWindow(w, shop, now) ==
    /\ None < w.from /\ w.from <= w.through /\ w.through + Lag <= now
    /\ \A n \in Nat \ {0} : w.rest[n + 1] = w.rest[n] \ Chunk(w.rest[n])
    /\ \A o \in Order :
          w.from <= shop[o].at /\ shop[o].at <= w.through => o \in w.rest[1]

(* The window reaches the coverage, or is a repair's: that one reaches it  *)
(* as long as the server takes so old a window.                            *)
MayJoin(w, covered_from, now) ==
    \/ covered_from # None /\ covered_from <= w.through
    \/ /\ w.from = w.through - History
       /\ covered_from = None \/ covered_from + History + Lag <= now

(* A fact is the order as it is, or as it was.                             *)
Past(shop, o, x) ==
    x = shop[o] \/ (x.body < shop[o].body /\ x.at <= shop[o].at)

(* A page is the one its plan foresees, and shows the orders that did not  *)
(* leave its window as they are.                                           *)
PageFollows(plan, shop, page) ==
    /\ page.scan \in DOMAIN plan /\ page.number # 0
    /\ page.from = plan[page.scan].from /\ page.through = plan[page.scan].through
    /\ DOMAIN page.records = Chunk(plan[page.scan].rest[page.number])
    /\ page.final => plan[page.scan].rest[page.number + 1] = {}
    /\ \A o \in DOMAIN page.records :
          /\ Past(shop, o, page.records[o])
          /\ shop[o].at <= page.through => page.records[o] = shop[o]

(* So does a copy of a scan, wherever it is, however old.                  *)
CopyFollows(plan, shop, scan) ==
    scan \in ScanRecord =>
        /\ scan.id \in DOMAIN plan /\ scan.number # 0
        /\ scan.from = plan[scan.id].from /\ scan.through = plan[scan.id].through
        /\ scan.pending = NoPage => scan.left = plan[scan.id].rest[scan.number]
        /\ scan.pending # NoPage =>
              /\ scan.pending.scan = scan.id /\ scan.pending.number = scan.number
              /\ PageFollows(plan, shop, scan.pending)
              /\ scan.left = plan[scan.id].rest[scan.number + 1]

(* Of the scan under way the server knows what the pages it took show,     *)
(* unless it rejected a record.                                            *)
ServerFollows(plan, shop, s) ==
    s.scan # 0 =>
        /\ s.scan \in DOMAIN plan /\ s.next # 0
        /\ ~s.failed =>
              \A o \in plan[s.scan].rest[1] \ plan[s.scan].rest[s.next] :
                  shop[o].at <= plan[s.scan].through => s.fact[o] = shop[o]

Covered(shop, now, s) ==
    /\ None < s.covered_from /\ s.covered_from <= s.covered_through
    /\ s.covered_through + Lag <= now
    /\ \A o \in Order :
          s.covered_from <= shop[o].at /\ shop[o].at <= s.covered_through
              => s.fact[o] = shop[o]

ServerKnows(shop, now, s) ==
    /\ \A o \in Order : s.fact[o] = NoFact \/ Past(shop, o, s.fact[o])
    /\ \/ s.covered_from = None /\ s.covered_through = None
       \/ Covered(shop, now, s)

ShopIsOrdered(shop, now, edits) ==
    \A o \in Order : shop[o].at \in 0..now /\ shop[o].body <= edits

Planned(plan) ==
    /\ plan \in [1..spent.scans -> ScanPlan]
    /\ \A s \in 1..spent.scans :
          InWindow(plan[s], order, clock) /\ MayJoin(plan[s], server.covered_from, clock)
    /\ CopyFollows(plan, order, option.scan)
    /\ \A q \in Process : CopyFollows(plan, order, process[q].scan)
    /\ \A page \in late : PageFollows(plan, order, page)
    /\ ServerFollows(plan, order, server)
    /\ ServerKnows(order, clock, server)
    /\ ShopIsOrdered(order, clock, spent.edits)
    /\ option.cursor \in Nat \union {None}

-----------------------------------------------------------------------------
(* The server: facts and coverage                                          *)

(* A fact that arrives never replaces what is current, and is kept if it is*)
(* current and not rejected (ingestion/service.py:45-75).                  *)
LEMMA UpsertedIs ==
  ASSUME NEW shop \in [Order -> FactRecord], NEW o \in Order,
         NEW known \in FactRecord \union {NoFact}, NEW new \in FactRecord,
         known = NoFact \/ Past(shop, o, known), Past(shop, o, new)
  PROVE  /\ Past(shop, o, Upserted(known, new))
         /\ known = shop[o] => Upserted(known, new) = shop[o]
         /\ new = shop[o] /\ ~Conflicts(known, new) => Upserted(known, new) = shop[o]
  <1>1. shop[o] \in FactRecord
    OBVIOUS
  <1>2. NoFact \notin FactRecord
    BY DEF NoFact, FactRecord
  <1>3. CASE known = NoFact
    BY <1>1, <1>2, <1>3 DEF Upserted
  <1>4. CASE known # NoFact
    <2>1. known \in FactRecord /\ Past(shop, o, known)
      BY <1>4
    <2>2. /\ known.at \in Int /\ new.at \in Int /\ shop[o].at \in Int
          /\ known.body \in Nat /\ new.body \in Nat /\ shop[o].body \in Nat
      BY <1>1, <2>1 DEF FactRecord
    <2>3. Upserted(known, new) =
             IF known.body # new.body /\ known.at < new.at THEN new ELSE known
      BY <1>4 DEF Upserted
    <2>4. Upserted(known, new) \in {known, new}
      BY <2>3
    <2>5. known = shop[o] => Upserted(known, new) = shop[o]
      BY <2>2, <2>3 DEF Past
    <2>6. new = shop[o] /\ ~Conflicts(known, new) => Upserted(known, new) = shop[o]
      BY <1>4, <2>1, <2>2, <2>3 DEF Past, Conflicts
    <2> QED BY <2>1, <2>4, <2>5, <2>6
  <1> QED BY <1>3, <1>4

(* The fields of Received, of a page in sequence.                          *)
LEMMA ReceivedIs ==
  ASSUME server \in ServerRecord, NEW page \in PageRecord, InSequence(page)
  PROVE  LET r == Received(page) IN
         /\ r.next = page.number + 1
         /\ r.failed = FailsScan(page)
         /\ r.scan = IF page.final THEN 0 ELSE page.scan
         /\ r.from = page.from /\ r.through = IF page.final THEN None ELSE page.through
         /\ r.covered_from = IF ~Advances(page) THEN server.covered_from
                             ELSE IF server.covered_from = None THEN page.from
                             ELSE Min({server.covered_from, page.from})
         /\ r.covered_through = IF Advances(page)
                                THEN Max({server.covered_through, page.through})
                                ELSE server.covered_through
         /\ \A o \in Order :
               r.fact[o] = IF o \in DOMAIN page.records \ Rejected(page)
                           THEN Upserted(server.fact[o], page.records[o])
                           ELSE server.fact[o]
  <1> DEFINE b == Begun(page)
             new == [server EXCEPT !.scan = page.scan, !.from = page.from,
                                   !.through = page.through, !.next = 1,
                                   !.failed = FALSE, !.complete = FALSE]
             facts == [o \in Order |->
                         IF o \in DOMAIN page.records \ Rejected(page)
                         THEN Upserted(b.fact[o], page.records[o]) ELSE b.fact[o]]
             from == IF ~Advances(page) THEN b.covered_from
                     ELSE IF b.covered_from = None THEN page.from
                     ELSE Min({b.covered_from, page.from})
             through == IF Advances(page) THEN Max({b.covered_through, page.through})
                        ELSE b.covered_through
             complete == Advances(page) \/ (b.complete /\ ~(page.final /\ FailsScan(page)))
             scan == IF page.final THEN 0 ELSE b.scan
             end == IF page.final THEN None ELSE b.through
  <1>1. b \in ServerRecord
    BY BegunType
  <1>2. /\ b.covered_from = server.covered_from
        /\ b.covered_through = server.covered_through
        /\ b.fact = server.fact /\ b.scan = page.scan
    <2>1. /\ new.covered_from = server.covered_from
          /\ new.covered_through = server.covered_through
          /\ new.fact = server.fact /\ new.scan = page.scan
      BY DEF ServerRecord
    <2>2. b = IF server.scan = page.scan THEN server ELSE new
      BY DEF Begun
    <2> HIDE DEF b, new
    <2> QED BY <2>1, <2>2
  <1>3. b.next = page.number /\ b.from = page.from /\ b.through = page.through
    BY DEF InSequence
  <1>4. Received(page) =
          [b EXCEPT !.next = b.next + 1, !.stale = FALSE, !.failed = FailsScan(page),
                    !.fact = facts, !.scan = scan, !.through = end, !.complete = complete,
                    !.covered_from = from, !.covered_through = through]
    BY Zenon DEF Received
  <1> DEFINE r == Received(page)
  <1>5. /\ r.next = b.next + 1 /\ r.failed = FailsScan(page)
        /\ r.scan = scan /\ r.covered_from = from /\ r.covered_through = through
        /\ r.fact = facts /\ r.from = b.from /\ r.through = end
    <2> HIDE DEF b, facts, from, through, complete, scan, end
    <2> QED BY <1>1, <1>4 DEF ServerRecord
  <1> HIDE DEF b, r
  <1>6. \A o \in Order :
           r.fact[o] = IF o \in DOMAIN page.records \ Rejected(page)
                       THEN Upserted(server.fact[o], page.records[o])
                       ELSE server.fact[o]
    <2> SUFFICES ASSUME NEW o \in Order
                 PROVE r.fact[o] = IF o \in DOMAIN page.records \ Rejected(page)
                                   THEN Upserted(server.fact[o], page.records[o])
                                   ELSE server.fact[o]
      BY Zenon
    <2>1. r.fact[o] = facts[o]
      BY <1>5
    <2> QED BY <2>1, <1>2, Zenon
  <1>7. r.scan = IF page.final THEN 0 ELSE page.scan
    BY <1>2, <1>5
  <1>8. r.covered_from = IF ~Advances(page) THEN server.covered_from
                         ELSE IF server.covered_from = None THEN page.from
                         ELSE Min({server.covered_from, page.from})
    BY <1>2, <1>5, Zenon
  <1>9. r.covered_through = IF Advances(page)
                            THEN Max({server.covered_through, page.through})
                            ELSE server.covered_through
    BY <1>2, <1>5, Zenon
  <1>10. r.next = page.number + 1 /\ r.failed = FailsScan(page) /\ r.from = page.from
         /\ r.through = IF page.final THEN None ELSE page.through
    BY <1>3, <1>5
  <1> QED BY <1>6, <1>7, <1>8, <1>9, <1>10, Zenon DEF r

LEMMA PlannedFacts ==
  ASSUME ScanInv, NEW plan, Planned(plan)
  PROVE  /\ clock \in Nat /\ order \in [Order -> FactRecord]
         /\ server \in ServerRecord
         /\ plan \in [1..spent.scans -> ScanPlan] /\ spent.scans \in Nat
         /\ \A s \in 1..spent.scans :
               InWindow(plan[s], order, clock) /\ MayJoin(plan[s], server.covered_from, clock)
  BY DEF ScanInv, PluginTypes, ServerTypes, Planned

(* What the server knows of the orders after a page it accepts.            *)
LEMMA FactsAccepted ==
  ASSUME ScanInv, NEW plan, Planned(plan), NEW page \in PageRecord,
         PageFollows(plan, order, page), InSequence(page)
  PROVE  \A o \in Order :
            LET known == server.fact[o]
                fact == Received(page).fact[o]
            IN  /\ fact = NoFact \/ Past(order, o, fact)
                /\ known = order[o] => fact = order[o]
                /\ /\ o \in DOMAIN page.records /\ Rejected(page) = {}
                   /\ order[o].at <= page.through
                   => fact = order[o]
  <1> SUFFICES ASSUME NEW o \in Order
               PROVE  LET known == server.fact[o]
                          fact == Received(page).fact[o]
                      IN  /\ fact = NoFact \/ Past(order, o, fact)
                          /\ known = order[o] => fact = order[o]
                          /\ /\ o \in DOMAIN page.records /\ Rejected(page) = {}
                             /\ order[o].at <= page.through
                             => fact = order[o]
    BY Zenon
  <1> DEFINE known == server.fact[o]
             fact == Received(page).fact[o]
  <1>1. /\ server \in ServerRecord /\ order \in [Order -> FactRecord]
        /\ known = NoFact \/ Past(order, o, known)
    BY PlannedFacts DEF Planned, ServerKnows
  <1>2. known \in FactRecord \union {NoFact}
    BY <1>1 DEF ServerRecord
  <1>3. fact = IF o \in DOMAIN page.records \ Rejected(page)
               THEN Upserted(known, page.records[o]) ELSE known
    BY <1>1, ReceivedIs
  <1> HIDE DEF known, fact
  <1>4. CASE o \notin DOMAIN page.records
    BY <1>1, <1>3, <1>4 DEF known, fact
  <1>5. CASE o \in DOMAIN page.records
    <2>1. page.records[o] \in FactRecord
      BY <1>5 DEF PageRecord
    <2>2. /\ Past(order, o, page.records[o])
          /\ order[o].at <= page.through => page.records[o] = order[o]
      BY <1>5 DEF PageFollows
    <2>3. Rejected(page) = {} => ~Conflicts(known, page.records[o])
      BY <1>5 DEF Rejected, known
    <2> DEFINE up == Upserted(known, page.records[o])
    <2>4. /\ Past(order, o, up)
          /\ known = order[o] => up = order[o]
          /\ page.records[o] = order[o] /\ ~Conflicts(known, page.records[o])
                => up = order[o]
      BY <1>1, <1>2, <2>1, <2>2, UpsertedIs
    <2> HIDE DEF up
    <2>5. fact \in {known, up}
      BY <1>3 DEF up
    <2>6. Rejected(page) = {} => fact = up
      BY <1>3, <1>5 DEF up
    <2> QED BY <1>1, <2>2, <2>3, <2>4, <2>5, <2>6 DEF known, fact
  <1> QED BY <1>4, <1>5 DEF known, fact

(* After a page in sequence the server knows what the scan showed so far.  *)
LEMMA ScanIsKnown ==
  ASSUME ScanInv, NEW plan, Planned(plan), NEW page \in PageRecord,
         PageFollows(plan, order, page), InSequence(page),
         server.scan = page.scan \/ page.number = 1, ~FailsScan(page),
         NEW o \in plan[page.scan].rest[1] \ plan[page.scan].rest[page.number + 1],
         order[o].at <= page.through
  PROVE  Received(page).fact[o] = order[o]
  <1> DEFINE w == plan[page.scan]
  <1>1. /\ page.scan \in 1..spent.scans /\ page.number \in Nat \ {0}
        /\ page.through = w.through
        /\ DOMAIN page.records = Chunk(w.rest[page.number])
    BY PlannedFacts DEF PageFollows, PageRecord
  <1>2. w \in ScanPlan /\ InWindow(w, order, clock)
    BY <1>1, PlannedFacts
  <1>3. w.rest[page.number + 1] = w.rest[page.number] \ Chunk(w.rest[page.number])
    BY <1>1, <1>2 DEF InWindow
  <1>4. o \in Order
    BY <1>2 DEF ScanPlan
  <1>5. Rejected(page) = {} /\ ~Begun(page).failed
    BY DEF FailsScan
  <1>6. CASE o \in DOMAIN page.records
    BY <1>4, <1>5, <1>6, FactsAccepted
  <1>7. CASE o \notin DOMAIN page.records
    <2>1. o \in w.rest[1] \ w.rest[page.number]
      BY <1>1, <1>3, <1>7
    <2>2. page.number # 1
      BY <2>1
    <2>3. server.scan = page.scan /\ server.scan # 0
      BY <1>1, <2>2
    <2>4. Begun(page) = server
      BY <2>3 DEF Begun
    <2>5. server.next = page.number /\ ~server.failed
      BY <1>5, <2>4 DEF InSequence
    <2>6. server.fact[o] = order[o]
      BY <1>1, <2>1, <2>3, <2>5 DEF Planned, ServerFollows
    <2> QED BY <1>4, <2>6, FactsAccepted
  <1> QED BY <1>6, <1>7

LEMMA ScanGoesOn ==
  ASSUME ScanInv, NEW plan, Planned(plan), NEW page \in PageRecord,
         PageFollows(plan, order, page), InSequence(page),
         server.scan = page.scan \/ page.number = 1
  PROVE  ServerFollows(plan, order, Received(page))
  <1> DEFINE r == Received(page)
  <1>1. /\ r.next = page.number + 1 /\ r.failed = FailsScan(page)
        /\ r.scan = IF page.final THEN 0 ELSE page.scan
    BY PlannedFacts, ReceivedIs
  <1>2. \A o \in plan[page.scan].rest[1] \ plan[page.scan].rest[page.number + 1] :
           ~FailsScan(page) /\ order[o].at <= page.through => r.fact[o] = order[o]
    BY ScanIsKnown
  <1> HIDE DEF r
  <1>3. /\ page.scan \in DOMAIN plan /\ page.number \in Nat
        /\ page.through = plan[page.scan].through
    BY DEF PageFollows, PageRecord
  <1>4. SUFFICES ASSUME r.scan # 0 PROVE ServerFollows(plan, order, r)
    BY DEF ServerFollows, r
  <1>5. r.scan = page.scan /\ r.next # 0 /\ r.next = page.number + 1
    BY <1>1, <1>3, <1>4
  <1> QED BY <1>1, <1>2, <1>3, <1>5 DEF ServerFollows

(* Coverage grows by the whole window of the page, and only where the two  *)
(* meet (ingestion/service.py:187-203).                                    *)
LEMMA CoverageGrows ==
  ASSUME ScanInv, NEW plan, Planned(plan), NEW page \in PageRecord,
         PageFollows(plan, order, page), Acceptable(page)
  PROVE  /\ ServerKnows(order, clock, Received(page))
         /\ \A s \in 1..spent.scans :
               MayJoin(plan[s], Received(page).covered_from, clock)
  <1> DEFINE r == Received(page)
             w == plan[page.scan]
             cf == server.covered_from
             ct == server.covered_through
  <1>1. /\ server \in ServerRecord /\ order \in [Order -> FactRecord]
        /\ spent.scans \in Nat /\ clock \in Nat
        /\ ServerKnows(order, clock, server) /\ InSequence(page)
        /\ server.scan = page.scan \/ page.number = 1
        /\ clock - MaxAge <= page.from
    BY PlannedFacts DEF Planned, Acceptable, MayBegin
  <1>2. /\ page.scan \in 1..spent.scans /\ page.number \in Nat
        /\ page.from = w.from /\ page.through = w.through
        /\ page.final => w.rest[page.number + 1] = {}
    BY PlannedFacts DEF PageFollows, PageRecord
  <1>3. /\ w \in ScanPlan /\ InWindow(w, order, clock) /\ MayJoin(w, cf, clock)
    BY <1>2, PlannedFacts
  <1>4. /\ r.covered_from = IF ~Advances(page) THEN cf
                            ELSE IF cf = None THEN page.from ELSE Min({cf, page.from})
        /\ r.covered_through = IF Advances(page) THEN Max({ct, page.through}) ELSE ct
    BY <1>1, ReceivedIs
  <1>5. /\ \A o \in Order : r.fact[o] = NoFact \/ Past(order, o, r.fact[o])
        /\ \A o \in Order : server.fact[o] = order[o] => r.fact[o] = order[o]
    BY <1>1, FactsAccepted
  <1>6. /\ cf \in Int /\ ct \in Int /\ None \in Int
        /\ page.from \in Int /\ page.through \in Nat
        /\ Lag \in Nat \ {0} /\ History \in Nat /\ Overlap \in Nat /\ MaxAge \in Nat
        /\ None < 0 /\ MaxAge <= 2 * History + Lag
    BY <1>1, ScanAssumption, WindowAssumption, Sentinels
       DEF ServerRecord, PageRecord, None
  <1>7. \A o \in Order : order[o].at \in Int
    BY <1>1 DEF FactRecord
  <1>8. CASE ~Advances(page)
    <2>1. r.covered_from = cf /\ r.covered_through = ct
      BY <1>4, <1>8
    <2> HIDE DEF r
    <2>2. Covered(order, clock, server) => Covered(order, clock, r)
      BY <1>5, <2>1 DEF Covered
    <2>3. ServerKnows(order, clock, r)
      BY <1>1, <1>5, <2>1, <2>2 DEF ServerKnows
    <2>4. \A s \in 1..spent.scans : MayJoin(plan[s], r.covered_from, clock)
      BY <2>1, PlannedFacts
    <2> QED BY <2>3, <2>4 DEF r
  <1>9. CASE Advances(page)
    <2>1. /\ page.final /\ ~FailsScan(page)
          /\ ct = None \/ page.from <= ct
      BY <1>9 DEF Advances
    <2>2. \A o \in Order :
             page.from <= order[o].at /\ order[o].at <= page.through
                => r.fact[o] = order[o]
      BY <1>1, <1>2, <1>3, <2>1, ScanIsKnown DEF InWindow
    <2>3. None < page.from /\ page.from <= page.through /\ page.through + Lag <= clock
      BY <1>2, <1>3 DEF InWindow
    <2> DEFINE nf == r.covered_from
               nt == r.covered_through
    <2>4. /\ nf = IF cf = None THEN page.from ELSE IF cf <= page.from THEN cf ELSE page.from
          /\ nt = IF ct <= page.through THEN page.through ELSE ct
      <3> HIDE DEF r, cf, ct
      <3> QED BY <1>4, <1>6, <1>9, MaxIs, MinIs
    <2> HIDE DEF r, nf, nt, cf, ct, w
    <2>5. CASE cf = None
      <3>1. ct = None
        BY <1>1, <1>6, <2>5 DEF ServerKnows, Covered, cf, ct
      <3>2. nf = page.from /\ nt = page.through
        BY <1>6, <2>4, <2>5, <3>1
      <3>3. Covered(order, clock, r)
        BY <1>6, <2>2, <2>3, <3>2 DEF Covered, nf, nt
      <3>4. page.from = page.through - History
        BY <1>2, <1>3, <2>5 DEF MayJoin
      <3>5. nf + History + Lag <= clock
        BY <1>1, <1>6, <2>3, <3>2, <3>4
      <3>6. \A s \in 1..spent.scans : MayJoin(plan[s], nf, clock)
        <4> SUFFICES ASSUME NEW s \in 1..spent.scans PROVE MayJoin(plan[s], nf, clock)
          OBVIOUS
        <4>1. MayJoin(plan[s], cf, clock)
          BY PlannedFacts DEF cf
        <4> QED BY <2>5, <3>5, <4>1 DEF MayJoin
      <3> QED BY <1>5, <3>3, <3>6 DEF ServerKnows, nf, r
    <2>6. CASE cf # None
      <3>1. /\ None < cf /\ cf <= ct /\ ct + Lag <= clock
            /\ \A o \in Order : cf <= order[o].at /\ order[o].at <= ct => r.fact[o] = order[o]
        BY <1>1, <1>5, <2>6 DEF ServerKnows, Covered, cf, ct
      <3>2. cf <= page.through
        <4>1. CASE cf <= w.through
          BY <1>2, <4>1
        <4>2. CASE w.from = w.through - History /\ cf + History + Lag <= clock
          BY <1>1, <1>2, <1>6, <4>2
        <4> QED BY <1>3, <2>6, <4>1, <4>2 DEF MayJoin
      <3>3. page.from <= ct
        BY <1>6, <2>1, <3>1
      <3>4. nf \in Int /\ nt \in Int /\ nf <= cf /\ None < nf /\ nf <= nt /\ nt + Lag <= clock
        BY <1>1, <1>6, <2>3, <2>4, <2>6, <3>1
      <3>5. ASSUME NEW o \in Order, nf <= order[o].at, order[o].at <= nt
            PROVE  r.fact[o] = order[o]
        <4>1. \/ cf <= order[o].at /\ order[o].at <= ct
              \/ page.from <= order[o].at /\ order[o].at <= page.through
          BY <1>6, <1>7, <2>4, <2>6, <3>2, <3>3, <3>5
        <4> QED BY <2>2, <3>1, <4>1
      <3>6. Covered(order, clock, r)
        BY <3>4, <3>5 DEF Covered, nf, nt
      <3>7. \A s \in 1..spent.scans : MayJoin(plan[s], nf, clock)
        <4> SUFFICES ASSUME NEW s \in 1..spent.scans PROVE MayJoin(plan[s], nf, clock)
          OBVIOUS
        <4>1. MayJoin(plan[s], cf, clock) /\ plan[s] \in ScanPlan
          BY PlannedFacts DEF cf
        <4>2. plan[s].through \in Int /\ nf # None
          BY <1>6, <3>4, <4>1 DEF ScanPlan
        <4> QED BY <1>1, <1>6, <2>6, <3>4, <4>1, <4>2 DEF MayJoin
      <3> QED BY <1>5, <3>6, <3>7 DEF ServerKnows, nf, r
    <2> QED BY <2>5, <2>6
  <1> QED BY <1>8, <1>9

LEMMA HandleKnows ==
  ASSUME ScanInv, NEW plan, Planned(plan), NEW page \in PageRecord,
         PageFollows(plan, order, page), Handle(page)
  PROVE  /\ ServerFollows(plan, order, server')
         /\ ServerKnows(order, clock, server')
         /\ \A s \in 1..spent.scans : MayJoin(plan[s], server'.covered_from, clock)
  <1>1. CASE Acceptable(page)
    <2>1. server' = Received(page)
      BY <1>1 DEF Handle
    <2>2. InSequence(page) /\ (server.scan = page.scan \/ page.number = 1)
      BY <1>1 DEF Acceptable, MayBegin
    <2> QED BY <1>1, <2>1, <2>2, ScanGoesOn, CoverageGrows
  <1>2. CASE ~Acceptable(page)
    <2>1. server' = server
      BY <1>2 DEF Handle, serverVars
    <2> QED BY <2>1 DEF Planned
  <1> QED BY <1>1, <1>2

-----------------------------------------------------------------------------
(* The plugin: copies of scans and pages                                   *)

(* No step passes orders: an order that cannot be extracted is the first   *)
(* of its page (class-ledgerguard-plugin.php:289-293, where the offset has *)
(* moved on by then and the records are lost).                             *)
SkipsNone ==
    \A p \in Process, o \in Order :
        ExtractionFails(p, o) => Passed(process[p].scan, o) = {}

LEMMA NoCopy == ASSUME NEW plan, NEW shop PROVE CopyFollows(plan, shop, NoScan)
  BY Sentinels DEF CopyFollows

LEMMA SameCopy ==
  ASSUME NEW plan, NEW shop, NEW a \in ScanRecord, NEW b \in ScanRecord,
         CopyFollows(plan, shop, a),
         b.id = a.id, b.from = a.from, b.through = a.through, b.number = a.number,
         b.left = a.left, b.pending = a.pending
  PROVE  CopyFollows(plan, shop, b)
  BY DEF CopyFollows

(* The page that is built is the one the plan foresees.                    *)
LEMMA BuiltFollows ==
  ASSUME ScanInv, NEW plan, Planned(plan), NEW scan \in ScanRecord,
         CopyFollows(plan, order, scan), scan.pending = NoPage
  PROVE  CopyFollows(plan, order, WithPage(scan))
  <1> DEFINE ids == Chunk(scan.left)
             page == [scan |-> scan.id, from |-> scan.from, through |-> scan.through,
                      number |-> scan.number, final |-> scan.left = ids,
                      records |-> [o \in ids |-> order[o]]]
             built == [scan EXCEPT !.left = @ \ ids, !.pending = page]
  <1>1. WithPage(scan) = built
    BY Zenon DEF WithPage
  <1>2. /\ scan.id \in DOMAIN plan /\ scan.number \in Nat \ {0}
        /\ scan.from = plan[scan.id].from /\ scan.through = plan[scan.id].through
        /\ scan.left = plan[scan.id].rest[scan.number]
    BY DEF CopyFollows, ScanRecord
  <1>3. plan[scan.id].rest[scan.number + 1] = scan.left \ ids
    BY <1>2, PlannedFacts DEF InWindow
  <1>4. built.pending \in PageRecord
    BY <1>1, BuiltPage
  <1>5. /\ built.id = scan.id /\ built.from = scan.from /\ built.through = scan.through
        /\ built.number = scan.number /\ built.left = scan.left \ ids /\ built.pending = page
    <2> HIDE DEF page, ids
    <2> QED BY DEF ScanRecord
  <1>6. PageFollows(plan, order, page)
    <2>1. \A o \in ids : page.records[o] = order[o]
      OBVIOUS
    <2>2. DOMAIN page.records = ids
      OBVIOUS
    <2>3. page.final => plan[scan.id].rest[page.number + 1] = {}
      BY <1>3
    <2>4. /\ page.scan = scan.id /\ page.from = scan.from /\ page.through = scan.through
          /\ page.number = scan.number
      OBVIOUS
    <2> HIDE DEF page
    <2> QED BY <1>2, <2>1, <2>2, <2>3, <2>4 DEF PageFollows, Past
  <1>7. page.scan = scan.id /\ page.number = scan.number
    OBVIOUS
  <1> HIDE DEF page, built, ids
  <1>8. built.pending # NoPage
    BY <1>4, Sentinels
  <1> QED BY <1>1, <1>2, <1>3, <1>5, <1>6, <1>7, <1>8 DEF CopyFollows

(* What a process sent, or sends, is a page that is foreseen.              *)
LEMMA SentFollows ==
  ASSUME ScanInv, NEW plan, Planned(plan), NEW p \in Process,
         process[p].pc \in {"sent", "answered"}
  PROVE  /\ process[p].scan \in ScanRecord /\ process[p].scan.pending \in PageRecord
         /\ PageFollows(plan, order, process[p].scan.pending)
  <1>1. process[p].scan \in ScanRecord /\ process[p].scan.pending \in PageRecord
    BY PluginFacts DEF HasItsScan
  <1>2. process[p].scan.pending # NoPage
    BY <1>1, Sentinels
  <1> QED BY <1>1, <1>2 DEF Planned, CopyFollows

LEMMA OrphanFollows ==
  ASSUME ScanInv, NEW plan, Planned(plan), NEW p \in Process, Orphaned(p)
  PROVE  \A page \in late' : PageFollows(plan, order, page)
  <1>1. CASE process[p].pc = "sent"
    <2>1. PageFollows(plan, order, process[p].scan.pending)
      BY <1>1, SentFollows
    <2>2. \A page \in late' : page \in late \/ page = process[p].scan.pending
      BY DEF Orphaned
    <2> QED BY <2>1, <2>2 DEF Planned
  <1>2. CASE process[p].pc # "sent"
    BY <1>2 DEF Orphaned, At, Planned
  <1> QED BY <1>1, <1>2

(* The plugin moves; orders, scans and server stay.                        *)
LEMMA PluginMoves ==
  ASSUME ScanInv, NEW plan, Planned(plan), UNCHANGED <<shopVars, serverVars>>,
         spent'.scans = spent.scans, spent'.edits = spent.edits,
         \A q \in Process : CopyFollows(plan, order, process'[q].scan),
         CopyFollows(plan, order, option'.scan), option'.cursor \in Nat \union {None},
         \A page \in late' : PageFollows(plan, order, page)
  PROVE  Planned(plan)'
  BY DEF Planned, shopVars, serverVars

LEMMA OneMoves ==
  ASSUME ScanInv, NEW plan, Planned(plan), NEW p \in Process, NEW state,
         Becomes(p, state), CopyFollows(plan, order, state.scan)
  PROVE  \A q \in Process : CopyFollows(plan, order, process'[q].scan)
  <1>1. \A q \in Process : process'[q] = IF q = p THEN state ELSE process[q]
    BY PluginFacts DEF Becomes
  <1> QED BY <1>1 DEF Planned

LEMMA RestFollows ==
  ASSUME ScanInv, NEW plan, Planned(plan), NEW p \in Process, Rest(p)
  PROVE  \A q \in Process : CopyFollows(plan, order, process'[q].scan)
  <1>1. Becomes(p, Idle) /\ Idle.scan = NoScan
    BY IdleTypes DEF Rest
  <1> QED BY <1>1, OneMoves, NoCopy

LEMMA FaultCounts ==
  ASSUME ScanInv, Fault
  PROVE  spent'.scans = spent.scans /\ spent'.edits = spent.edits
  BY PluginFacts DEF Fault

LEMMA GiveUpFollows ==
  ASSUME ScanInv, NEW plan, Planned(plan), NEW p \in Process, NEW scan \in ScanRecord,
         CopyFollows(plan, order, scan), GiveUp(p, scan)
  PROVE  /\ \A q \in Process : CopyFollows(plan, order, process'[q].scan)
         /\ CopyFollows(plan, order, option'.scan) /\ option'.cursor \in Nat \union {None}
  <1> DEFINE failed == [scan EXCEPT !.attempt = @ + 1]
  <1>1. /\ failed \in ScanRecord
        /\ failed.id = scan.id /\ failed.from = scan.from /\ failed.through = scan.through
        /\ failed.number = scan.number /\ failed.left = scan.left
        /\ failed.pending = scan.pending
    BY DEF ScanRecord
  <1>2. option' = [option EXCEPT !.scan = failed, !.lock = "free"] /\ Rest(p)
    BY DEF GiveUp
  <1> HIDE DEF failed
  <1>3. CopyFollows(plan, order, failed)
    BY <1>1, SameCopy
  <1>4. option'.scan = failed /\ option'.cursor = option.cursor
    BY <1>2, PluginFacts DEF OptionRecord
  <1> QED BY <1>2, <1>3, <1>4, RestFollows DEF Planned

LEMMA StartScanFollows ==
  ASSUME ScanInv, NEW plan, Planned(plan), NEW p \in Process,
         \/ \E repair \in BOOLEAN : Trigger(p, repair)
         \/ LockStart(p) \/ SnapshotFails(p)
  PROVE  Planned(plan)'
  <1>1. UNCHANGED <<shopVars, late, serverVars, spent>>
    BY DEF Trigger, LockStart, SnapshotFails
  <1>2. option'.scan = option.scan /\ option'.cursor = option.cursor
    BY PluginFacts DEF Trigger, LockStart, SnapshotFails, OptionRecord
  <1>3. \A q \in Process : CopyFollows(plan, order, process'[q].scan)
    <2>1. CASE process' = process
      BY <2>1 DEF Planned
    <2>2. CASE Rest(p)
      BY <2>2, RestFollows
    <2>3. ASSUME NEW repair \in BOOLEAN,
                 Becomes(p, [Idle EXCEPT !.pc = "start", !.repair = repair])
          PROVE  \A q \in Process : CopyFollows(plan, order, process'[q].scan)
      <3>1. [Idle EXCEPT !.pc = "start", !.repair = repair].scan = NoScan
        BY DEF Idle
      <3> QED BY <2>3, <3>1, OneMoves, NoCopy
    <2>4. CASE Becomes(p, [process[p] EXCEPT !.pc = "snapshot"])
      <3>1. [process[p] EXCEPT !.pc = "snapshot"].scan = process[p].scan
        BY PluginFacts DEF ProcessRecord
      <3> QED BY <2>4, <3>1, OneMoves DEF Planned
    <2> QED BY <2>1, <2>2, <2>3, <2>4, Zenon DEF Trigger, LockStart, SnapshotFails
  <1> QED BY <1>1, <1>2, <1>3, PluginMoves DEF Planned

LEMMA PageFollowsPlan ==
  ASSUME ScanInv, NEW plan, Planned(plan), NEW p \in Process,
         ReadScan(p) \/ LockBusy(p) \/ Send(p)
  PROVE  Planned(plan)'
  <1>1. UNCHANGED <<shopVars, late, serverVars, spent>>
    BY DEF ReadScan, LockBusy, Send
  <1>2. CASE ReadScan(p)
    <2>1. option' = option
      BY <1>2 DEF ReadScan
    <2>2. \A q \in Process : CopyFollows(plan, order, process'[q].scan)
      <3>1. CASE process' = process
        BY <3>1 DEF Planned
      <3>2. CASE Becomes(p, [Idle EXCEPT !.pc = "read", !.scan = option.scan])
        <4>1. [Idle EXCEPT !.pc = "read", !.scan = option.scan].scan = option.scan
          BY DEF Idle
        <4> QED BY <3>2, <4>1, OneMoves DEF Planned
      <3> QED BY <1>2, <3>1, <3>2 DEF ReadScan
    <2> QED BY <1>1, <2>1, <2>2, PluginMoves DEF Planned
  <1>3. CASE LockBusy(p)
    BY <1>1, <1>3, RestFollows, PluginMoves DEF LockBusy, Planned
  <1>4. CASE Send(p)
    <2> DEFINE mine == process[p].scan
               scan == IF mine.pending = NoPage THEN WithPage(mine) ELSE mine
               state == [Idle EXCEPT !.pc = "sent", !.scan = scan]
    <2>1. /\ process[p].pc = "read" /\ Becomes(p, state)
          /\ option' = [option EXCEPT !.lock = "held",
                                      !.scan = IF mine.pending = NoPage THEN scan ELSE @]
      BY <1>4 DEF Send, At
    <2>2. mine \in ScanRecord /\ CopyFollows(plan, order, mine)
      BY <2>1, PluginFacts DEF HasItsScan, Planned
    <2>3. CopyFollows(plan, order, scan)
      BY <2>2, BuiltFollows
    <2>4. state.scan = scan
      BY DEF Idle
    <2> HIDE DEF state, scan, mine
    <2>5. option'.cursor = option.cursor /\ option'.scan \in {scan, option.scan}
      BY <2>1, PluginFacts DEF OptionRecord
    <2>6. \A q \in Process : CopyFollows(plan, order, process'[q].scan)
      BY <2>1, <2>3, <2>4, OneMoves
    <2> QED BY <1>1, <2>3, <2>5, <2>6, PluginMoves DEF Planned
  <1> QED BY <1>2, <1>3, <1>4

LEMMA FailureFollows ==
  ASSUME ScanInv, NEW plan, Planned(plan), NEW p \in Process,
         \/ \E o \in Order : ExtractionFails(p, o) /\ Passed(process[p].scan, o) = {}
         \/ NoResponse(p) \/ Refused(p)
  PROVE  Planned(plan)'
  <1> DEFINE mine == process[p].scan
  <1>1. UNCHANGED <<shopVars, serverVars>>
    BY DEF ExtractionFails, NoResponse, Refused
  <1>2. spent'.scans = spent.scans /\ spent'.edits = spent.edits
    BY FaultCounts DEF ExtractionFails, NoResponse, Refused
  <1>3. mine \in ScanRecord /\ CopyFollows(plan, order, mine)
    BY PluginFacts DEF ExtractionFails, NoResponse, Refused, At, HasItsScan, Planned
  <1>4. \A page \in late' : PageFollows(plan, order, page)
    BY OrphanFollows DEF ExtractionFails, NoResponse, Refused, Planned
  <1>5. PICK scan \in ScanRecord : CopyFollows(plan, order, scan) /\ GiveUp(p, scan)
    <2> DEFINE again == [mine EXCEPT !.attempt = 0]
    <2>1. ASSUME NEW o \in Order, ExtractionFails(p, o), Passed(mine, o) = {}
          PROVE  GiveUp(p, mine)
      <3>1. [mine EXCEPT !.left = @ \ Passed(mine, o)] = mine
        <4>1. mine.left \ Passed(mine, o) = mine.left
          BY <2>1
        <4> HIDE DEF mine
        <4> QED BY <1>3, <4>1 DEF ScanRecord
      <3> QED BY <2>1, <3>1 DEF ExtractionFails
    <2>2. NoResponse(p) => GiveUp(p, mine)
      BY DEF NoResponse
    <2>3. Refused(p) => GiveUp(p, mine) \/ GiveUp(p, again)
      BY DEF Refused
    <2> HIDE DEF mine
    <2>4. /\ again \in ScanRecord
          /\ again.id = mine.id /\ again.from = mine.from /\ again.through = mine.through
          /\ again.number = mine.number /\ again.left = mine.left
          /\ again.pending = mine.pending
      BY <1>3 DEF ScanRecord
    <2> HIDE DEF again
    <2>5. CopyFollows(plan, order, again)
      BY <1>3, <2>4, SameCopy
    <2> QED BY <1>3, <2>1, <2>2, <2>3, <2>4, <2>5 DEF mine
  <1> QED BY <1>1, <1>2, <1>4, <1>5, GiveUpFollows, PluginMoves

LEMMA AnswerFollows ==
  ASSUME ScanInv, NEW plan, Planned(plan), NEW p \in Process, NextPage(p) \/ EndScan(p)
  PROVE  Planned(plan)'
  <1> DEFINE mine == process[p].scan
             next == [mine EXCEPT !.pending = NoPage, !.number = @ + 1, !.attempt = 0]
  <1>1. UNCHANGED <<shopVars, late, serverVars, spent>> /\ Rest(p)
        /\ process[p].pc = "answered"
    BY DEF NextPage, EndScan, At
  <1>2. mine \in ScanRecord /\ CopyFollows(plan, order, mine) /\ mine.pending # NoPage
    BY <1>1, SentFollows, Sentinels DEF Planned
  <1>3. \A q \in Process : CopyFollows(plan, order, process'[q].scan)
    BY <1>1, RestFollows
  <1>4. CASE NextPage(p)
    <2>1. option' = [option EXCEPT !.lock = "free", !.scan = next]
      BY <1>4 DEF NextPage
    <2> HIDE DEF mine
    <2>2. /\ mine.number \in Nat
          /\ next.id = mine.id /\ next.from = mine.from /\ next.through = mine.through
          /\ next.number = mine.number + 1 /\ next.left = mine.left /\ next.pending = NoPage
      BY <1>2 DEF ScanRecord
    <2> HIDE DEF next
    <2>3. CopyFollows(plan, order, next)
      BY <1>2, <2>2 DEF CopyFollows
    <2>4. option'.scan = next /\ option'.cursor = option.cursor
      BY <2>1, PluginFacts DEF OptionRecord
    <2> QED BY <1>1, <1>3, <2>3, <2>4, PluginMoves DEF Planned
  <1>5. CASE EndScan(p)
    <2>1. option' = [scan |-> NoScan, lock |-> "free", cursor |-> mine.through]
      BY <1>5 DEF EndScan
    <2>2. option'.scan = NoScan /\ option'.cursor \in Nat
      BY <1>2, <2>1 DEF ScanRecord
    <2> QED BY <1>1, <1>3, <2>2, NoCopy, PluginMoves DEF Planned
  <1> QED BY <1>4, <1>5

LEMMA FaultFollows ==
  ASSUME ScanInv, NEW plan, Planned(plan), NEW p \in Process, Crash(p) \/ Retry(p)
  PROVE  Planned(plan)'
  <1>1. UNCHANGED <<shopVars, serverVars>> /\ Fault
    BY DEF Crash, Retry
  <1>2. spent'.scans = spent.scans /\ spent'.edits = spent.edits
    BY <1>1, FaultCounts
  <1>3. CASE Crash(p)
    <2>1. Rest(p) /\ Orphaned(p) /\ option' = option
      BY <1>3 DEF Crash
    <2> QED BY <1>1, <1>2, <2>1, RestFollows, OrphanFollows, PluginMoves DEF Planned
  <1>4. CASE Retry(p)
    <2> DEFINE state == [Idle EXCEPT !.pc = "start", !.repair = TRUE]
    <2>1. Becomes(p, state) /\ late' = late
          /\ option' = [option EXCEPT !.scan = NoScan, !.lock = "free"]
      BY <1>4 DEF Retry
    <2>2. state.scan = NoScan
      BY DEF Idle
    <2> HIDE DEF state
    <2>3. option'.scan = NoScan /\ option'.cursor = option.cursor
      BY <2>1, PluginFacts DEF OptionRecord
    <2>4. \A q \in Process : CopyFollows(plan, order, process'[q].scan)
      BY <2>1, <2>2, NoCopy, OneMoves
    <2> QED BY <1>1, <1>2, <2>1, <2>3, <2>4, NoCopy, PluginMoves DEF Planned
  <1> QED BY <1>3, <1>4

-----------------------------------------------------------------------------
(* Requests, faults, time and the shop                                     *)

LEMMA DeliverFollows ==
  ASSUME ScanInv, NEW plan, Planned(plan),
         \/ \E p \in Process : Deliver(p)
         \/ \E page \in late : DeliverLate(page)
  PROVE  Planned(plan)'
  <1>1. /\ UNCHANGED <<shopVars, option, spent>>
        /\ late' \subseteq late
    BY DEF Deliver, DeliverLate, pluginVars
  <1>2. PICK page \in PageRecord : PageFollows(plan, order, page) /\ Handle(page)
    <2>1. ASSUME NEW p \in Process, Deliver(p)
          PROVE  \E page \in PageRecord : PageFollows(plan, order, page) /\ Handle(page)
      BY <2>1, SentFollows DEF Deliver, At
    <2>2. ASSUME NEW page \in late, DeliverLate(page)
          PROVE  page \in PageRecord /\ PageFollows(plan, order, page) /\ Handle(page)
      BY <2>2, PluginFacts DEF DeliverLate, Planned
    <2> QED BY <2>1, <2>2
  <1>3. /\ ServerFollows(plan, order, server')
        /\ ServerKnows(order, clock, server')
        /\ \A s \in 1..spent.scans : MayJoin(plan[s], server'.covered_from, clock)
    BY <1>2, HandleKnows
  <1>4. \A q \in Process : CopyFollows(plan, order, process'[q].scan)
    <2>1. ASSUME NEW p \in Process, Deliver(p)
          PROVE  \A q \in Process : CopyFollows(plan, order, process'[q].scan)
      <3> DEFINE state == [process[p] EXCEPT !.pc = "answered",
                                             !.answer = AnswerTo(process[p].scan.pending)]
      <3>1. Becomes(p, state)
        BY <2>1 DEF Deliver
      <3>2. state.scan = process[p].scan
        BY PluginFacts DEF ProcessRecord
      <3> HIDE DEF state
      <3> QED BY <3>1, <3>2, OneMoves DEF Planned
    <2>2. ASSUME NEW other \in late, DeliverLate(other)
          PROVE  \A q \in Process : CopyFollows(plan, order, process'[q].scan)
      BY <2>2 DEF DeliverLate, pluginVars, Planned
    <2> QED BY <2>1, <2>2
  <1> QED BY <1>1, <1>3, <1>4 DEF Planned, shopVars

LEMMA AgesFollows ==
  ASSUME ScanInv, NEW plan, Planned(plan), ScanAges \/ LockAges \/ UNCHANGED vars
  PROVE  Planned(plan)'
  <1>1. CASE ScanAges
    <2>1. UNCHANGED <<shopVars, pluginVars, late, spent>>
      BY <1>1 DEF ScanAges
    <2>2. server' = [server EXCEPT !.stale = TRUE] /\ server \in ServerRecord
      BY <1>1, PlannedFacts DEF ScanAges
    <2>3. /\ server'.scan = server.scan /\ server'.next = server.next
          /\ server'.failed = server.failed /\ server'.fact = server.fact
          /\ server'.covered_from = server.covered_from
          /\ server'.covered_through = server.covered_through
      BY <2>2 DEF ServerRecord
    <2>4. ServerFollows(plan, order, server')
      BY <2>3 DEF Planned, ServerFollows
    <2>5. ServerKnows(order, clock, server')
      BY <2>3 DEF Planned, ServerKnows, Covered
    <2> QED BY <2>1, <2>3, <2>4, <2>5 DEF Planned, shopVars, pluginVars
  <1>2. CASE LockAges
    <2>1. /\ UNCHANGED <<shopVars, process, late, serverVars, spent>>
          /\ option' = [option EXCEPT !.lock = "old"]
      BY <1>2 DEF LockAges
    <2>2. option'.scan = option.scan /\ option'.cursor = option.cursor
      BY <2>1, PluginFacts DEF OptionRecord
    <2> QED BY <2>1, <2>2, PluginMoves DEF Planned
  <1>3. CASE UNCHANGED vars
    BY <1>3, PluginMoves DEF vars, pluginVars, Planned
  <1> QED BY <1>1, <1>2, <1>3

LEMMA TickFollows ==
  ASSUME ScanInv, NEW plan, Planned(plan), Tick
  PROVE  Planned(plan)'
  <1>1. UNCHANGED <<order, pluginVars, late, server, spent>> /\ clock' = clock + 1
    BY DEF Tick, serverVars
  <1>2. clock \in Nat /\ Lag \in Nat /\ History \in Nat
    BY PlannedFacts, Numbers
  <1>3. \A s \in 1..spent.scans :
           InWindow(plan[s], order, clock') /\ MayJoin(plan[s], server.covered_from, clock')
    <2> SUFFICES ASSUME NEW s \in 1..spent.scans
                 PROVE  /\ InWindow(plan[s], order, clock')
                        /\ MayJoin(plan[s], server.covered_from, clock')
      OBVIOUS
    <2>1. /\ plan[s] \in ScanPlan /\ InWindow(plan[s], order, clock)
          /\ MayJoin(plan[s], server.covered_from, clock)
      BY PlannedFacts
    <2>2. plan[s].through \in Nat /\ server.covered_from \in Int
      BY <2>1, PlannedFacts DEF ScanPlan, ServerRecord
    <2>3. InWindow(plan[s], order, clock')
      BY <1>1, <1>2, <2>1, <2>2 DEF InWindow
    <2>4. MayJoin(plan[s], server.covered_from, clock')
      BY <1>1, <1>2, <2>1, <2>2 DEF MayJoin
    <2> QED BY <2>3, <2>4
  <1>4. ServerKnows(order, clock', server)
    <2>1. server.covered_through \in Int
      BY PlannedFacts DEF ServerRecord
    <2> QED BY <1>1, <1>2, <2>1 DEF Planned, ServerKnows, Covered
  <1>5. ShopIsOrdered(order, clock', spent.edits)
    BY <1>1, <1>2 DEF Planned, ShopIsOrdered
  <1> QED BY <1>1, <1>3, <1>4, <1>5 DEF Planned, pluginVars

(* An order changes after the windows of all scans: what pages show of it  *)
(* is its past (class-ledgerguard-plugin.php:238).                         *)
LEMMA PageOutlives ==
  ASSUME NEW plan, NEW shop \in [Order -> FactRecord], NEW o \in Order, NEW x \in FactRecord,
         shop[o].body < x.body, shop[o].at <= x.at,
         \A s \in DOMAIN plan : plan[s].through < x.at,
         NEW page \in PageRecord, PageFollows(plan, shop, page)
  PROVE  PageFollows(plan, [shop EXCEPT ![o] = x], page)
  <1> DEFINE now == [shop EXCEPT ![o] = x]
  <1>1. \A r \in Order : now[r] = IF r = o THEN x ELSE shop[r]
    OBVIOUS
  <1> HIDE DEF now
  <1>2. DOMAIN page.records \subseteq Order
    BY DEF PageRecord
  <1>3. ASSUME NEW r \in DOMAIN page.records
        PROVE  /\ Past(now, r, page.records[r])
               /\ now[r].at <= page.through => page.records[r] = now[r]
    <2>1. /\ Past(shop, r, page.records[r])
          /\ shop[r].at <= page.through => page.records[r] = shop[r]
      BY DEF PageFollows
    <2>2. CASE r # o
      <3>1. now[r] = shop[r]
        BY <1>1, <1>2, <2>2
      <3> QED BY <2>1, <3>1 DEF Past
    <2>3. CASE r = o
      <3>1. now[r] = x
        BY <1>1, <2>3
      <3>2. page.records[r] \in FactRecord /\ page.through \in Nat
        BY DEF PageRecord
      <3>3. page.through < x.at
        BY DEF PageFollows
      <3>4. shop[o] \in FactRecord
        OBVIOUS
      <3>5. /\ x.at \in Int /\ x.body \in Nat /\ shop[o].at \in Int /\ shop[o].body \in Nat
            /\ page.records[r].at \in Int /\ page.records[r].body \in Nat
        BY <3>2, <3>4 DEF FactRecord
      <3>6. page.records[r].body < x.body /\ page.records[r].at <= x.at
        BY <2>1, <2>3, <3>5 DEF Past
      <3>7. ~(x.at <= page.through)
        BY <3>2, <3>3, <3>5
      <3> QED BY <3>1, <3>6, <3>7 DEF Past
    <2> QED BY <2>2, <2>3
  <1>4. PageFollows(plan, now, page)
    BY <1>3 DEF PageFollows
  <1> QED BY <1>4 DEF now

LEMMA EditFollows ==
  ASSUME ScanInv, NEW plan, Planned(plan), NEW o \in Order, NEW valid \in BOOLEAN,
         Edit(o, valid)
  PROVE  Planned(plan)'
  <1> DEFINE x == [at |-> clock, body |-> spent.edits + 1, valid |-> valid]
             now == [order EXCEPT ![o] = x]
  <1>1. /\ UNCHANGED <<clock, pluginVars, late, server>>
        /\ order' = now /\ spent' = [spent EXCEPT !.edits = @ + 1]
    BY DEF Edit, serverVars
  <1>2. /\ clock \in Nat /\ spent \in [scans : Nat, edits : Nat, faults : Nat]
        /\ order \in [Order -> FactRecord] /\ server \in ServerRecord
        /\ plan \in [1..spent.scans -> ScanPlan] /\ Lag \in Nat \ {0}
    BY PlannedFacts, PluginFacts, ScanAssumption
  <1>3. x \in FactRecord /\ x.at = clock /\ x.body = spent.edits + 1
    BY <1>2 DEF FactRecord
  <1>4. \A r \in Order : now[r] = IF r = o THEN x ELSE order[r]
    BY <1>2
  <1>5. \A r \in Order : order[r].at \in 0..clock /\ order[r].body <= spent.edits
    BY DEF Planned, ShopIsOrdered
  <1>6. \A r \in Order : order[r].body \in Nat /\ order[r].at \in Int
    BY <1>2 DEF FactRecord
  <1>7. order[o].body < x.body /\ order[o].at <= x.at
    BY <1>2, <1>3, <1>5, <1>6
  <1>8. \A s \in DOMAIN plan : plan[s].through < x.at
    <2> SUFFICES ASSUME NEW s \in 1..spent.scans PROVE plan[s].through < x.at
      BY <1>2
    <2>1. plan[s] \in ScanPlan /\ plan[s].through + Lag <= clock
      BY PlannedFacts DEF InWindow
    <2>2. plan[s].through \in Nat
      BY <2>1 DEF ScanPlan
    <2> HIDE DEF x
    <2> QED BY <1>2, <1>3, <2>1, <2>2
  <1>9. \A page \in PageRecord : PageFollows(plan, order, page) => PageFollows(plan, now, page)
    <2> HIDE DEF x
    <2> QED BY <1>2, <1>3, <1>7, <1>8, PageOutlives
  <1> HIDE DEF x, now
  <1>10. \A scan : CopyFollows(plan, order, scan) => CopyFollows(plan, now, scan)
    <2> SUFFICES ASSUME NEW scan, scan \in ScanRecord, CopyFollows(plan, order, scan)
                 PROVE  CopyFollows(plan, now, scan)
      BY DEF CopyFollows
    <2>1. scan.pending \in PageRecord \union {NoPage}
      BY DEF ScanRecord
    <2> QED BY <1>9, <2>1 DEF CopyFollows
  <1>11. \A s \in 1..spent.scans : InWindow(plan[s], now, clock)
    <2> SUFFICES ASSUME NEW s \in 1..spent.scans PROVE InWindow(plan[s], now, clock)
      OBVIOUS
    <2>1. InWindow(plan[s], order, clock) /\ plan[s].through < x.at /\ plan[s] \in ScanPlan
      BY <1>2, <1>8, PlannedFacts
    <2>2. ~(x.at <= plan[s].through)
      BY <1>2, <1>3, <2>1 DEF ScanPlan
    <2> QED BY <1>4, <2>1, <2>2 DEF InWindow
  <1>12. ServerFollows(plan, now, server)
    <2> SUFFICES ASSUME server.scan # 0 PROVE ServerFollows(plan, now, server)
      BY DEF ServerFollows
    <2>1. /\ ServerFollows(plan, order, server)
          /\ server.scan \in DOMAIN plan
      BY DEF Planned, ServerFollows
    <2>2. plan[server.scan].through < x.at /\ plan[server.scan] \in ScanPlan
      BY <1>2, <1>8, <2>1
    <2>3. ~(x.at <= plan[server.scan].through) /\ plan[server.scan].rest[1] \subseteq Order
      BY <1>2, <1>3, <2>2 DEF ScanPlan
    <2>4. \A r \in Order : now[r].at <= plan[server.scan].through => now[r] = order[r]
      BY <1>4, <2>3
    <2> QED BY <2>1, <2>3, <2>4 DEF ServerFollows
  <1>13. ServerKnows(now, clock, server)
    <2>1. ServerKnows(order, clock, server)
      BY DEF Planned
    <2>2. \A r \in Order : server.fact[r] = NoFact \/ Past(now, r, server.fact[r])
      <3> SUFFICES ASSUME NEW r \in Order, server.fact[r] # NoFact
                   PROVE  Past(now, r, server.fact[r])
        OBVIOUS
      <3>1. server.fact[r] \in FactRecord /\ Past(order, r, server.fact[r])
        BY <1>2, <2>1 DEF ServerKnows, ServerRecord
      <3>2. CASE r # o
        <4>1. now[r] = order[r]
          BY <1>4, <3>2
        <4> QED BY <3>1, <4>1 DEF Past
      <3>3. CASE r = o
        <4>1. now[r] = x /\ order[r].body < x.body /\ order[r].at <= x.at
          BY <1>4, <1>7, <3>3
        <4>2. /\ server.fact[r].body \in Nat /\ server.fact[r].at \in Int
              /\ order[r].body \in Nat /\ order[r].at \in Int
              /\ x.body \in Nat /\ x.at \in Int
          BY <1>3, <1>6, <3>1 DEF FactRecord
        <4>3. server.fact[r].body < x.body /\ server.fact[r].at <= x.at
          BY <3>1, <4>1, <4>2 DEF Past
        <4> QED BY <4>1, <4>3 DEF Past
      <3> QED BY <3>2, <3>3
    <2>3. Covered(order, clock, server) => Covered(now, clock, server)
      <3> SUFFICES ASSUME Covered(order, clock, server) PROVE Covered(now, clock, server)
        OBVIOUS
      <3>1. server.covered_through \in Int
        BY <1>2 DEF ServerRecord
      <3>2. ~(x.at <= server.covered_through)
        BY <1>2, <1>3, <3>1 DEF Covered
      <3> QED BY <1>4, <3>2 DEF Covered
    <2> QED BY <2>1, <2>2, <2>3 DEF ServerKnows
  <1>14. spent'.scans = spent.scans /\ spent'.edits = spent.edits + 1
    BY <1>1, <1>2
  <1>15. ShopIsOrdered(now, clock, spent.edits + 1)
    <2> SUFFICES ASSUME NEW r \in Order
                 PROVE  now[r].at \in 0..clock /\ now[r].body <= spent.edits + 1
      BY DEF ShopIsOrdered
    <2>1. CASE r = o
      BY <1>2, <1>3, <1>4, <2>1
    <2>2. CASE r # o
      BY <1>2, <1>4, <1>5, <1>6, <2>2
    <2> QED BY <2>1, <2>2
  <1>16. /\ \A s \in 1..spent.scans : MayJoin(plan[s], server.covered_from, clock)
         /\ \A page \in late : PageFollows(plan, now, page)
    BY <1>9, PlannedFacts, PluginFacts DEF Planned
  <1> QED BY <1>1, <1>2, <1>10, <1>11, <1>12, <1>13, <1>14, <1>15, <1>16
          DEF Planned, pluginVars

-----------------------------------------------------------------------------
(* A new scan, and the theorems                                            *)

(* What is left of S after each page: that the pages of a scan are the     *)
(* chunks of its snapshot one after the other (plugin.php:286-300).        *)
LEMMA PagesOf ==
  ASSUME NEW S \in SUBSET Order
  PROVE  \E rest \in [Nat -> SUBSET Order] :
            /\ rest[1] = S
            /\ \A n \in Nat \ {0} : rest[n + 1] = rest[n] \ Chunk(rest[n])
  <1> DEFINE Good(g, n) == /\ g \in [0..n -> SUBSET Order]
                           /\ g[0] = S
                           /\ \A i \in 0..n : i # n => g[i + 1] = g[i] \ Chunk(g[i])
             NoneUpTo == {n \in Nat : ~\E g : Good(g, n)}
  <1>1. NoneUpTo = {}
    <2> SUFFICES ASSUME NoneUpTo # {} PROVE FALSE
      OBVIOUS
    <2>1. PICK n \in NoneUpTo : \A m \in NoneUpTo : n <= m
      BY LeastOf
    <2>2. n \in Nat /\ ~\E g : Good(g, n)
      OBVIOUS
    <2>3. CASE n = 0
      <3>1. Good([i \in 0..0 |-> S], 0)
        OBVIOUS
      <3> QED BY <2>2, <2>3, <3>1
    <2>4. CASE n # 0
      <3>1. n - 1 \in Nat /\ n - 1 \notin NoneUpTo
        <4> HIDE DEF NoneUpTo
        <4> QED BY <2>1, <2>2, <2>4
      <3>2. PICK g : Good(g, n - 1)
        BY <3>1
      <3> DEFINE last == g[n - 1] \ Chunk(g[n - 1])
                 h == [i \in 0..n |-> IF i = n THEN last ELSE g[i]]
      <3>3. last \in SUBSET Order
        BY <3>1, <3>2
      <3> HIDE DEF last
      <3>4. h \in [0..n -> SUBSET Order] /\ h[0] = S
        BY <2>4, <3>1, <3>2, <3>3
      <3>5. ASSUME NEW i \in 0..n, i # n PROVE h[i + 1] = h[i] \ Chunk(h[i])
        <4>1. i \in 0..(n - 1) /\ h[i] = g[i]
          BY <2>2, <3>5
        <4>2. CASE i = n - 1
          <5>1. i + 1 = n /\ i + 1 \in 0..n
            BY <2>2, <4>2
          <5>2. h[i + 1] = last
            BY <5>1
          <5> QED BY <4>1, <4>2, <5>2 DEF last
        <4>3. CASE i # n - 1
          <5>1. i + 1 \in 0..(n - 1) /\ i + 1 \in 0..n /\ i + 1 # n
            BY <2>2, <4>1, <4>3
          <5>2. h[i + 1] = g[i + 1]
            BY <5>1
          <5> QED BY <3>2, <4>1, <4>3, <5>2
        <4> QED BY <4>2, <4>3
      <3> HIDE DEF h
      <3>6. Good(h, n)
        BY <3>4, <3>5
      <3> QED BY <2>2, <3>6
    <2> QED BY <2>3, <2>4
  <1>2. ASSUME NEW n \in Nat, NEW g, Good(g, n), NEW h, Good(h, n + 1)
        PROVE  g[n] = h[n]
    <2> DEFINE Differ == {i \in 0..n : g[i] # h[i]}
    <2>1. Differ = {}
      <3> SUFFICES ASSUME Differ # {} PROVE FALSE
        OBVIOUS
      <3>1. Differ \in SUBSET Nat
        OBVIOUS
      <3>2. PICK i \in Differ : \A j \in Differ : i <= j
        BY <3>1, LeastOf
      <3>3. i \in 0..n /\ g[i] # h[i]
        OBVIOUS
      <3>4. i # 0
        BY <1>2, <3>3
      <3>5. i - 1 \in 0..n /\ i - 1 # n /\ (i - 1) + 1 = i /\ i - 1 \in 0..(n + 1) /\ i - 1 # n + 1
        BY <3>3, <3>4
      <3>6. i - 1 \notin Differ
        <4> HIDE DEF Differ
        <4> QED BY <3>2, <3>5
      <3>7. g[i - 1] = h[i - 1]
        BY <3>5, <3>6
      <3>8. g[i] = g[i - 1] \ Chunk(g[i - 1]) /\ h[i] = h[i - 1] \ Chunk(h[i - 1])
        <4> HIDE DEF Differ
        <4>1. \A j \in 0..n : j # n => g[j + 1] = g[j] \ Chunk(g[j])
          BY <1>2
        <4>2. \A j \in 0..(n + 1) : j # n + 1 => h[j + 1] = h[j] \ Chunk(h[j])
          BY <1>2
        <4> QED BY <3>5, <4>1, <4>2
      <3> QED BY <3>3, <3>7, <3>8
    <2> QED BY <2>1
  <1> DEFINE G(n) == CHOOSE g : Good(g, n)
  <1>3. ASSUME NEW n \in Nat PROVE Good(G(n), n)
    <2>1. \E g : Good(g, n)
      BY <1>1
    <2> HIDE DEF Good
    <2> QED BY <2>1, Zenon
  <1> HIDE DEF G
  <1> DEFINE rest == [n \in Nat |-> IF n = 0 THEN S ELSE G(n - 1)[n - 1]]
  <1>4. ASSUME NEW n \in Nat \ {0} PROVE rest[n] = G(n - 1)[n - 1] /\ n - 1 \in Nat
    OBVIOUS
  <1>5. rest[1] = S
    BY <1>3, <1>4
  <1>6. \A n \in Nat \ {0} : rest[n] \in SUBSET Order
    BY <1>3, <1>4
  <1>7. ASSUME NEW n \in Nat \ {0} PROVE rest[n + 1] = rest[n] \ Chunk(rest[n])
    <2>1. rest[n + 1] = G(n)[n]
      OBVIOUS
    <2>2. rest[n] = G(n - 1)[n - 1] /\ n - 1 \in Nat
      BY <1>4
    <2> HIDE DEF rest
    <2>3. Good(G(n - 1), n - 1) /\ Good(G(n), n)
      BY <1>3, <2>2
    <2>4. (n - 1) + 1 = n
      OBVIOUS
    <2>5. G(n - 1)[n - 1] = G(n)[n - 1]
      <3> HIDE DEF Good
      <3> QED BY <1>2, <2>2, <2>3, <2>4
    <2>6. n - 1 \in 0..n /\ n - 1 # n
      OBVIOUS
    <2>7. G(n)[n] = G(n)[n - 1] \ Chunk(G(n)[n - 1])
      BY <2>3, <2>4, <2>6
    <2> QED BY <2>1, <2>2, <2>5, <2>7
  <1>8. rest[0] = S
    OBVIOUS
  <1>9. rest \in [Nat -> SUBSET Order]
    BY <1>6, <1>8
  <1> QED BY <1>5, <1>7, <1>9

LEMMA LongerPlan ==
  ASSUME NEW plan, NEW longer, DOMAIN plan \subseteq DOMAIN longer,
         \A s \in DOMAIN plan : longer[s] = plan[s], NEW shop
  PROVE  /\ \A page : PageFollows(plan, shop, page) => PageFollows(longer, shop, page)
         /\ \A scan : CopyFollows(plan, shop, scan) => CopyFollows(longer, shop, scan)
         /\ \A s : ServerFollows(plan, shop, s) => ServerFollows(longer, shop, s)
  <1>1. \A page : PageFollows(plan, shop, page) => PageFollows(longer, shop, page)
    BY DEF PageFollows
  <1>2. \A scan : CopyFollows(plan, shop, scan) => CopyFollows(longer, shop, scan)
    BY <1>1 DEF CopyFollows
  <1>3. \A s : ServerFollows(plan, shop, s) => ServerFollows(longer, shop, s)
    BY DEF ServerFollows
  <1> QED BY <1>1, <1>2, <1>3

(* The window a scan takes: start_scan()                                   *)
(* (class-ledgerguard-plugin.php:238-240).                                 *)
LEMMA NewWindow ==
  ASSUME ScanInv, NEW plan, Planned(plan), NEW p \in Process
  PROVE  LET from == ScanFrom(p, ScanThrough) IN
         /\ from \in Int /\ ScanThrough \in Nat
         /\ None < from /\ from <= ScanThrough /\ ScanThrough + Lag <= clock
         /\ \/ server.covered_from # None /\ server.covered_from <= ScanThrough
            \/ from = ScanThrough - History /\ server.covered_from = None
  <1> DEFINE through == ScanThrough
             from == ScanFrom(p, through)
             cf == server.covered_from
             ct == server.covered_through
             cursor == option.cursor
  <1>1. clock \in Nat /\ Lag <= clock /\ cf \in Int /\ ct \in Int
    BY PlannedFacts DEF ScanInv, PluginTypes, ServerRecord
  <1>2. /\ Lag \in Nat /\ History \in Nat /\ Overlap \in Nat
        /\ None \in Int /\ None = -(History + Lag + Overlap) - 1
    BY Numbers, Sentinels DEF None
  <1>3. cursor \in Nat \union {None}
    BY DEF Planned
  <1>4. cursor # None => cursor <= ct
    BY DEF ScanInv, CursorIsCovered
  <1>5. through = clock - Lag
    BY DEF ScanThrough
  <1>6. \/ from = through - History
        \/ cursor # None /\ from = cursor - Overlap
    BY DEF ScanFrom
  <1>7. cf = None => from = through - History
    <2> SUFFICES ASSUME cf = None PROVE cursor = None
      BY DEF ScanFrom
    <2>1. ct = None
      BY <1>1, <1>2 DEF Planned, ServerKnows, Covered
    <2> HIDE DEF cf, ct, cursor
    <2> QED BY <1>2, <1>3, <1>4, <2>1
  <1>8. /\ cf = None => ct = None
        /\ cf # None => cf <= ct /\ ct + Lag <= clock
    BY <1>1, <1>2 DEF Planned, ServerKnows, Covered
  <1> HIDE DEF through, from, cf, ct, cursor
  <1>9. cf = None => cursor = None
    BY <1>1, <1>2, <1>3, <1>4, <1>8
  <1>10. from \in Int /\ through \in Nat /\ through + Lag <= clock
    BY <1>1, <1>2, <1>3, <1>5, <1>6
  <1>11. cf # None => cf <= through
    BY <1>1, <1>2, <1>5, <1>8
  <1>12. None < from /\ from <= through
    <2>1. CASE from = through - History
      BY <1>2, <1>10, <2>1
    <2>2. CASE cursor # None /\ from = cursor - Overlap
      <3>1. cursor \in Nat /\ cf # None
        BY <1>3, <1>9, <2>2
      <3> QED BY <1>1, <1>2, <1>4, <1>5, <1>8, <2>2, <3>1
    <2> QED BY <1>6, <2>1, <2>2
  <1> QED BY <1>7, <1>10, <1>11, <1>12 DEF through, from, cf

LEMMA SnapshotFollows ==
  ASSUME ScanInv, NEW plan, Planned(plan), NEW p \in Process, Snapshot(p)
  PROVE  \E longer : Planned(longer)'
  <1> DEFINE through == ScanThrough
             from == ScanFrom(p, through)
             id == spent.scans + 1
             first == {o \in Order : from <= order[o].at /\ order[o].at <= through}
             scan == [id |-> id, from |-> from, through |-> through, number |-> 1,
                      left |-> first, pending |-> NoPage, attempt |-> 0]
  <1>1. /\ UNCHANGED <<shopVars, serverVars>> /\ late' = late
        /\ spent' = [spent EXCEPT !.scans = @ + 1]
        /\ option' = [option EXCEPT !.scan = scan, !.lock = "free"]
        /\ Rest(p)
    BY DEF Snapshot
  <1>2. /\ from \in Int /\ through \in Nat
        /\ None < from /\ from <= through /\ through + Lag <= clock
        /\ \/ server.covered_from # None /\ server.covered_from <= through
           \/ from = through - History /\ server.covered_from = None
    BY NewWindow
  <1>3. first \in SUBSET Order
    OBVIOUS
  <1>4. PICK rest \in [Nat -> SUBSET Order] :
           /\ rest[1] = first
           /\ \A n \in Nat \ {0} : rest[n + 1] = rest[n] \ Chunk(rest[n])
    BY <1>3, PagesOf
  <1> DEFINE w == [from |-> from, through |-> through, rest |-> rest]
             extended == [s \in 1..id |-> IF s = id THEN w ELSE plan[s]]
  <1>5. /\ plan \in [1..spent.scans -> ScanPlan] /\ spent.scans \in Nat /\ id \in Nat
        /\ spent'.scans = id /\ spent'.edits = spent.edits
    BY <1>1, PlannedFacts, PluginFacts
  <1>6. w \in ScanPlan
    BY <1>2 DEF ScanPlan
  <1>7. w.from = from /\ w.through = through /\ w.rest = rest
    OBVIOUS
  <1>8. \A o \in Order : from <= order[o].at /\ order[o].at <= through => o \in rest[1]
    BY <1>4
  <1>9. /\ scan.id = id /\ scan.from = from /\ scan.through = through /\ scan.number = 1
        /\ scan.left = first /\ scan.pending = NoPage
    OBVIOUS
  <1> HIDE DEF through, from, first, scan, w
  <1>10. InWindow(w, order, clock)
    BY <1>2, <1>4, <1>7, <1>8 DEF InWindow
  <1>11. MayJoin(w, server.covered_from, clock)
    BY <1>2, <1>7 DEF MayJoin
  <1>12. /\ \A s \in 1..spent.scans : s \in 1..id /\ s # id
         /\ \A s \in 1..id : s = id \/ s \in 1..spent.scans
         /\ id \in 1..id
    BY <1>5
  <1> HIDE DEF id
  <1>13. /\ extended \in [1..id -> ScanPlan]
         /\ \A s \in DOMAIN plan : s \in DOMAIN extended /\ extended[s] = plan[s]
         /\ extended[id] = w
         /\ \A s \in 1..id : extended[s] = w \/ (s \in 1..spent.scans /\ extended[s] = plan[s])
    BY <1>5, <1>6, <1>12
  <1> HIDE DEF extended
  <1>14. PICK longer \in [1..id -> ScanPlan] :
           /\ \A s \in DOMAIN plan : s \in DOMAIN longer /\ longer[s] = plan[s]
           /\ longer[id] = w
           /\ \A s \in 1..id : longer[s] = w \/ (s \in 1..spent.scans /\ longer[s] = plan[s])
    BY <1>13
  <1>16. /\ \A page : PageFollows(plan, order, page) => PageFollows(longer, order, page)
         /\ \A c : CopyFollows(plan, order, c) => CopyFollows(longer, order, c)
         /\ \A s : ServerFollows(plan, order, s) => ServerFollows(longer, order, s)
    BY <1>14, LongerPlan
  <1>17. \A s \in 1..id :
            InWindow(longer[s], order, clock) /\ MayJoin(longer[s], server.covered_from, clock)
    BY <1>10, <1>11, <1>14, PlannedFacts
  <1>18. CopyFollows(longer, order, scan)
    BY <1>4, <1>7, <1>9, <1>12, <1>14 DEF CopyFollows
  <1>19. option'.scan = scan /\ option'.cursor = option.cursor
    BY <1>1, PluginFacts DEF OptionRecord
  <1>20. \A q \in Process : CopyFollows(longer, order, process'[q].scan)
    BY <1>1, <1>16, RestFollows
  <1>21. /\ \A page \in late : PageFollows(longer, order, page)
         /\ ServerFollows(longer, order, server)
         /\ ServerKnows(order, clock, server)
         /\ ShopIsOrdered(order, clock, spent.edits)
         /\ option.cursor \in Nat \union {None}
    BY <1>16 DEF Planned
  <1>22. /\ clock' = clock /\ order' = order /\ server' = server /\ late' = late
         /\ CopyFollows(longer, order, option'.scan)
    BY <1>1, <1>18, <1>19 DEF shopVars, serverVars
  <1>23. Planned(longer)'
    BY <1>5, <1>14, <1>17, <1>19, <1>20, <1>21, <1>22 DEF Planned
  <1> QED BY <1>23

LEMMA InitFollows == ASSUME Init PROVE \E plan : Planned(plan)
  <1> DEFINE plan == [s \in 1..0 |-> 0]
  <1>1. /\ clock = Lag /\ option.scan = NoScan /\ option.cursor = None /\ late = {}
        /\ server.scan = 0 /\ server.covered_from = None /\ server.covered_through = None
        /\ spent.scans = 0 /\ spent.edits = 0 /\ Lag \in Nat
    BY Numbers DEF Init
  <1>2. \A o \in Order : server.fact[o] = NoFact /\ order[o].at = 0 /\ order[o].body = 0
    BY DEF Init
  <1>3. \A q \in Process : process[q].scan = NoScan
    BY IdleTypes DEF Init
  <1>4. plan \in [1..spent.scans -> ScanPlan] /\ 1..spent.scans = {}
    BY <1>1
  <1>5. ServerKnows(order, clock, server)
    BY <1>1, <1>2 DEF ServerKnows
  <1>6. ServerFollows(plan, order, server)
    BY <1>1 DEF ServerFollows
  <1>7. ShopIsOrdered(order, clock, spent.edits)
    BY <1>1, <1>2 DEF ShopIsOrdered
  <1> HIDE DEF plan
  <1>8. Planned(plan)
    BY <1>1, <1>3, <1>4, <1>5, <1>6, <1>7, NoCopy DEF Planned
  <1> QED BY <1>8

(* Every scan, page and copy follows a plan, and what the server covers it *)
(* knows, unless a failed extraction passed orders.                        *)
THEOREM ScansFollowPlans ==
  Spec /\ [][SkipsNone]_vars => [](ScanInv /\ \E plan : Planned(plan))
  <1>1. Init => \E plan : Planned(plan)
    BY InitFollows
  <1>2. ScanInv /\ (\E plan : Planned(plan)) /\ [Next]_vars /\ [SkipsNone]_vars
           => (\E plan : Planned(plan))'
    <2> SUFFICES ASSUME ScanInv, NEW plan, Planned(plan), [Next]_vars, [SkipsNone]_vars
                 PROVE  \E other : Planned(other)'
      OBVIOUS
    <2>1. CASE UNCHANGED vars
      BY <2>1, AgesFollows
    <2>2. CASE Next /\ SkipsNone
      <3>1. ASSUME NEW p \in Process,
                   \/ \E repair \in BOOLEAN : Trigger(p, repair)
                   \/ LockStart(p) \/ Snapshot(p) \/ SnapshotFails(p)
            PROVE  \E other : Planned(other)'
        BY <3>1, StartScanFollows, SnapshotFollows
      <3>2. ASSUME NEW p \in Process, ReadScan(p) \/ LockBusy(p) \/ Send(p)
            PROVE  \E other : Planned(other)'
        BY <3>2, PageFollowsPlan
      <3>3. ASSUME \/ \E p \in Process : Deliver(p)
                   \/ \E page \in late : DeliverLate(page)
            PROVE  \E other : Planned(other)'
        BY <3>3, DeliverFollows
      <3>4. ASSUME NEW p \in Process,
                   \/ \E o \in Order : ExtractionFails(p, o)
                   \/ NoResponse(p) \/ Refused(p)
            PROVE  \E other : Planned(other)'
        <4>1. \/ \E o \in Order : ExtractionFails(p, o) /\ Passed(process[p].scan, o) = {}
              \/ NoResponse(p) \/ Refused(p)
          BY <2>2, <3>4 DEF SkipsNone
        <4> QED BY <4>1, FailureFollows
      <3>5. ASSUME NEW p \in Process, NextPage(p) \/ EndScan(p) \/ Crash(p) \/ Retry(p)
            PROVE  \E other : Planned(other)'
        BY <3>5, AnswerFollows, FaultFollows
      <3>6. ASSUME \/ \E o \in Order, valid \in BOOLEAN : Edit(o, valid)
                   \/ Tick \/ LockAges \/ ScanAges
            PROVE  \E other : Planned(other)'
        BY <3>6, EditFollows, TickFollows, AgesFollows
      <3> QED BY <2>2, <3>1, <3>2, <3>3, <3>4, <3>5, <3>6, Zenon DEF Next
    <2> QED BY <2>1, <2>2
  <1> QED BY <1>1, <1>2, ScanInvariant, PTL DEF Spec

LEMMA PlannedIsKnown == ASSUME ScanInv, NEW plan, Planned(plan) PROVE CoverageIsKnown
  <1>1. ServerKnows(order, clock, server) /\ ShopIsOrdered(order, clock, spent.edits)
        /\ order \in [Order -> FactRecord]
    BY PlannedFacts DEF Planned
  <1>2. None \in Int /\ None < 0
    BY Numbers DEF None
  <1>3. CASE server.covered_from = None /\ server.covered_through = None
    <2>1. \A o \in Order : ~(order[o].at <= server.covered_through)
      BY <1>1, <1>2, <1>3 DEF ShopIsOrdered
    <2> QED BY <2>1 DEF CoverageIsKnown
  <1>4. CASE Covered(order, clock, server)
    BY <1>4 DEF Covered, CoverageIsKnown
  <1> QED BY <1>1, <1>3, <1>4 DEF ServerKnows

(* The only way an order inside a complete coverage is not known as it is: *)
(* an extraction that failed after others of its page.  No process, lock,  *)
(* lost or late page, edit or repeated scan can do it.                     *)
THEOREM CoverageIsKnownUnlessSkipped ==
  Spec /\ [][SkipsNone]_vars => []CoverageIsKnown
  <1>1. ScanInv /\ (\E plan : Planned(plan)) => CoverageIsKnown
    BY PlannedIsKnown
  <1> QED BY <1>1, ScansFollowPlans, PTL

(* With one order a page there are no others.                              *)
THEOREM SinglePagesAreKnown ==
  ASSUME PageSize = 1
  PROVE  Spec => []CoverageIsKnown
  <1>1. ScanInv /\ [Next]_vars => [SkipsNone]_vars
    <2> SUFFICES ASSUME ScanInv, NEW p \in Process, NEW o \in Order, ExtractionFails(p, o),
                        NEW x \in Passed(process[p].scan, o)
                 PROVE  FALSE
      BY DEF SkipsNone
    <2> DEFINE left == process[p].scan.left
               before == {y \in left : y < o}
    <2>1. left \subseteq Order
      BY PluginFacts DEF ExtractionFails, At, HasItsScan, ScanRecord
    <2>2. x \in before /\ o \in Chunk(left)
      BY DEF ExtractionFails, Passed, Chunk
    <2>3. Cardinality(before) < 1
      BY <2>2 DEF Chunk
    <2>4. IsFiniteSet(before)
      BY <2>1, ScanAssumption, FS_Subset
    <2> HIDE DEF before
    <2> QED BY <2>2, <2>3, <2>4, FS_EmptySet, FS_CardinalityType
  <1> QED BY <1>1, ScanInvariant, CoverageIsKnownUnlessSkipped, PTL DEF Spec

-----------------------------------------------------------------------------
(* The bounds of all numbers                                               *)

(* Every number keeps its bound: a page that is not the last leaves orders *)
(* for the next, so that there are never more pages than orders and one.   *)
Fits(scan) ==
    /\ scan \in Scan(Nat) /\ scan.through \in Nat
    /\ scan.number + Cardinality(scan.left) <= Cardinality(Order) + 1
    /\ scan.pending # NoPage /\ ~scan.pending.final
          => scan.number + Cardinality(scan.left) <= Cardinality(Order)

ServerFits(s) ==
    /\ s.scan \in 0..MaxScans /\ s.next \in 1..Cardinality(Order) + 2
    /\ {s.from, s.through, s.covered_from, s.covered_through} \subseteq Time \union {None}
    /\ s.fact \in [Order -> Fact \union {NoFact}]

Bounded ==
    /\ clock <= MaxTime
    /\ order \in [Order -> Fact]
    /\ jobs <= MaxJobs
    /\ option.scan # NoScan => Fits(option.scan)
    /\ \A q \in Process : process[q].scan # NoScan => Fits(process[q].scan)
    /\ option.cursor \in 0..MaxTime \union {None}
    /\ late \subseteq Page
    /\ ServerFits(server)
    /\ accepted \subseteq [page : Page, answer : Answer]
    /\ spent.scans <= MaxScans /\ spent.edits <= MaxEdits /\ spent.faults <= MaxFaults

LEMMA SizeOf ==
  ASSUME NEW T \in SUBSET Order
  PROVE  /\ IsFiniteSet(T) /\ Cardinality(T) \in Nat /\ Cardinality(Order) \in Nat
         /\ Cardinality(T) <= Cardinality(Order)
  BY ScanAssumption, FS_Subset, FS_CardinalityType

LEMMA SizeOfRest ==
  ASSUME NEW T \in SUBSET Order, T # {}
  PROVE  Cardinality(T \ Chunk(T)) + 1 <= Cardinality(T)
  <1>1. T \in SUBSET Nat
    BY Numbers
  <1>2. PICK x \in T : \A y \in T : x <= y
    BY <1>1, LeastOf
  <1> DEFINE before == {y \in T : y < x}
  <1>3. before = {}
    <2> SUFFICES ASSUME NEW y \in T, y < x PROVE FALSE
      OBVIOUS
    <2>1. x <= y /\ x \in Nat /\ y \in Nat
      BY <1>1, <1>2
    <2> QED BY <2>1
  <1>4. Cardinality(before) = 0
    BY <1>3, FS_EmptySet
  <1>5. x \in Chunk(T)
    BY <1>4, ScanAssumption DEF Chunk
  <1> DEFINE R == T \ Chunk(T)
             S == T \ {x}
  <1>6. R \in SUBSET S /\ R \in SUBSET Order /\ S \in SUBSET Order
    BY <1>5
  <1>7. IsFiniteSet(T) /\ Cardinality(T) \in Nat
    BY SizeOf
  <1>8. Cardinality(S) = Cardinality(T) - 1
    BY <1>7, FS_RemoveElement
  <1> HIDE DEF R, S
  <1>9. IsFiniteSet(S) /\ Cardinality(R) \in Nat
    BY <1>6, SizeOf
  <1>10. Cardinality(R) <= Cardinality(S)
    BY <1>6, <1>9, FS_Subset
  <1> QED BY <1>7, <1>8, <1>9, <1>10 DEF R

LEMMA Spans ==
  /\ MaxTime \in Nat /\ MaxEdits \in Nat /\ MaxScans \in Nat /\ MaxJobs \in Nat
  /\ Lag \in Nat /\ Lag <= MaxTime /\ MaxFaults \in Nat
  /\ \A t \in 0..MaxTime : t \in Time
  /\ \A t \in Time : t \in Int /\ t <= MaxTime
  BY ScanAssumption DEF Time

LEMMA NumbersOfPages ==
  ASSUME NEW n \in Nat, NEW T \in SUBSET Order,
         n # 0, n + Cardinality(T) <= Cardinality(Order) + 1
  PROVE  n \in 1..Cardinality(Order) + 1
  <1>1. Cardinality(Order) \in Nat /\ Cardinality(T) \in Nat
    BY SizeOf, ScanAssumption, FS_CardinalityType
  <1> QED BY <1>1

LEMMA BuiltFits ==
  ASSUME ScanInv, Bounded, NEW scan, Fits(scan), scan.pending = NoPage
  PROVE  Fits(WithPage(scan)) /\ WithPage(scan).pending \in Page
  <1> DEFINE ids == Chunk(scan.left)
             records == [o \in ids |-> order[o]]
             page == [scan |-> scan.id, from |-> scan.from, through |-> scan.through,
                      number |-> scan.number, final |-> scan.left = ids,
                      records |-> records]
             built == [scan EXCEPT !.left = @ \ ids, !.pending = page]
  <1>1. scan \in Scan(Nat) /\ scan.left \subseteq Order /\ ids \subseteq scan.left
    BY DEF Fits, Scan, Chunk
  <1>2. records \in UNION {[x -> Fact] : x \in SUBSET Order}
    <2>1. \A o \in ids : order[o] \in Fact
      BY <1>1 DEF Bounded
    <2>2. records \in [ids -> Fact] /\ ids \in SUBSET Order
      BY <1>1, <2>1
    <2> QED BY <2>2, Zenon
  <1>3. page.final = (scan.left = ids)
    OBVIOUS
  <1>4. page \in Page
    <2>1. (scan.left = ids) \in BOOLEAN
      OBVIOUS
    <2> HIDE DEF records, ids
    <2> QED BY <1>1, <1>2, <2>1 DEF Page, Scan
  <1>5. WithPage(scan) = built
    BY Zenon DEF WithPage
  <1>6. ~page.final => scan.left # {}
    BY <1>1, <1>3
  <1>7. /\ Cardinality(scan.left \ ids) <= Cardinality(scan.left)
        /\ scan.left # {} => Cardinality(scan.left \ ids) + 1 <= Cardinality(scan.left)
        /\ Cardinality(scan.left \ ids) \in Nat /\ Cardinality(scan.left) \in Nat
        /\ Cardinality(Order) \in Nat
    <2> DEFINE T == scan.left
               R == T \ ids
    <2>1. T \in SUBSET Order /\ R \in SUBSET T /\ R \in SUBSET Order
      BY <1>1
    <2>2. T # {} => Cardinality(R) + 1 <= Cardinality(T)
      BY <2>1, SizeOfRest
    <2> HIDE DEF T, R, ids
    <2>3. /\ IsFiniteSet(T) /\ Cardinality(Order) \in Nat
          /\ Cardinality(R) \in Nat /\ Cardinality(T) \in Nat
      BY <2>1, SizeOf
    <2>4. Cardinality(R) <= Cardinality(T)
      BY <2>1, <2>3, FS_Subset
    <2> QED BY <2>2, <2>3, <2>4 DEF T, R
  <1> HIDE DEF page, ids, records
  <1>8. /\ built \in Scan(Nat) /\ built.pending = page /\ built.left = scan.left \ ids
        /\ built.number = scan.number /\ built.through = scan.through
    BY <1>1, <1>4 DEF Scan
  <1> HIDE DEF built
  <1>9. scan.number \in Nat /\ scan.number + Cardinality(scan.left) <= Cardinality(Order) + 1
    BY <1>1 DEF Fits, Scan
  <1> QED BY <1>4, <1>5, <1>6, <1>7, <1>8, <1>9 DEF Fits

(* Where the plugin stands without an answer of the server.                *)
LEMMA PluginBounded ==
  ASSUME ScanInv, Bounded, UNCHANGED <<shopVars, serverVars>>,
         \A q \in Process : process'[q].scan # NoScan => Fits(process'[q].scan),
         option'.scan # NoScan => Fits(option'.scan),
         option'.cursor \in 0..MaxTime \union {None},
         jobs' <= MaxJobs, late' \subseteq Page,
         spent'.scans <= MaxScans, spent'.edits <= MaxEdits, spent'.faults <= MaxFaults
  PROVE  Bounded'
  BY DEF Bounded, shopVars, serverVars

LEMMA OneFits ==
  ASSUME ScanInv, Bounded, NEW p \in Process, NEW state,
         Becomes(p, state), state.scan # NoScan => Fits(state.scan)
  PROVE  \A q \in Process : process'[q].scan # NoScan => Fits(process'[q].scan)
  <1>1. \A q \in Process : process'[q] = IF q = p THEN state ELSE process[q]
    BY PluginFacts DEF Becomes
  <1> QED BY <1>1 DEF Bounded

LEMMA RestFits ==
  ASSUME ScanInv, Bounded, NEW p \in Process, Rest(p)
  PROVE  \A q \in Process : process'[q].scan # NoScan => Fits(process'[q].scan)
  BY IdleTypes, OneFits DEF Rest

LEMMA QueuedFits ==
  ASSUME ScanInv, Bounded PROVE Queued <= MaxJobs /\ jobs <= MaxJobs
  BY Spans, PluginFacts DEF Queued, Bounded

LEMMA FaultFits ==
  ASSUME ScanInv, Bounded, Fault
  PROVE  /\ spent'.scans <= MaxScans /\ spent'.edits <= MaxEdits
         /\ spent'.faults <= MaxFaults
  BY Spans, PluginFacts DEF Fault, Bounded

LEMMA HeldFits ==
  ASSUME ScanInv, Bounded, NEW p \in Process, process[p].pc \in {"read", "sent", "answered"}
  PROVE  /\ process[p].scan \in ScanRecord /\ Fits(process[p].scan)
         /\ process[p].pc # "read" =>
               process[p].scan.pending # NoPage /\ process[p].scan.pending \in Page
  <1>1. /\ process[p].scan \in ScanRecord
        /\ process[p].pc # "read" => process[p].scan.pending \in PageRecord
    BY PluginFacts DEF HasItsScan
  <1>2. Fits(process[p].scan)
    BY <1>1, Sentinels DEF Bounded
  <1> QED BY <1>1, <1>2, Sentinels DEF Fits, Scan

LEMMA GiveUpFits ==
  ASSUME ScanInv, Bounded, NEW p \in Process, NEW scan, Fits(scan), GiveUp(p, scan)
  PROVE  /\ \A q \in Process : process'[q].scan # NoScan => Fits(process'[q].scan)
         /\ option'.scan # NoScan => Fits(option'.scan)
         /\ option'.cursor \in 0..MaxTime \union {None}
         /\ jobs' <= MaxJobs
  <1> DEFINE failed == [scan EXCEPT !.attempt = @ + 1]
  <1>1. /\ failed \in Scan(Nat) /\ failed.through = scan.through
        /\ failed.number = scan.number /\ failed.left = scan.left
        /\ failed.pending = scan.pending
    BY DEF Scan, Fits
  <1>2. /\ option' = [option EXCEPT !.scan = failed, !.lock = "free"] /\ Rest(p)
        /\ jobs' \in {Queued, jobs}
    BY DEF GiveUp
  <1> HIDE DEF failed
  <1>3. Fits(failed)
    BY <1>1 DEF Fits
  <1>4. option'.scan = failed /\ option'.cursor = option.cursor
    BY <1>2, PluginFacts DEF OptionRecord
  <1> QED BY <1>2, <1>3, <1>4, RestFits, QueuedFits DEF Bounded

LEMMA OrphanFits ==
  ASSUME ScanInv, Bounded, NEW p \in Process, Orphaned(p) PROVE late' \subseteq Page
  <1>1. process[p].pc = "sent" => process[p].scan.pending \in Page
    BY HeldFits
  <1> QED BY <1>1 DEF Orphaned, At, Bounded

LEMMA StartScanFits ==
  ASSUME ScanInv, Bounded, NEW p \in Process,
         \/ \E repair \in BOOLEAN : Trigger(p, repair)
         \/ LockStart(p) \/ SnapshotFails(p)
  PROVE  Bounded'
  <1>1. UNCHANGED <<shopVars, late, serverVars, spent>> /\ jobs' \in {Queued, jobs}
    BY DEF Trigger, LockStart, SnapshotFails
  <1>2. option'.scan = option.scan /\ option'.cursor = option.cursor
    BY PluginFacts DEF Trigger, LockStart, SnapshotFails, OptionRecord
  <1>3. \A q \in Process : process'[q].scan # NoScan => Fits(process'[q].scan)
    <2>1. CASE process' = process
      BY <2>1 DEF Bounded
    <2>2. CASE Rest(p)
      BY <2>2, RestFits
    <2>3. ASSUME NEW repair \in BOOLEAN,
                 Becomes(p, [Idle EXCEPT !.pc = "start", !.repair = repair])
          PROVE  \A q \in Process : process'[q].scan # NoScan => Fits(process'[q].scan)
      <3>1. [Idle EXCEPT !.pc = "start", !.repair = repair].scan = NoScan
        BY DEF Idle
      <3> QED BY <2>3, <3>1, OneFits
    <2>4. CASE Becomes(p, [process[p] EXCEPT !.pc = "snapshot"])
      <3>1. [process[p] EXCEPT !.pc = "snapshot"].scan = process[p].scan
        BY PluginFacts DEF ProcessRecord
      <3> QED BY <2>4, <3>1, OneFits DEF Bounded
    <2> QED BY <2>1, <2>2, <2>3, <2>4, Zenon DEF Trigger, LockStart, SnapshotFails
  <1>4. jobs' <= MaxJobs
    BY <1>1, QueuedFits
  <1> QED BY <1>1, <1>2, <1>3, <1>4, PluginBounded DEF Bounded

LEMMA PageFits ==
  ASSUME ScanInv, Bounded, NEW p \in Process, ReadScan(p) \/ LockBusy(p) \/ Send(p)
  PROVE  Bounded'
  <1>1. UNCHANGED <<shopVars, late, serverVars, spent>>
    BY DEF ReadScan, LockBusy, Send
  <1>2. CASE ReadScan(p)
    <2>1. option' = option /\ jobs' = jobs - 1
      BY <1>2 DEF ReadScan
    <2>2. \A q \in Process : process'[q].scan # NoScan => Fits(process'[q].scan)
      <3>1. CASE process' = process
        BY <3>1 DEF Bounded
      <3>2. CASE Becomes(p, [Idle EXCEPT !.pc = "read", !.scan = option.scan])
        <4>1. [Idle EXCEPT !.pc = "read", !.scan = option.scan].scan = option.scan
          BY DEF Idle
        <4> QED BY <3>2, <4>1, OneFits DEF Bounded
      <3> QED BY <1>2, <3>1, <3>2 DEF ReadScan
    <2>3. jobs' <= MaxJobs
      BY <2>1, PluginFacts, QueuedFits, Spans
    <2> QED BY <1>1, <2>1, <2>2, <2>3, PluginBounded DEF Bounded
  <1>3. CASE LockBusy(p)
    BY <1>1, <1>3, RestFits, PluginBounded DEF LockBusy, Bounded
  <1>4. CASE Send(p)
    <2> DEFINE mine == process[p].scan
               scan == IF mine.pending = NoPage THEN WithPage(mine) ELSE mine
               state == [Idle EXCEPT !.pc = "sent", !.scan = scan]
    <2>1. /\ process[p].pc = "read" /\ Becomes(p, state) /\ jobs' = jobs
          /\ option' = [option EXCEPT !.lock = "held",
                                      !.scan = IF mine.pending = NoPage THEN scan ELSE @]
      BY <1>4 DEF Send, At
    <2>2. Fits(mine)
      BY <2>1, HeldFits
    <2>3. Fits(scan)
      BY <2>2, BuiltFits
    <2>4. state.scan = scan
      BY DEF Idle
    <2> HIDE DEF state, scan, mine
    <2>5. option'.cursor = option.cursor /\ option'.scan \in {scan, option.scan}
      BY <2>1, PluginFacts DEF OptionRecord
    <2>6. \A q \in Process : process'[q].scan # NoScan => Fits(process'[q].scan)
      BY <2>1, <2>3, <2>4, OneFits
    <2> QED BY <1>1, <2>1, <2>3, <2>5, <2>6, PluginBounded DEF Bounded
  <1> QED BY <1>2, <1>3, <1>4

LEMMA FailureFits ==
  ASSUME ScanInv, Bounded, NEW p \in Process,
         \/ \E o \in Order : ExtractionFails(p, o)
         \/ NoResponse(p) \/ Refused(p)
  PROVE  Bounded'
  <1> DEFINE mine == process[p].scan
  <1>1. UNCHANGED <<shopVars, serverVars>>
    BY DEF ExtractionFails, NoResponse, Refused
  <1>2. /\ spent'.scans <= MaxScans /\ spent'.edits <= MaxEdits
        /\ spent'.faults <= MaxFaults
    BY FaultFits DEF ExtractionFails, NoResponse, Refused, Bounded
  <1>3. Fits(mine)
    BY HeldFits DEF ExtractionFails, NoResponse, Refused, At
  <1>4. late' \subseteq Page
    BY OrphanFits DEF ExtractionFails, NoResponse, Refused, Bounded
  <1>5. PICK scan : Fits(scan) /\ GiveUp(p, scan)
    <2> DEFINE again == [mine EXCEPT !.attempt = 0]
               short(o) == [mine EXCEPT !.left = @ \ Passed(mine, o)]
    <2>1. ASSUME NEW o \in Order, ExtractionFails(p, o)
          PROVE  Fits(short(o)) /\ GiveUp(p, short(o))
      <3> DEFINE left == mine.left \ Passed(mine, o)
      <3>1. GiveUp(p, short(o)) /\ mine.pending = NoPage
        BY <2>1 DEF ExtractionFails
      <3> HIDE DEF mine
      <3>2. /\ mine \in Scan(Nat) /\ mine.left \in SUBSET Order /\ left \in SUBSET mine.left
            /\ left \in SUBSET Order /\ mine.number \in Nat
            /\ mine.number + Cardinality(mine.left) <= Cardinality(Order) + 1
        BY <1>3 DEF Fits, Scan
      <3>3. Cardinality(left) <= Cardinality(mine.left)
        BY <3>2, SizeOf, FS_Subset
      <3>4. /\ Cardinality(left) \in Nat /\ Cardinality(mine.left) \in Nat
            /\ Cardinality(Order) \in Nat
        BY <3>2, SizeOf
      <3>5. mine.number + Cardinality(left) <= Cardinality(Order) + 1
        BY <3>2, <3>3, <3>4
      <3> HIDE DEF left
      <3>6. short(o) = [mine EXCEPT !.left = left]
        BY <3>2 DEF Scan, left
      <3> HIDE DEF short
      <3>7. /\ short(o) \in Scan(Nat) /\ short(o).through = mine.through
            /\ short(o).number = mine.number /\ short(o).left = left
            /\ short(o).pending = mine.pending
        BY <3>2, <3>6 DEF Scan
      <3>8. Fits(short(o))
        BY <1>3, <3>1, <3>5, <3>7 DEF Fits
      <3> QED BY <3>1, <3>8
    <2>2. NoResponse(p) => GiveUp(p, mine)
      BY DEF NoResponse
    <2>3. Refused(p) => GiveUp(p, mine) \/ GiveUp(p, again)
      BY DEF Refused
    <2> HIDE DEF mine
    <2>4. /\ again \in Scan(Nat) /\ again.through = mine.through
          /\ again.number = mine.number /\ again.left = mine.left
          /\ again.pending = mine.pending
      BY <1>3 DEF Scan, Fits
    <2> HIDE DEF again
    <2>5. Fits(again)
      BY <1>3, <2>4 DEF Fits
    <2> QED BY <1>3, <2>1, <2>2, <2>3, <2>5
  <1> QED BY <1>1, <1>2, <1>4, <1>5, GiveUpFits, PluginBounded

LEMMA AnswerFits ==
  ASSUME ScanInv, Bounded, NEW p \in Process, NextPage(p) \/ EndScan(p)
  PROVE  Bounded'
  <1> DEFINE mine == process[p].scan
             next == [mine EXCEPT !.pending = NoPage, !.number = @ + 1, !.attempt = 0]
  <1>1. UNCHANGED <<shopVars, late, serverVars, spent>> /\ Rest(p)
        /\ process[p].pc = "answered" /\ jobs' \in {Queued, jobs}
    BY DEF NextPage, EndScan, At
  <1>2. Fits(mine) /\ mine.pending # NoPage
    BY <1>1, HeldFits
  <1>3. \A q \in Process : process'[q].scan # NoScan => Fits(process'[q].scan)
    BY <1>1, RestFits
  <1>4. jobs' <= MaxJobs
    BY <1>1, QueuedFits
  <1>5. CASE NextPage(p)
    <2>1. option' = [option EXCEPT !.lock = "free", !.scan = next] /\ ~mine.pending.final
      BY <1>5 DEF NextPage
    <2> HIDE DEF mine
    <2>2. /\ mine \in Scan(Nat) /\ mine.left \in SUBSET Order /\ mine.number \in Nat \ {0}
          /\ mine.number + Cardinality(mine.left) <= Cardinality(Order)
      BY <1>2, <2>1 DEF Fits, Scan
    <2>3. Cardinality(mine.left) \in Nat /\ Cardinality(Order) \in Nat
      BY <2>2, SizeOf
    <2>4. /\ mine.number + 1 \in 1..Cardinality(Order) + 1
          /\ (mine.number + 1) + Cardinality(mine.left) <= Cardinality(Order) + 1
      BY <2>2, <2>3
    <2>5. /\ next.through = mine.through
          /\ next.number = mine.number + 1 /\ next.left = mine.left /\ next.pending = NoPage
          /\ next \in Scan(Nat)
      BY <2>2, <2>4 DEF Scan
    <2> HIDE DEF next
    <2>6. Fits(next)
      BY <1>2, <2>4, <2>5 DEF Fits
    <2>7. option'.scan = next /\ option'.cursor = option.cursor
      BY <2>1, PluginFacts DEF OptionRecord
    <2> QED BY <1>1, <1>3, <1>4, <2>6, <2>7, PluginBounded DEF Bounded
  <1>6. CASE EndScan(p)
    <2>1. option' = [scan |-> NoScan, lock |-> "free", cursor |-> mine.through]
      BY <1>6 DEF EndScan
    <2>2. mine.through \in 0..MaxTime
      BY <1>2, Spans DEF Fits, Scan
    <2>3. option'.scan = NoScan /\ option'.cursor \in 0..MaxTime
      BY <2>1, <2>2
    <2> QED BY <1>1, <1>3, <1>4, <2>3, PluginBounded DEF Bounded
  <1> QED BY <1>5, <1>6

LEMMA FaultStepFits ==
  ASSUME ScanInv, Bounded, NEW p \in Process, Crash(p) \/ Retry(p)
  PROVE  Bounded'
  <1>1. UNCHANGED <<shopVars, serverVars>> /\ Fault /\ jobs' = jobs
    BY DEF Crash, Retry
  <1>2. /\ spent'.scans <= MaxScans /\ spent'.edits <= MaxEdits
        /\ spent'.faults <= MaxFaults
    BY <1>1, FaultFits
  <1>3. CASE Crash(p)
    <2>1. Rest(p) /\ Orphaned(p) /\ option' = option
      BY <1>3 DEF Crash
    <2> QED BY <1>1, <1>2, <2>1, RestFits, OrphanFits, PluginBounded DEF Bounded
  <1>4. CASE Retry(p)
    <2> DEFINE state == [Idle EXCEPT !.pc = "start", !.repair = TRUE]
    <2>1. Becomes(p, state) /\ late' = late
          /\ option' = [option EXCEPT !.scan = NoScan, !.lock = "free"]
      BY <1>4 DEF Retry
    <2>2. state.scan = NoScan
      BY DEF Idle
    <2> HIDE DEF state
    <2>3. option'.scan = NoScan /\ option'.cursor = option.cursor
      BY <2>1, PluginFacts DEF OptionRecord
    <2>4. \A q \in Process : process'[q].scan # NoScan => Fits(process'[q].scan)
      BY <2>1, <2>2, OneFits
    <2> QED BY <1>1, <1>2, <2>1, <2>3, <2>4, PluginBounded DEF Bounded
  <1> QED BY <1>3, <1>4

LEMMA SnapshotFits ==
  ASSUME ScanInv, Bounded, NEW p \in Process, Snapshot(p)
  PROVE  Bounded'
  <1> DEFINE through == ScanThrough
             from == ScanFrom(p, through)
             id == spent.scans + 1
             first == {o \in Order : from <= order[o].at /\ order[o].at <= through}
             scan == [id |-> id, from |-> from, through |-> through, number |-> 1,
                      left |-> first, pending |-> NoPage, attempt |-> 0]
  <1>1. /\ UNCHANGED <<shopVars, serverVars>> /\ late' = late /\ jobs' = Queued
        /\ spent' = [spent EXCEPT !.scans = @ + 1] /\ spent.scans < MaxScans
        /\ option' = [option EXCEPT !.scan = scan, !.lock = "free"]
        /\ Rest(p)
    BY DEF Snapshot
  <1>2. clock \in Nat /\ Lag <= clock /\ clock <= MaxTime
    BY DEF ScanInv, PluginTypes, Bounded
  <1>3. through \in 0..MaxTime
    BY <1>2, Spans DEF ScanThrough
  <1>4. from \in Time
    <2>1. History \in Nat /\ Overlap \in Nat /\ Lag \in Nat /\ MaxTime \in Nat
      BY Numbers
    <2>2. \/ from = through - History
          \/ option.cursor \in 0..MaxTime /\ from = option.cursor - Overlap
      BY DEF ScanFrom, Bounded
    <2> HIDE DEF through, from
    <2> QED BY <1>3, <2>1, <2>2 DEF Time
  <1>5. first \in SUBSET Order
    OBVIOUS
  <1>6. id \in 1..MaxScans /\ spent'.scans = id /\ spent'.edits = spent.edits
        /\ spent'.faults = spent.faults
    BY <1>1, Spans, PluginFacts
  <1> HIDE DEF through, from, first, id
  <1>7. 1 + Cardinality(first) <= Cardinality(Order) + 1 /\ 1 \in 1..Cardinality(Order) + 1
    BY <1>5, SizeOf
  <1>8. /\ scan \in Scan(Nat) /\ scan.through = through /\ scan.number = 1
        /\ scan.left = first /\ scan.pending = NoPage
    BY <1>3, <1>4, <1>5, <1>6, <1>7, Spans DEF Scan
  <1> HIDE DEF scan
  <1>9. Fits(scan)
    BY <1>3, <1>7, <1>8 DEF Fits
  <1>10. option'.scan = scan /\ option'.cursor = option.cursor
    BY <1>1, PluginFacts DEF OptionRecord
  <1>11. /\ spent'.scans <= MaxScans /\ spent'.edits <= MaxEdits
         /\ spent'.faults <= MaxFaults
    BY <1>6, Spans DEF Bounded
  <1> QED BY <1>1, <1>9, <1>10, <1>11, RestFits, QueuedFits, PluginBounded DEF Bounded

LEMMA HandleFits ==
  ASSUME ScanInv, Bounded, NEW page \in Page, page \in PageRecord, Handle(page)
  PROVE  ServerFits(server') /\ accepted' \subseteq [page : Page, answer : Answer]
  <1>1. CASE ~Acceptable(page)
    BY <1>1 DEF Handle, serverVars, Bounded
  <1>2. CASE Acceptable(page)
    <2> DEFINE r == Received(page)
    <2>1. server' = r /\ accepted' = accepted \union {[page |-> page, answer |-> AnswerTo(page)]}
      BY <1>2 DEF Handle
    <2>2. AnswerTo(page) \in Answer /\ server \in ServerRecord /\ InSequence(page)
      BY <1>2, HandleCovers DEF ScanInv, ServerTypes, Acceptable
    <2>3. ServerFits(server) /\ accepted \subseteq [page : Page, answer : Answer]
      BY DEF Bounded
    <2>4. /\ page.scan \in 0..MaxScans /\ page.from \in Time /\ page.through \in Time
          /\ page.number + 1 \in 1..Cardinality(Order) + 2
      <3>1. Cardinality(Order) \in Nat
        BY ScanAssumption, FS_CardinalityType
      <3> QED BY <3>1, Spans DEF Page
    <2>5. /\ r.next = page.number + 1
          /\ r.scan \in {0, page.scan} /\ r.from = page.from
          /\ r.through \in {None, page.through}
          /\ r.covered_from = IF ~Advances(page) THEN server.covered_from
                              ELSE IF server.covered_from = None THEN page.from
                              ELSE Min({server.covered_from, page.from})
          /\ r.covered_through = IF Advances(page)
                                 THEN Max({server.covered_through, page.through})
                                 ELSE server.covered_through
      BY <2>2, ReceivedIs, Zenon
    <2>6. r.fact \in [Order -> Fact \union {NoFact}]
      <3>1. r.fact \in [Order -> FactRecord \union {NoFact}]
        BY <2>2, ReceivedCovers DEF ServerRecord
      <3>2. ASSUME NEW o \in Order PROVE r.fact[o] \in Fact \union {NoFact}
        <4>1. server.fact[o] \in Fact \union {NoFact}
          BY <2>3 DEF ServerFits
        <4>2. o \in DOMAIN page.records => page.records[o] \in Fact
          BY DEF Page
        <4>3. r.fact[o] = IF o \in DOMAIN page.records \ Rejected(page)
                          THEN Upserted(server.fact[o], page.records[o])
                          ELSE server.fact[o]
          BY <2>2, ReceivedIs, Zenon
        <4>4. \A a, b : Upserted(a, b) \in {a, b}
          BY DEF Upserted
        <4> HIDE DEF r
        <4>5. r.fact[o] = server.fact[o]
              \/ (o \in DOMAIN page.records /\ r.fact[o] \in {server.fact[o], page.records[o]})
          BY <4>3, <4>4
        <4> QED BY <4>1, <4>2, <4>5
      <3> HIDE DEF r
      <3> QED BY <3>1, <3>2
    <2> HIDE DEF r
    <2>7. r.covered_from \in {server.covered_from, page.from}
          /\ r.covered_through \in {server.covered_through, page.through}
      <3>1. /\ server.covered_from \in Int /\ server.covered_through \in Int
            /\ page.from \in Int /\ page.through \in Int
        BY <2>2 DEF ServerRecord, PageRecord
      <3>2. Min({server.covered_from, page.from}) \in {server.covered_from, page.from}
        BY <3>1, MinIs
      <3>3. Max({server.covered_through, page.through})
               \in {server.covered_through, page.through}
        BY <3>1, MaxIs
      <3> QED BY <2>5, <3>2, <3>3
    <2>8. r.scan \in 0..MaxScans
      BY <2>4, <2>5, Spans
    <2>9. ServerFits(r)
      BY <2>3, <2>4, <2>5, <2>6, <2>7, <2>8 DEF ServerFits
    <2> QED BY <2>1, <2>2, <2>3, <2>9
  <1> QED BY <1>1, <1>2

LEMMA DeliverFits ==
  ASSUME ScanInv, Bounded,
         \/ \E p \in Process : Deliver(p)
         \/ \E page \in late : DeliverLate(page)
  PROVE  Bounded'
  <1>1. UNCHANGED <<shopVars, option, jobs, spent>> /\ late' \subseteq late
    BY DEF Deliver, DeliverLate, pluginVars
  <1>2. PICK page \in Page : page \in PageRecord /\ Handle(page)
    <2>1. ASSUME NEW p \in Process, Deliver(p)
          PROVE  \E page \in Page : page \in PageRecord /\ Handle(page)
      BY <2>1, HeldFits, PluginFacts DEF Deliver, At, HasItsScan
    <2>2. ASSUME NEW other \in late, DeliverLate(other)
          PROVE  other \in Page /\ other \in PageRecord /\ Handle(other)
      BY <2>2, PluginFacts DEF DeliverLate, Bounded
    <2> QED BY <2>1, <2>2
  <1>3. ServerFits(server') /\ accepted' \subseteq [page : Page, answer : Answer]
    BY <1>2, HandleFits
  <1>4. \A q \in Process : process'[q].scan # NoScan => Fits(process'[q].scan)
    <2>1. ASSUME NEW p \in Process, Deliver(p)
          PROVE  \A q \in Process : process'[q].scan # NoScan => Fits(process'[q].scan)
      <3> DEFINE state == [process[p] EXCEPT !.pc = "answered",
                                             !.answer = AnswerTo(process[p].scan.pending)]
      <3>1. Becomes(p, state)
        BY <2>1 DEF Deliver
      <3>2. state.scan = process[p].scan
        BY PluginFacts DEF ProcessRecord
      <3> HIDE DEF state
      <3> QED BY <3>1, <3>2, OneFits DEF Bounded
    <2>2. ASSUME NEW other \in late, DeliverLate(other)
          PROVE  \A q \in Process : process'[q].scan # NoScan => Fits(process'[q].scan)
      BY <2>2 DEF DeliverLate, pluginVars, Bounded
    <2> QED BY <2>1, <2>2
  <1> QED BY <1>1, <1>3, <1>4 DEF Bounded, shopVars

LEMMA WorldFits ==
  ASSUME ScanInv, Bounded,
         \/ \E o \in Order, valid \in BOOLEAN : Edit(o, valid)
         \/ Tick \/ LockAges \/ ScanAges \/ UNCHANGED vars
  PROVE  Bounded'
  <1>1. ASSUME NEW o \in Order, NEW valid \in BOOLEAN, Edit(o, valid) PROVE Bounded'
    <2> DEFINE x == [at |-> clock, body |-> spent.edits + 1, valid |-> valid]
    <2>1. /\ UNCHANGED <<clock, pluginVars, late, serverVars>> /\ spent.edits < MaxEdits
          /\ order' = [order EXCEPT ![o] = x] /\ spent' = [spent EXCEPT !.edits = @ + 1]
      BY <1>1 DEF Edit
    <2>2. /\ spent'.scans = spent.scans /\ spent'.edits = spent.edits + 1
          /\ spent'.faults = spent.faults /\ spent.edits \in Nat
      BY <2>1, PluginFacts
    <2>3. x \in Fact
      <3>1. clock \in 0..MaxTime
        BY Spans DEF ScanInv, PluginTypes, Bounded
      <3> QED BY <2>1, <2>2, <3>1, Spans DEF Fact, Body
    <2> HIDE DEF x
    <2>4. order' \in [Order -> Fact]
      BY <2>1, <2>3 DEF Bounded
    <2>5. spent'.edits <= MaxEdits
      BY <2>1, <2>2, Spans
    <2> QED BY <2>1, <2>2, <2>4, <2>5 DEF Bounded, pluginVars, serverVars
  <1>2. CASE Tick
    <2>1. /\ UNCHANGED <<order, pluginVars, late, serverVars, spent>>
          /\ clock < MaxTime /\ clock' = clock + 1
      BY <1>2 DEF Tick
    <2>2. clock' <= MaxTime
      BY <2>1, Spans DEF ScanInv, PluginTypes
    <2> QED BY <2>1, <2>2 DEF Bounded, pluginVars, serverVars
  <1>3. CASE LockAges
    <2>1. /\ UNCHANGED <<shopVars, jobs, process, late, serverVars, spent>>
          /\ option' = [option EXCEPT !.lock = "old"]
      BY <1>3 DEF LockAges
    <2>2. option'.scan = option.scan /\ option'.cursor = option.cursor
      BY <2>1, PluginFacts DEF OptionRecord
    <2> QED BY <2>1, <2>2, PluginBounded DEF Bounded
  <1>4. CASE ScanAges
    <2>1. UNCHANGED <<shopVars, pluginVars, late, accepted, spent>>
      BY <1>4 DEF ScanAges
    <2>2. server' = [server EXCEPT !.stale = TRUE] /\ server \in ServerRecord
      BY <1>4, PluginFacts DEF ScanAges, ScanInv, ServerTypes
    <2>3. /\ server'.scan = server.scan /\ server'.next = server.next
          /\ server'.from = server.from /\ server'.through = server.through
          /\ server'.fact = server.fact
          /\ server'.covered_from = server.covered_from
          /\ server'.covered_through = server.covered_through
      BY <2>2 DEF ServerRecord
    <2>4. ServerFits(server')
      BY <2>3 DEF Bounded, ServerFits
    <2> QED BY <2>1, <2>4 DEF Bounded, shopVars, pluginVars
  <1>5. CASE UNCHANGED vars
    BY <1>5 DEF vars, shopVars, pluginVars, serverVars, Bounded
  <1> QED BY <1>1, <1>2, <1>3, <1>4, <1>5

LEMMA InitFits == ASSUME Init PROVE Bounded
  <1>1. /\ clock = Lag /\ jobs = 0 /\ late = {} /\ accepted = {}
        /\ option.scan = NoScan /\ option.cursor = None
        /\ spent.scans = 0 /\ spent.edits = 0 /\ spent.faults = 0
    BY DEF Init
  <1>2. \A q \in Process : process[q].scan = NoScan
    BY IdleTypes DEF Init
  <1>3. order \in [Order -> Fact]
    <2>1. [at |-> 0, body |-> 0, valid |-> TRUE] \in Fact
      BY Spans DEF Fact, Body
    <2> QED BY <2>1, Zenon DEF Init
  <1>4. ServerFits(server)
    <2>1. [o \in Order |-> NoFact] \in [Order -> Fact \union {NoFact}]
      OBVIOUS
    <2>2. 1 \in 1..Cardinality(Order) + 2 /\ 0 \in 0..MaxScans
      BY Spans, ScanAssumption, FS_CardinalityType
    <2> QED BY <2>1, <2>2 DEF Init, ServerFits
  <1> QED BY <1>1, <1>2, <1>3, <1>4, Spans DEF Bounded

LEMMA BoundedIsTyped == ASSUME ScanInv, Bounded PROVE TypesWith(Nat)
  <1>1. clock \in Lag..MaxTime /\ order \in [Order -> Fact] /\ jobs \in 0..MaxJobs
    BY Spans DEF ScanInv, PluginTypes, Bounded
  <1>2. \A c : (c # NoScan => Fits(c)) => c \in Scan(Nat) \union {NoScan}
    BY DEF Fits
  <1>3. option \in [scan : Scan(Nat) \union {NoScan}, lock : {"free", "held", "old"},
                    cursor : Time \union {None}]
    <2>1. option.cursor \in Time \union {None}
      BY Spans DEF Bounded
    <2>2. option.scan \in Scan(Nat) \union {NoScan}
      BY <1>2 DEF Bounded
    <2> QED BY <2>1, <2>2, PluginFacts DEF OptionRecord
  <1>4. process \in [Process ->
           [pc : {"idle", "start", "snapshot", "read", "sent", "answered"},
            scan : Scan(Nat) \union {NoScan}, repair : BOOLEAN,
            answer : Answer \union {NoAnswer}]]
    <2>1. ASSUME NEW q \in Process
          PROVE  process[q] \in
                    [pc : {"idle", "start", "snapshot", "read", "sent", "answered"},
                     scan : Scan(Nat) \union {NoScan}, repair : BOOLEAN,
                     answer : Answer \union {NoAnswer}]
      <3>1. process[q].scan \in Scan(Nat) \union {NoScan} /\ process[q] \in ProcessRecord
        BY <1>2, PluginFacts DEF Bounded
      <3> QED BY <3>1 DEF ProcessRecord
    <2> QED BY <2>1, PluginFacts
  <1>5. server \in
          [scan : 0..MaxScans, from : Time \union {None}, through : Time \union {None},
           next : 1..Cardinality(Order) + 2, failed : BOOLEAN, stale : BOOLEAN,
           complete : BOOLEAN, covered_from : Time \union {None},
           covered_through : Time \union {None}, fact : [Order -> Fact \union {NoFact}]]
    <2>1. server \in ServerRecord /\ ServerFits(server)
      BY DEF ScanInv, ServerTypes, Bounded
    <2> QED BY <2>1 DEF ServerRecord, ServerFits
  <1>6. spent \in [scans : 0..MaxScans, edits : 0..MaxEdits, faults : 0..MaxFaults]
    BY PluginFacts, Spans DEF Bounded
  <1>7. late \subseteq Page /\ accepted \subseteq [page : Page, answer : Answer]
    BY DEF Bounded
  <1> QED BY <1>1, <1>3, <1>4, <1>5, <1>6, <1>7 DEF TypesWith

(* The type invariant but for the number of attempts, which has no bound   *)
(* that holds for every number of processes; with it that a scan has no    *)
(* more pages than orders and one (class-ledgerguard-plugin.php:286-300).  *)
THEOREM ScanTypes == Spec => []TypesWith(Nat)
  <1>1. Init => Bounded
    BY InitFits
  <1>2. ScanInv /\ Bounded /\ [Next]_vars => Bounded'
    <2> SUFFICES ASSUME ScanInv, Bounded, [Next]_vars PROVE Bounded'
      OBVIOUS
    <2>1. ASSUME NEW p \in Process,
                 \/ \E repair \in BOOLEAN : Trigger(p, repair)
                 \/ LockStart(p) \/ Snapshot(p) \/ SnapshotFails(p)
          PROVE  Bounded'
      BY <2>1, StartScanFits, SnapshotFits
    <2>2. ASSUME NEW p \in Process, ReadScan(p) \/ LockBusy(p) \/ Send(p)
          PROVE  Bounded'
      BY <2>2, PageFits
    <2>3. ASSUME \/ \E p \in Process : Deliver(p)
                 \/ \E page \in late : DeliverLate(page)
          PROVE  Bounded'
      BY <2>3, DeliverFits
    <2>4. ASSUME NEW p \in Process,
                 \/ \E o \in Order : ExtractionFails(p, o)
                 \/ NoResponse(p) \/ Refused(p)
          PROVE  Bounded'
      BY <2>4, FailureFits
    <2>5. ASSUME NEW p \in Process, NextPage(p) \/ EndScan(p) \/ Crash(p) \/ Retry(p)
          PROVE  Bounded'
      BY <2>5, AnswerFits, FaultStepFits
    <2>6. ASSUME \/ \E o \in Order, valid \in BOOLEAN : Edit(o, valid)
                 \/ Tick \/ LockAges \/ ScanAges \/ UNCHANGED vars
          PROVE  Bounded'
      BY <2>6, WorldFits
    <2> QED BY <2>1, <2>2, <2>3, <2>4, <2>5, <2>6, Zenon DEF Next
  <1>3. ScanInv /\ Bounded => TypesWith(Nat)
    BY BoundedIsTyped
  <1> QED BY <1>1, <1>2, <1>3, ScanInvariant, PTL DEF Spec
=============================================================================
