------------------------- MODULE NotificationsProofs -------------------------
(***************************************************************************)
(* What holds of Notifications for every set of events and routes and      *)
(* every bound.  A digest row is done only when its hour is over, so an    *)
(* event that is put off never joins a digest that was sent                *)
(* (DigestsOutlastTheirHour).  Feedback that has left its queue is about a *)
(* copy that the delivery names already or never will (HeardIsSettled).    *)
(***************************************************************************)
EXTENDS Notifications, Sums, TLAPS

USE MailAssumption

DigestsOutlastTheirHour ==
  \A h \in Hour :
    /\ digestRow[h] = RowDone => mailClock >= 2 * h + 2
    /\ digestRow[h] \notin {NoRow, RowDone} => digestRow[h] >= 2 * h + 2

(* A delivery that names no copy was not committed; one between SES's      *)
(* answer and its commit is still pending.                                 *)
RowsNameCopies ==
  \A d \in Delivery :
    /\ delivery[d].status \in {"none", "pending", "cancelled"} => delivery[d].copy = 0
    /\ d \in sending => delivery[d].status = "pending"

ReportsAreOfCopies == \A m \in reported : m[2] \in 1 .. accepted[m[1]]

(* What a commit under way will name is newer than whatever was heard.     *)
HeardIsSettled ==
  \A m \in reported \ feedbackQueue : m[1] \in sending => m[2] < accepted[m[1]]

(* What a row names was accepted; so was what its commit is to name.       *)
CopiesWereAccepted ==
  \A d \in Delivery : delivery[d].copy <= accepted[d] /\ (d \in sending => accepted[d] > 0)

(* Copies that SES accepted and no row will ever name: each cost a crash.  *)
Lost(d) == accepted[d] - (IF d \in sending \/ delivery[d].copy # 0 THEN 1 ELSE 0)
LostInCrashes == SumOver(Delivery, [d \in Delivery |-> Lost(d)]) <= mailCrashes

(* Every acceptance but one of a message was followed by a crash.          *)
OneRepeatPerCrash == \A d \in Delivery : accepted[d] <= mailCrashes + 1

CopiesInv ==
  /\ RowsNameCopies
  /\ ReportsAreOfCopies
  /\ HeardIsSettled
  /\ ComplaintIsHeard
  /\ CopiesWereAccepted
  /\ LostInCrashes

DigestsInv == DigestsOutlastTheirHour /\ OverflowIsCovered

MailInv == MailTypeOK /\ DigestsInv /\ CopiesInv

----------------------------------------------------------------------------
(* Lemmas *)

(* The hour of the clock ends at the next even half hour                   *)
(* (notifications.py:58-62).                                               *)
LEMMA Hours ==
  ASSUME mailClock \in MailTime
  PROVE  /\ CurrentHour \in Hour
         /\ 2 * CurrentHour <= mailClock /\ mailClock < 2 * CurrentHour + 2
         /\ \A h \in Hour : h \in Nat
  BY DEF MailTime, CurrentHour, Hour

LEMMA Kinds ==
  /\ \A kind \in SesReport : StatusOf(kind) \in {"bounced", "complained", "delivered"}
  /\ StatusOf("Bounce") = "bounced" /\ StatusOf("Complaint") = "complained"
  /\ "pending" \notin FinalStatus /\ "none" \notin FinalStatus
  /\ {"bounced", "complained", "delivered", "cancelled", "accepted"} \subseteq FinalStatus
  BY DEF SesReport, StatusOf, FinalStatus

LEMMA Rows ==
  ASSUME MailTypeOK
  PROVE  /\ \A d \in Delivery : /\ accepted[d] \in Nat /\ delivery[d].copy \in Nat
                                /\ delivery[d].status \in FinalStatus \union {"none", "pending"}
                                /\ Undelivered(d) <=> delivery[d].status = "pending"
         /\ \A m \in reported : m[1] \in Delivery /\ m[2] \in Nat /\ m[3] \in SesReport
         /\ mailCrashes \in Nat /\ feedbackQueue \subseteq reported
  <1>1. \A c \in MailCopy : c \in Nat
    BY DEF MailCopy
  <1>2. \A d \in Delivery : /\ accepted[d] \in Nat /\ delivery[d].copy \in Nat
                            /\ delivery[d].status \in FinalStatus \union {"none", "pending"}
    BY <1>1 DEF MailTypeOK
  <1>3. \A m \in reported : m[1] \in Delivery /\ m[2] \in Nat /\ m[3] \in SesReport
    BY <1>1 DEF MailTypeOK
  <1>4. \A d \in Delivery : Undelivered(d) <=> delivery[d].status = "pending"
    BY <1>2, Kinds DEF Undelivered
  <1> QED BY <1>2, <1>3, <1>4 DEF MailTypeOK

LEMMA DigestsKept ==
  ASSUME MailTypeOK, DigestsInv, mailClock' \in Nat, mailClock' >= mailClock,
         digestRow' = digestRow,
         \A e \in Event : event'[e] = "deferred" => event[e] = "deferred"
  PROVE  DigestsInv'
  <1>1. DigestsOutlastTheirHour'
    <2>1. mailClock \in Nat /\ \A h \in Hour : h \in Nat
      BY Hours DEF MailTypeOK, MailTime
    <2> QED BY <2>1 DEF DigestsInv, DigestsOutlastTheirHour
  <1>2. OverflowIsCovered'
    BY DEF DigestsInv, OverflowIsCovered
  <1> QED BY <1>1, <1>2 DEF DigestsInv

(* Rows of tables are finitely many. *)
LEMMA DeliveriesAreFinite == IsFiniteSet(Delivery)
  <1>1. IsFiniteSet(Hour)
    BY FS_Interval DEF Hour
  <1>2. IsFiniteSet(Source)
    BY <1>1, FS_Union DEF Source
  <1> QED BY <1>2, FS_Product DEF Delivery

LEMMA LostTypes ==
  ASSUME MailTypeOK, CopiesWereAccepted
  PROVE  /\ \A d \in Delivery : Lost(d) \in Nat
         /\ [d \in Delivery |-> Lost(d)] \in [Delivery -> Nat]
  <1>1. \A d \in Delivery : Lost(d) \in Nat
    BY Rows DEF CopiesWereAccepted, Lost
  <1> QED BY <1>1

(* Nothing else is lost, and no copy is forgotten (notifications.py:88-95).*)
LEMMA LostKept ==
  ASSUME LostInCrashes, mailCrashes' = mailCrashes, \A d \in Delivery : Lost(d)' = Lost(d)
  PROVE  LostInCrashes'
  <1>1. [d \in Delivery |-> Lost(d)]' = [d \in Delivery |-> Lost(d)]
    OBVIOUS
  <1> QED BY <1>1 DEF LostInCrashes

LEMMA CopiesKept ==
  ASSUME CopiesInv, UNCHANGED <<sesVars, feedbackVars, delivery>>
  PROVE  CopiesInv'
  <1> USE DEF sesVars, feedbackVars, CopiesInv
  <1>1. LostInCrashes'
    BY LostKept DEF Lost
  <1>2. RowsNameCopies' /\ ReportsAreOfCopies' /\ HeardIsSettled' /\ ComplaintIsHeard'
        /\ CopiesWereAccepted'
    BY DEF RowsNameCopies, ReportsAreOfCopies, HeardIsSettled, ComplaintIsHeard,
       CopiesWereAccepted
  <1> QED BY <1>1, <1>2

LEMMA InitMail == ASSUME MailInit PROVE MailInv
  <1>1. MailTypeOK
    <2>1. NoDelivery \in [status : FinalStatus \union {"none", "pending"}, copy : MailCopy]
      BY DEF NoDelivery, MailCopy
    <2> QED BY <2>1 DEF MailInit, MailTypeOK, MailTime, MailCopy
  <1>2. DigestsInv
    BY DEF MailInit, DigestsInv, DigestsOutlastTheirHour, OverflowIsCovered, NoRow, RowDone
  <1>3. CopiesInv
    <2>1. CopiesWereAccepted /\ \A d \in Delivery : Lost(d) = 0
      BY DEF MailInit, NoDelivery, CopiesWereAccepted, Lost
    <2>2. LostInCrashes
      <3>1. SumOver(Delivery, [d \in Delivery |-> Lost(d)]) = 0
        BY <1>1, <2>1, LostTypes, SumBounds, DeliveriesAreFinite
      <3> QED BY <3>1 DEF LostInCrashes, MailInit
    <2> QED
      BY <2>1, <2>2 DEF MailInit, NoDelivery, CopiesInv, RowsNameCopies, ReportsAreOfCopies,
         HeardIsSettled, ComplaintIsHeard
  <1> QED BY <1>1, <1>2, <1>3 DEF MailInv

(* Findings, policies, routes and the clock move without a message or a    *)
(* digest (service.py:156-172, 283-315, api.py:689-756).                   *)
LEMMA WorldInv ==
  ASSUME MailInv,
         \/ MailTick \/ organization_policy
         \/ \E e \in Event : RaiseEvent(e) \/ CloseFinding(e)
         \/ \E r \in Route, on \in BOOLEAN : alert_route(r, on)
  PROVE  MailInv'
  <1> USE DEF MailInv
  <1>1. /\ UNCHANGED <<sesVars, feedbackVars, delivery, spent, digestRow>>
        /\ mailClock' \in MailTime /\ mailClock' >= mailClock
        /\ open' \subseteq Event /\ alerts' \in BOOLEAN /\ routeOn' \in [Route -> BOOLEAN]
        /\ event' = event \/ \E e \in Event : event' = [event EXCEPT ![e] = "queued"]
    <2>0. mailClock \in Int
      BY DEF MailTypeOK, MailTime
    <2>1. CASE MailTick
      BY <2>0, <2>1 DEF MailTick, MailTypeOK, MailTime, intentVars
    <2>2. CASE organization_policy
      BY <2>0, <2>2 DEF organization_policy, MailTypeOK, intentVars
    <2>3. ASSUME NEW e \in Event, RaiseEvent(e) \/ CloseFinding(e) PROVE <1>1!:
      BY <2>0, <2>3 DEF RaiseEvent, CloseFinding, MailTypeOK, intentVars
    <2>4. ASSUME NEW r \in Route, NEW on \in BOOLEAN, alert_route(r, on) PROVE <1>1!:
      BY <2>0, <2>4 DEF alert_route, MailTypeOK, intentVars, mailWorld
    <2> QED BY <2>1, <2>2, <2>3, <2>4
  <1>2. event' \in [Event -> {"none", "queued", "mailed", "deferred", "digested", "dropped"}]
    BY <1>1 DEF MailTypeOK
  <1>3. MailTypeOK'
    BY <1>1, <1>2 DEF MailTypeOK, sesVars, feedbackVars
  <1>4. DigestsInv'
    <2>1. \A e \in Event : event'[e] = "deferred" => event[e] = "deferred"
      BY <1>1 DEF MailTypeOK
    <2>2. mailClock' \in Nat
      BY <1>1 DEF MailTime
    <2> QED BY <1>1, <2>1, <2>2, DigestsKept
  <1> QED BY <1>1, <1>3, <1>4, CopiesKept

(* New deliveries begin pending and change no other (notifications.py:     *)
(* 18-26).                                                                 *)
LEMMA NewDeliveries ==
  ASSUME MailTypeOK, NEW x
  PROVE  /\ WithDeliveries(x) \in
              [Delivery -> [status : FinalStatus \union {"none", "pending"}, copy : MailCopy]]
         /\ \A d \in Delivery :
              \/ WithDeliveries(x)[d] = delivery[d]
              \/ /\ delivery[d].status = "none"
                 /\ WithDeliveries(x)[d].status = "pending" /\ WithDeliveries(x)[d].copy = 0
  <1>1. /\ PendingDelivery \in [status : FinalStatus \union {"none", "pending"}, copy : MailCopy]
        /\ PendingDelivery.status = "pending" /\ PendingDelivery.copy = 0
    BY DEF PendingDelivery, MailCopy, MailAssumption
  <1>2. NoDelivery.status = "none"
    BY DEF NoDelivery
  <1> QED BY <1>1, <1>2 DEF WithDeliveries, MailTypeOK

LEMMA DeliveriesKeep ==
  ASSUME MailTypeOK, CopiesInv, UNCHANGED <<sesVars, feedbackVars>>,
         \/ delivery' = delivery
         \/ \E x : delivery' = WithDeliveries(x)
  PROVE  CopiesInv'
  <1> USE DEF CopiesInv
  <1>1. CASE delivery' = delivery
    BY <1>1, CopiesKept
  <1>2. ASSUME NEW x, delivery' = WithDeliveries(x) PROVE CopiesInv'
    <2>1. /\ UNCHANGED <<accepted, sending, mailCrashes, reported, feedbackQueue>>
          /\ \A d \in Delivery :
               \/ delivery'[d] = delivery[d]
               \/ /\ delivery[d].status = "none"
                  /\ delivery'[d].status = "pending" /\ delivery'[d].copy = 0
      BY <1>2, NewDeliveries DEF sesVars, feedbackVars
    <2>2. RowsNameCopies' /\ ReportsAreOfCopies' /\ HeardIsSettled'
      BY <2>1 DEF RowsNameCopies, ReportsAreOfCopies, HeardIsSettled
    <2>3. CopiesWereAccepted' /\ LostInCrashes'
      <3>1. \A d \in Delivery : delivery'[d].copy = delivery[d].copy
        BY <2>1 DEF RowsNameCopies
      <3>2. \A d \in Delivery : Lost(d)' = Lost(d)
        BY <2>1, <3>1 DEF Lost
      <3> QED BY <2>1, <3>1, <3>2, LostKept DEF CopiesWereAccepted
    <2>4. ComplaintIsHeard'
      <3>1. \A m \in reported : m[1] \in Delivery /\ m[2] # 0
        BY Rows DEF ReportsAreOfCopies
      <3> QED BY <2>1, <3>1, Rows DEF ComplaintIsHeard
    <2> QED BY <2>2, <2>3, <2>4
  <1> QED BY <1>1, <1>2

(* An event that meets a spent quota moves the digest of this hour, which  *)
(* is not done: it is due when the hour is over (notifications.py:58-67).  *)
LEMMA PutOffWaits ==
  ASSUME MailTypeOK, DigestsInv, PutOff
  PROVE  /\ digestRow' \in [Hour -> {NoRow, RowDone} \union 0 .. MaxMailTime + 2]
         /\ digestRow'[CurrentHour] \notin {NoRow, RowDone}
         /\ \A h \in Hour : digestRow[h] \notin {NoRow, RowDone} =>
                              digestRow'[h] \notin {NoRow, RowDone}
         /\ mailClock' = mailClock => DigestsOutlastTheirHour'
  <1>1. /\ mailClock \in 0 .. MaxMailTime /\ CurrentHour \in Hour
        /\ 2 * CurrentHour <= mailClock /\ mailClock < 2 * CurrentHour + 2
    BY Hours DEF MailTypeOK, MailTime
  <1>2. digestRow[CurrentHour] # RowDone
    BY <1>1, Hours DEF DigestsInv, DigestsOutlastTheirHour, MailTypeOK, MailTime
  <1>3. /\ digestRow \in [Hour -> {NoRow, RowDone} \union 0 .. MaxMailTime + 2]
        /\ digestRow' = [digestRow EXCEPT ![CurrentHour] = mailClock + 2]
        /\ mailClock + 2 \in 0 .. MaxMailTime + 2
        /\ mailClock + 2 \notin {NoRow, RowDone}
    BY <1>1, <1>2 DEF PutOff, DigestDue, MailTypeOK, NoRow, RowDone
  <1>4. ASSUME mailClock' = mailClock PROVE DigestsOutlastTheirHour'
    <2>1. digestRow'[CurrentHour] = mailClock + 2
      BY <1>1, <1>3
    <2>2. mailClock + 2 >= 2 * CurrentHour + 2
      <3> mailClock \in Int /\ CurrentHour \in Int
        BY <1>1, Hours DEF MailTypeOK
      <3> QED BY <1>1
    <2>3. ASSUME NEW h \in Hour, h # CurrentHour
          PROVE  /\ digestRow'[h] = RowDone => mailClock' >= 2 * h + 2
                 /\ digestRow'[h] \notin {NoRow, RowDone} => digestRow'[h] >= 2 * h + 2
      BY <1>3, <1>4, <2>3 DEF DigestsInv, DigestsOutlastTheirHour
    <2> QED BY <1>3, <2>1, <2>2, <2>3 DEF DigestsOutlastTheirHour
  <1> QED BY <1>1, <1>3, <1>4

LEMMA Spends ==
  ASSUME MailTypeOK, Spend
  PROVE  spent' \in [Hour -> 0 .. Quota] /\ digestRow' = digestRow
  <1>1. CurrentHour \in Hour /\ spent \in [Hour -> 0 .. Quota] /\ ~(spent[CurrentHour] >= Quota)
    BY Hours DEF MailTypeOK, Spend, QuotaSpent
  <1>2. spent[CurrentHour] + 1 \in 0 .. Quota
    BY <1>1
  <1> QED BY <1>1, <1>2 DEF Spend

(* An event is mailed, put off or dropped (notifications.py:52-72).        *)
LEMMA PrepareInv == ASSUME MailInv, NEW e \in Event, prepare(e) PROVE MailInv'
  <1> USE DEF MailInv
  <1>1. UNCHANGED <<mailWorld, sesVars, feedbackVars, routeOn>> /\ event[e] = "queued"
    BY DEF prepare
  <1>2. CASE DropEvent(e) \/ MailEvent(e)
    <2>1. /\ digestRow' = digestRow /\ spent' \in [Hour -> 0 .. Quota]
          /\ event' = [event EXCEPT ![e] = "dropped"] \/ event' = [event EXCEPT ![e] = "mailed"]
          /\ delivery' = delivery \/ delivery' = WithDeliveries(e)
      BY <1>2, Spends DEF DropEvent, MailEvent, MailTypeOK
    <2>2. /\ event' \in [Event -> {"none", "queued", "mailed", "deferred", "digested", "dropped"}]
          /\ \A d \in Event : event'[d] = "deferred" => event[d] = "deferred"
      BY <2>1 DEF MailTypeOK
    <2>3. MailTypeOK'
      BY <1>1, <2>1, <2>2, NewDeliveries DEF MailTypeOK, mailWorld, sesVars, feedbackVars
    <2>4. mailClock' \in Nat /\ mailClock' >= mailClock
      BY <1>1 DEF mailWorld, MailTypeOK, MailTime
    <2> QED BY <1>1, <2>1, <2>2, <2>3, <2>4, DigestsKept, DeliveriesKeep
  <1>3. CASE DeferEvent(e)
    <2>1. /\ PutOff /\ UNCHANGED <<delivery, spent>>
          /\ event' = [event EXCEPT ![e] = "deferred"] /\ mailClock' = mailClock
      BY <1>1, <1>3 DEF DeferEvent, PutOff, mailWorld
    <2>2. event' \in [Event -> {"none", "queued", "mailed", "deferred", "digested", "dropped"}]
      BY <2>1 DEF MailTypeOK
    <2>3. MailTypeOK'
      BY <1>1, <2>1, <2>2, PutOffWaits DEF MailTypeOK, mailWorld, sesVars, feedbackVars
    <2>4. OverflowIsCovered'
      BY <2>1, PutOffWaits, Hours DEF OverflowIsCovered, MailTypeOK
    <2> QED BY <1>1, <2>1, <2>3, <2>4, PutOffWaits, CopiesKept DEF DigestsInv
  <1> QED BY <1>2, <1>3 DEF prepare

LEMMA PrepareAnotherInv == ASSUME MailInv, PrepareAnother PROVE MailInv'
  <1> USE DEF MailInv
  <1>1. /\ UNCHANGED <<mailWorld, sesVars, feedbackVars, event, delivery, routeOn>>
        /\ mailClock' = mailClock /\ mailClock' \in Nat /\ mailClock' >= mailClock
    BY DEF PrepareAnother, mailWorld, MailTypeOK, MailTime
  <1>2. CASE Spend
    <2>1. MailTypeOK'
      BY <1>1, <1>2, Spends DEF MailTypeOK, mailWorld, sesVars, feedbackVars
    <2> QED BY <1>1, <1>2, <2>1, Spends, DigestsKept, CopiesKept
  <1>3. CASE PutOff
    <2>1. MailTypeOK'
      BY <1>1, <1>3, PutOffWaits DEF PutOff, MailTypeOK, mailWorld, sesVars, feedbackVars
    <2>2. OverflowIsCovered'
      BY <1>1, <1>3, PutOffWaits DEF DigestsInv, OverflowIsCovered
    <2> QED BY <1>1, <1>3, <2>1, <2>2, PutOffWaits, CopiesKept DEF DigestsInv
  <1> QED BY <1>2, <1>3 DEF PrepareAnother

(* A digest is sent when its hour is over, of all that was put off         *)
(* (notifications.py:170-178).                                             *)
LEMMA DigestInv == ASSUME MailInv, NEW h \in Hour, digest(h) PROVE MailInv'
  <1> USE DEF MailInv
  <1>1. /\ UNCHANGED <<mailWorld, sesVars, feedbackVars, spent, routeOn>>
        /\ digestRow[h] \in MailTime /\ digestRow[h] <= mailClock
        /\ digestRow' = [digestRow EXCEPT ![h] = RowDone]
        /\ delivery' = delivery \/ delivery' = WithDeliveries(h)
        /\ event' = [e \in DOMAIN event |->
                       IF event[e] = "deferred" THEN "digested" ELSE event[e]]
    BY DEF digest
  <1>2. /\ event' \in [Event -> {"none", "queued", "mailed", "deferred", "digested", "dropped"}]
        /\ \A e \in Event : event'[e] # "deferred"
    BY <1>1 DEF MailTypeOK
  <1>3. MailTypeOK'
    BY <1>1, <1>2, NewDeliveries DEF MailTypeOK, mailWorld, sesVars, feedbackVars
  <1>4. DigestsOutlastTheirHour'
    <2>1. /\ mailClock' = mailClock /\ mailClock \in Int /\ digestRow[h] \in Nat
          /\ digestRow[h] \notin {NoRow, RowDone}
          /\ \A k \in Hour : digestRow'[k] = IF k = h THEN RowDone ELSE digestRow[k]
          /\ \A k \in Hour : k \in Nat
      BY <1>1, Hours DEF mailWorld, MailTypeOK, MailTime, NoRow, RowDone
    <2>2. mailClock >= 2 * h + 2
      BY <1>1, <2>1 DEF DigestsInv, DigestsOutlastTheirHour
    <2> QED BY <2>1, <2>2 DEF DigestsInv, DigestsOutlastTheirHour
  <1>5. OverflowIsCovered'
    BY <1>2 DEF OverflowIsCovered
  <1> QED BY <1>1, <1>3, <1>4, <1>5, DeliveriesKeep DEF DigestsInv

(* Mail that nobody may get any more is cancelled (notifications.py:       *)
(* 139-142).                                                               *)
LEMMA CancelMailInv == ASSUME MailInv, NEW d \in Delivery, CancelMail(d) PROVE MailInv'
  <1> USE DEF MailInv, CopiesInv
  <1>1. /\ UNCHANGED <<mailWorld, intentVars, sesVars, feedbackVars, routeOn>>
        /\ delivery' = [delivery EXCEPT ![d].status = "cancelled"]
        /\ delivery[d].status = "pending" /\ d \notin sending
    BY Rows DEF CancelMail
  <1>2. /\ delivery \in [Delivery -> [status : FinalStatus \union {"none", "pending"}, copy : MailCopy]]
        /\ delivery[d].copy = 0
    BY <1>1 DEF MailTypeOK, RowsNameCopies
  <1>3. /\ delivery' \in [Delivery -> [status : FinalStatus \union {"none", "pending"}, copy : MailCopy]]
        /\ \A x \in Delivery : x # d => delivery'[x] = delivery[x]
        /\ delivery'[d].status = "cancelled" /\ delivery'[d].copy = 0
    BY <1>1, <1>2, Kinds
  <1>4. MailTypeOK'
    BY <1>1, <1>3 DEF MailTypeOK, mailWorld, intentVars, sesVars, feedbackVars
  <1>5. DigestsInv'
    BY <1>1, DigestsKept DEF mailWorld, intentVars, MailTypeOK, MailTime
  <1>6. RowsNameCopies' /\ ReportsAreOfCopies' /\ HeardIsSettled'
    BY <1>1, <1>3 DEF RowsNameCopies, ReportsAreOfCopies, HeardIsSettled, sesVars, feedbackVars
  <1>7. CopiesWereAccepted' /\ LostInCrashes'
    <2>1. \A x \in Delivery : delivery'[x].copy = delivery[x].copy
      BY <1>2, <1>3
    <2>2. \A x \in Delivery : Lost(x)' = Lost(x)
      BY <1>1, <2>1 DEF Lost, sesVars
    <2> QED BY <1>1, <2>1, <2>2, LostKept DEF CopiesWereAccepted, sesVars
  <1>8. ComplaintIsHeard'
    <2>1. \A m \in reported : m[1] \in Delivery /\ m[2] # 0
      BY Rows DEF ReportsAreOfCopies
    <2> QED BY <1>1, <1>3, <2>1 DEF ComplaintIsHeard, feedbackVars
  <1> QED BY <1>4, <1>5, <1>6, <1>7, <1>8

(* SES accepts a copy: nothing that was heard is about it                  *)
(* (notifications.py:143-163).                                             *)
LEMMA SendMailInv == ASSUME MailInv, NEW d \in Delivery, SendMail(d) PROVE MailInv'
  <1> USE DEF MailInv, CopiesInv
  <1>1. /\ UNCHANGED <<mailWorld, intentVars, feedbackVars, delivery, routeOn, mailCrashes>>
        /\ delivery[d].status = "pending" /\ d \notin sending
        /\ accepted[d] <= MaxMailCrashes
        /\ accepted' = [accepted EXCEPT ![d] = @ + 1]
        /\ sending' = sending \union {d}
    BY Rows DEF SendMail
  <1>2. /\ accepted \in [Delivery -> MailCopy] /\ accepted[d] \in Nat /\ mailCrashes \in Nat
        /\ accepted[d] + 1 \in MailCopy
    BY <1>1, Rows DEF MailTypeOK, MailCopy
  <1>3. /\ accepted' \in [Delivery -> MailCopy]
        /\ \A x \in Delivery : accepted'[x] = IF x = d THEN accepted[d] + 1 ELSE accepted[x]
    BY <1>1, <1>2
  <1>4. MailTypeOK'
    BY <1>1, <1>3 DEF MailTypeOK, mailWorld, intentVars, feedbackVars
  <1>5. DigestsInv'
    BY <1>1, DigestsKept DEF mailWorld, intentVars, MailTypeOK, MailTime
  <1>6. RowsNameCopies'
    BY <1>1, <1>3 DEF RowsNameCopies
  <1>7. CopiesWereAccepted' /\ LostInCrashes'
    <2>1. \A x \in Delivery : accepted[x] \in Nat /\ delivery[x].copy \in Nat
      BY Rows
    <2>2. delivery[d].copy = 0
      BY <1>1 DEF RowsNameCopies
    <2>3. \A x \in Delivery : Lost(x)' = Lost(x)
      BY <1>1, <1>3, <2>1, <2>2 DEF Lost
    <2>4. CopiesWereAccepted'
      BY <1>1, <1>3, <2>1 DEF CopiesWereAccepted
    <2> QED BY <1>1, <2>3, <2>4, LostKept
  <1>8. ReportsAreOfCopies' /\ HeardIsSettled'
    <2>1. /\ \A m \in reported : m[1] \in Delivery /\ m[2] \in 1 .. accepted[m[1]]
          /\ \A x \in Delivery : accepted[x] \in Nat
          /\ reported' = reported /\ feedbackQueue' = feedbackQueue
      BY <1>1, Rows DEF ReportsAreOfCopies, feedbackVars
    <2>2. ReportsAreOfCopies'
      BY <1>3, <2>1 DEF ReportsAreOfCopies
    <2>3. HeardIsSettled'
      BY <1>1, <1>3, <2>1 DEF HeardIsSettled
    <2> QED BY <2>2, <2>3
  <1>9. ComplaintIsHeard'
    BY <1>1 DEF ComplaintIsHeard, feedbackVars
  <1> QED BY <1>4, <1>5, <1>6, <1>7, <1>8, <1>9

(* The commit names the copy accepted last; what was heard is about an     *)
(* older one (notifications.py:163-167).                                   *)
LEMMA CommitMailInv == ASSUME MailInv, NEW d \in Delivery, CommitMail(d) PROVE MailInv'
  <1> USE DEF MailInv, CopiesInv
  <1>1. /\ UNCHANGED <<mailWorld, intentVars, feedbackVars, accepted, routeOn, mailCrashes>>
        /\ d \in sending /\ sending' = sending \ {d}
        /\ delivery' = [delivery EXCEPT ![d] = [status |-> "accepted", copy |-> accepted[d]]]
    BY DEF CommitMail
  <1>2. [status |-> "accepted", copy |-> accepted[d]] \in
          [status : FinalStatus \union {"none", "pending"}, copy : MailCopy]
    BY Kinds DEF MailTypeOK
  <1>3. /\ delivery' \in [Delivery -> [status : FinalStatus \union {"none", "pending"}, copy : MailCopy]]
        /\ \A x \in Delivery : x # d => delivery'[x] = delivery[x]
        /\ delivery'[d].status = "accepted" /\ delivery'[d].copy = accepted[d]
    BY <1>1, <1>2 DEF MailTypeOK
  <1>4. MailTypeOK'
    BY <1>1, <1>3 DEF MailTypeOK, mailWorld, intentVars, feedbackVars
  <1>5. DigestsInv'
    BY <1>1, DigestsKept DEF mailWorld, intentVars, MailTypeOK, MailTime
  <1>6. RowsNameCopies' /\ ReportsAreOfCopies' /\ HeardIsSettled'
    BY <1>1, <1>3 DEF RowsNameCopies, ReportsAreOfCopies, HeardIsSettled, feedbackVars
  <1>7. CopiesWereAccepted' /\ LostInCrashes'
    <2>1. \A x \in Delivery : accepted[x] \in Nat /\ delivery[x].copy \in Nat
      BY Rows
    <2>2. accepted[d] > 0
      BY <1>1 DEF CopiesWereAccepted
    <2>3. \A x \in Delivery : Lost(x)' = Lost(x)
      BY <1>1, <1>3, <2>1, <2>2 DEF Lost
    <2>4. CopiesWereAccepted'
      BY <1>1, <1>3, <2>1 DEF CopiesWereAccepted
    <2> QED BY <1>1, <2>3, <2>4, LostKept
  <1>8. ComplaintIsHeard'
    <2>1. \A m \in reported \ feedbackQueue : m[1] = d => m[2] # accepted[d]
      BY <1>1, Rows DEF HeardIsSettled
    <2> QED BY <1>1, <1>3, <2>1, Rows DEF ComplaintIsHeard, feedbackVars
  <1> QED BY <1>4, <1>5, <1>6, <1>7, <1>8

(* The worker dies after SES's answer: the copy will never be named        *)
(* (runtime.py:209-235).                                                   *)
LEMMA MailCrashInv == ASSUME MailInv, NEW d \in Delivery, MailCrash(d) PROVE MailInv'
  <1> USE DEF MailInv, CopiesInv
  <1>1. /\ UNCHANGED <<mailWorld, intentVars, feedbackVars, delivery, accepted, routeOn>>
        /\ sending' = sending \ {d}
        /\ mailCrashes' = mailCrashes + 1 /\ mailCrashes < MaxMailCrashes
    BY DEF MailCrash
  <1>2. MailTypeOK'
    BY <1>1 DEF MailTypeOK, mailWorld, intentVars, feedbackVars
  <1>3. DigestsInv'
    BY <1>1, DigestsKept DEF mailWorld, intentVars, MailTypeOK, MailTime
  <1>4. CopiesWereAccepted' /\ LostInCrashes'
    <2> DEFINE w == [x \in Delivery |-> Lost(x)]
               v == [x \in Delivery |-> Lost(x)']
    <2>1. CopiesWereAccepted'
      BY <1>1 DEF CopiesWereAccepted
    <2>2. w \in [Delivery -> Nat] /\ v \in [Delivery -> Nat]
      <3>1. \A x \in Delivery : Lost(x) \in Nat /\ Lost(x)' \in Nat
        BY <1>2, <2>1, LostTypes, Rows, <1>1 DEF CopiesWereAccepted, Lost
      <3> QED BY <3>1
    <2>3. d \in sending /\ delivery[d].copy = 0 /\ accepted[d] \in Nat
      BY Rows DEF MailCrash, RowsNameCopies
    <2>4. v[d] = w[d] + 1 /\ \A x \in Delivery \ {d} : v[x] = w[x]
      BY <1>1, <2>3 DEF Lost
    <2>5. SumOver(Delivery, v) = SumOver(Delivery, w) + 1
      <3> HIDE DEF v, w
      <3> QED BY <2>2, <2>4, SumOfOneMore, DeliveriesAreFinite
    <2>6. SumOver(Delivery, w) \in Nat /\ mailCrashes \in Nat
      <3> HIDE DEF w
      <3> QED BY <2>2, SumBounds, DeliveriesAreFinite, Rows
    <2>7. SumOver(Delivery, w) <= mailCrashes
      BY DEF LostInCrashes
    <2>8. SumOver(Delivery, v) <= mailCrashes'
      <3> HIDE DEF v, w
      <3> QED BY <1>1, <2>5, <2>6, <2>7
    <2> QED BY <2>1, <2>8 DEF LostInCrashes
  <1>5. RowsNameCopies' /\ ReportsAreOfCopies' /\ HeardIsSettled' /\ ComplaintIsHeard'
    BY <1>1 DEF RowsNameCopies, ReportsAreOfCopies, HeardIsSettled, ComplaintIsHeard,
       feedbackVars
  <1> QED BY <1>2, <1>3, <1>4, <1>5

(* SES reports about a copy it accepted, once (notifications.py:181-186).  *)
LEMMA SesReportsInv ==
  ASSUME MailInv, NEW d \in Delivery, NEW c \in MailCopy, NEW kind \in SesReport,
         SesReports(d, c, kind)
  PROVE  MailInv'
  <1> USE DEF MailInv, CopiesInv
  <1> DEFINE m == <<d, c, kind>>
  <1>1. /\ UNCHANGED <<mailWorld, intentVars, sesVars, delivery, routeOn>>
        /\ reported' = reported \union {m} /\ feedbackQueue' = feedbackQueue \union {m}
        /\ c \in 1 .. accepted[d]
    BY DEF SesReports
  <1>2. m \in Delivery \X MailCopy \X SesReport /\ m[1] = d /\ m[2] = c
    OBVIOUS
  <1> HIDE DEF m
  <1>3. MailTypeOK'
    BY <1>1, <1>2 DEF MailTypeOK, mailWorld, intentVars, sesVars
  <1>4. DigestsInv'
    BY <1>1, DigestsKept DEF mailWorld, intentVars, MailTypeOK, MailTime
  <1>5. reported' \ feedbackQueue' \subseteq reported \ feedbackQueue
    BY <1>1
  <1>6. RowsNameCopies' /\ CopiesWereAccepted' /\ LostInCrashes'
    BY <1>1, LostKept DEF RowsNameCopies, CopiesWereAccepted, Lost, sesVars
  <1>7. ReportsAreOfCopies' /\ HeardIsSettled' /\ ComplaintIsHeard'
    BY <1>1, <1>2, <1>5 DEF ReportsAreOfCopies, HeardIsSettled, ComplaintIsHeard, sesVars
  <1> QED BY <1>3, <1>4, <1>6, <1>7

(* Feedback about the copy that a row names: the row says the worst of it, *)
(* also after what was heard before (notifications.py:187-204).            *)
LEMMA ConsumeInv ==
  ASSUME MailInv, NEW d \in Delivery, NEW c \in MailCopy, NEW kind \in SesReport,
         consume_feedback(d, c, kind)
  PROVE  MailInv'
  <1> USE DEF MailInv, CopiesInv
  <1> DEFINE m == <<d, c, kind>>
  <1>1. /\ UNCHANGED <<mailWorld, intentVars, sesVars, reported>>
        /\ m \in feedbackQueue /\ delivery[d].copy = c
        /\ feedbackQueue' \subseteq feedbackQueue
        /\ feedbackQueue \subseteq feedbackQueue' \union {m}
        /\ IF Applies(d, kind)
           THEN /\ delivery' = [delivery EXCEPT ![d].status = StatusOf(kind)]
                /\ routeOn' = [routeOn EXCEPT ![d[2]] = @ /\ kind = "Delivery"]
           ELSE UNCHANGED <<delivery, routeOn>>
    BY DEF consume_feedback, Matches
  <1>2. m \in reported /\ m[1] = d /\ m[2] = c /\ m[3] = kind
    BY <1>1, Rows
  <1> HIDE DEF m
  <1>3. /\ c # 0 /\ d \notin sending
        /\ delivery[d].status \notin {"none", "pending", "cancelled"}
    BY <1>1, <1>2, Rows DEF ReportsAreOfCopies, RowsNameCopies
  <1>4. /\ delivery' \in [Delivery -> [status : FinalStatus \union {"none", "pending"}, copy : MailCopy]]
        /\ \A x \in Delivery : x # d => delivery'[x] = delivery[x]
        /\ delivery'[d].copy = c
        /\ delivery'[d].status = IF Applies(d, kind) THEN StatusOf(kind) ELSE delivery[d].status
    <2>1. StatusOf(kind) \in FinalStatus
      BY Kinds
    <2> QED BY <1>1, <2>1 DEF MailTypeOK
  <1>5. routeOn' \in [Route -> BOOLEAN]
    <2>1. \A on \in BOOLEAN : (on /\ kind = "Delivery") \in BOOLEAN
      OBVIOUS
    <2> QED BY <1>1, <2>1 DEF MailTypeOK
  <1>6. MailTypeOK'
    BY <1>1, <1>4, <1>5 DEF MailTypeOK, mailWorld, intentVars, sesVars
  <1>7. DigestsInv'
    BY <1>1, DigestsKept DEF mailWorld, intentVars, MailTypeOK, MailTime
  <1>8. delivery'[d].status \notin {"none", "pending", "cancelled"}
    BY <1>3, <1>4, Kinds
  <1>9. RowsNameCopies' /\ CopiesWereAccepted' /\ LostInCrashes'
    <2>1. \A x \in Delivery : delivery'[x].copy = delivery[x].copy
      BY <1>1, <1>4
    <2>2. \A x \in Delivery : Lost(x)' = Lost(x)
      BY <1>1, <2>1 DEF Lost, sesVars
    <2>3. RowsNameCopies'
      BY <1>1, <1>3, <1>4, <1>8 DEF RowsNameCopies, sesVars
    <2> QED BY <1>1, <2>1, <2>2, <2>3, LostKept DEF CopiesWereAccepted, sesVars
  <1>10. ReportsAreOfCopies' /\ HeardIsSettled'
    BY <1>1, <1>2, <1>3 DEF ReportsAreOfCopies, HeardIsSettled, sesVars
  <1>11. ComplaintIsHeard'
    <2> SUFFICES ASSUME NEW x \in reported \ feedbackQueue', delivery'[x[1]].copy = x[2],
                        x[3] # "Delivery"
                 PROVE  delivery'[x[1]].status \in {StatusOf(x[3]), "complained"}
      BY <1>1 DEF ComplaintIsHeard
    <2>1. x[1] \in Delivery /\ x[3] \in {"Bounce", "Complaint"}
      BY Rows DEF SesReport
    <2>2. CASE x \notin feedbackQueue
      <3>1. CASE x[1] = d
        <4>1. delivery[d].status \in {StatusOf(x[3]), "complained"}
          BY <1>4, <2>2, <3>1, <1>1 DEF ComplaintIsHeard
        <4> QED BY <1>4, <2>1, <3>1, <4>1, Kinds DEF Applies
      <3>2. CASE x[1] # d
        BY <1>4, <2>1, <2>2, <3>2 DEF ComplaintIsHeard
      <3> QED BY <3>1, <3>2
    <2>3. CASE x \in feedbackQueue
      <3>1. x[1] = d /\ x[3] = kind
        BY <1>1, <1>2, <2>3
      <3> QED BY <1>4, <2>1, <3>1, Kinds DEF Applies
    <2> QED BY <2>2, <2>3
  <1> QED BY <1>6, <1>7, <1>9, <1>10, <1>11

(* Feedback is given up when no commit is under way that could still name  *)
(* its copy (identity.tf:85-86).                                           *)
LEMMA DeadFeedbackInv ==
  ASSUME MailInv, NEW d \in Delivery, NEW c \in MailCopy, NEW kind \in SesReport,
         DeadFeedback(d, c, kind)
  PROVE  MailInv'
  <1> USE DEF MailInv, CopiesInv
  <1> DEFINE m == <<d, c, kind>>
  <1>1. /\ UNCHANGED <<mailWorld, intentVars, sesVars, delivery, routeOn, reported>>
        /\ feedbackQueue' = feedbackQueue \ {m}
        /\ delivery[d].copy # c /\ d \notin sending /\ m[1] = d /\ m[2] = c
    BY DEF DeadFeedback, Matches
  <1> HIDE DEF m
  <1>2. MailTypeOK'
    BY <1>1 DEF MailTypeOK, mailWorld, intentVars, sesVars
  <1>3. DigestsInv'
    BY <1>1, DigestsKept DEF mailWorld, intentVars, MailTypeOK, MailTime
  <1>4. /\ RowsNameCopies' /\ ReportsAreOfCopies'
        /\ CopiesWereAccepted' /\ LostInCrashes'
    BY <1>1, LostKept DEF RowsNameCopies, ReportsAreOfCopies, CopiesWereAccepted, Lost, sesVars
  <1>5. HeardIsSettled' /\ ComplaintIsHeard'
    <2>1. \A x \in reported \ feedbackQueue' : x = m \/ x \in reported \ feedbackQueue
      BY <1>1
    <2> QED BY <1>1, <2>1 DEF HeardIsSettled, ComplaintIsHeard, sesVars
  <1> QED BY <1>2, <1>3, <1>4, <1>5

----------------------------------------------------------------------------
(* Theorems *)

(* The invariant of the mail holds in every state.                         *)
THEOREM MailInvariant == MailSpec => []MailInv
  <1>1. MailInv /\ [MailNext]_mailVars => MailInv'
    <2> SUFFICES ASSUME MailInv, [MailNext]_mailVars PROVE MailInv'
      OBVIOUS
    <2>1. CASE UNCHANGED mailVars
      <3>1. UNCHANGED <<mailWorld, intentVars, sesVars, feedbackVars, delivery, routeOn>>
        BY <2>1 DEF mailVars
      <3>2. MailTypeOK' /\ DigestsInv'
        BY <3>1 DEF mailWorld, intentVars, sesVars, feedbackVars, MailInv, MailTypeOK,
           DigestsInv, DigestsOutlastTheirHour, OverflowIsCovered
      <3> QED BY <3>1, <3>2, CopiesKept DEF MailInv
    <2>2. CASE MailTick \/ organization_policy \/ PrepareAnother
      BY <2>2, WorldInv, PrepareAnotherInv
    <2>3. ASSUME NEW e \in Event, RaiseEvent(e) \/ CloseFinding(e) \/ prepare(e) PROVE MailInv'
      BY <2>3, WorldInv, PrepareInv
    <2>4. ASSUME NEW r \in Route, NEW on \in BOOLEAN, alert_route(r, on) PROVE MailInv'
      BY <2>4, WorldInv
    <2> QED
      BY <2>1, <2>2, <2>3, <2>4, DigestInv, CancelMailInv, SendMailInv, CommitMailInv,
         MailCrashInv, SesReportsInv, ConsumeInv, DeadFeedbackInv DEF MailNext
  <1> QED BY <1>1, InitMail, PTL DEF MailSpec

(* An event put off by the quota is awaited by a digest                    *)
(* (notifications.py:58-67).                                               *)
THEOREM OverflowIsTold == MailSpec => []OverflowIsCovered
  <1>1. MailInv => OverflowIsCovered
    BY DEF MailInv, DigestsInv
  <1> QED BY <1>1, MailInvariant, PTL

(* No order of commits, deaths and feedback loses a bounce or a complaint  *)
(* about the copy that a row names (notifications.py:189-204).             *)
THEOREM ComplaintsAreHeard == MailSpec => []ComplaintIsHeard
  <1>1. MailInv => ComplaintIsHeard
    BY DEF MailInv, CopiesInv
  <1> QED BY <1>1, MailInvariant, PTL

LEMMA RepeatsIs ==
  ASSUME MailTypeOK, NEW d \in Delivery
  PROVE  Repeats(d) = IF accepted[d] = 0 THEN 0 ELSE accepted[d] - 1
  <1>1. accepted[d] \in Nat
    BY Rows
  <1>2. \A x \in {0, accepted[d] - 1} :
          (\A y \in {0, accepted[d] - 1} : x >= y)
            <=> x = (IF accepted[d] = 0 THEN 0 ELSE accepted[d] - 1)
    BY <1>1
  <1> QED BY <1>1, <1>2 DEF Max, Repeats

(* The sum of the specification is one that adds up.                       *)
LEMMA RepeatsAreSummed ==
  ASSUME MailTypeOK
  PROVE  /\ \A d \in Delivery : Repeats(d) \in Nat
         /\ MapThenSumSet(Repeats, Delivery)
              = SumOver(Delivery, [d \in Delivery |-> Repeats(d)])
  <1> DEFINE w == [d \in Delivery |-> Repeats(d)]
             Raw(f) == f = [t \in SUBSET Delivery |-> IF t = {} THEN 0
                              ELSE Repeats(CHOOSE x \in t : TRUE)
                                     + f[t \ {CHOOSE x \in t : TRUE}]]
  <1>1. MapThenSumSet(Repeats, Delivery) = (CHOOSE f : Raw(f))[Delivery]
    BY DEF MapThenSumSet, MapThenFoldSet
  <1>2. \A d \in Delivery : Repeats(d) \in Nat
    BY RepeatsIs, Rows
  <1>3. ASSUME NEW t \in SUBSET Delivery, t # {}
        PROVE  w[Pick(t)] = Repeats(CHOOSE x \in t : TRUE)
    <2>1. Pick(t) \in Delivery
      BY <1>3, PickIs
    <2>2. w[Pick(t)] = Repeats(Pick(t))
      BY <2>1
    <2> QED BY <2>2, Zenon DEF Pick
  <1>4. w \in [Delivery -> Nat]
    BY <1>2
  <1> HIDE DEF w
  <1>5. ASSUME NEW f PROVE Folding(f, Delivery, w) <=> Raw(f)
    <2>1. ASSUME NEW t \in SUBSET Delivery
          PROVE  (IF t = {} THEN 0 ELSE w[Pick(t)] + f[t \ {Pick(t)}])
                   = IF t = {} THEN 0 ELSE Repeats(CHOOSE x \in t : TRUE)
                                             + f[t \ {CHOOSE x \in t : TRUE}]
      <3>1. CASE t = {}
        BY <3>1
      <3>2. CASE t # {}
        <4>1. w[Pick(t)] = Repeats(CHOOSE x \in t : TRUE)
          BY <1>3, <3>2
        <4> QED BY <3>2, <4>1, Zenon DEF Pick
      <3> QED BY <3>1, <3>2
    <2> QED BY <2>1, Zenon DEF Folding
  <1> HIDE DEF Raw
  <1>6. \E f : Raw(f)
    <2>1. PICK f : Folding(f, Delivery, w)
      BY FoldingExists, DeliveriesAreFinite
    <2> QED BY <1>5, <2>1
  <1>7. Raw(CHOOSE f : Raw(f))
    BY <1>6, Zenon
  <1>8. (CHOOSE f : Raw(f))[Delivery] = SumOver(Delivery, w)
    BY <1>4, <1>5, <1>7, FoldingIsSum, DeliveriesAreFinite
  <1> QED BY <1>1, <1>2, <1>8 DEF w

(* All deliveries together are accepted again by SES at most as often as   *)
(* the worker died (notifications.py:88-95, 163-167).                      *)
THEOREM RepeatsAreCrashes == MailSpec => []RepeatsNeedACrash
  <1>1. MailInv => RepeatsNeedACrash
    <2> SUFFICES ASSUME MailInv PROVE RepeatsNeedACrash
      OBVIOUS
    <2> DEFINE w == [d \in Delivery |-> Repeats(d)]
               v == [d \in Delivery |-> Lost(d)]
    <2>1. MailTypeOK /\ CopiesWereAccepted /\ LostInCrashes
      BY DEF MailInv, CopiesInv
    <2>2. w \in [Delivery -> Nat] /\ v \in [Delivery -> Nat]
      BY <2>1, RepeatsAreSummed, LostTypes
    <2>3. \A d \in Delivery : w[d] <= v[d]
      <3>1. \A d \in Delivery : accepted[d] \in Nat /\ Lost(d) \in Nat
        BY <2>1, Rows, LostTypes
      <3>2. \A d \in Delivery : Repeats(d) <= Lost(d)
        BY <2>1, <3>1, RepeatsIs DEF Lost
      <3> QED BY <3>2
    <2>4. MapThenSumSet(Repeats, Delivery) = SumOver(Delivery, w)
      BY <2>1, RepeatsAreSummed
    <2>5. SumOver(Delivery, v) <= mailCrashes
      BY <2>1 DEF LostInCrashes
    <2> HIDE DEF w, v
    <2>6. SumOver(Delivery, w) <= SumOver(Delivery, v)
      BY <2>2, <2>3, SumGrows, DeliveriesAreFinite
    <2>7. SumOver(Delivery, w) \in Nat /\ SumOver(Delivery, v) \in Nat /\ mailCrashes \in Nat
      BY <2>1, <2>2, SumBounds, DeliveriesAreFinite, Rows
    <2> QED BY <2>4, <2>5, <2>6, <2>7 DEF RepeatsNeedACrash
  <1> QED BY <1>1, MailInvariant, PTL

(* However often a message is tried, SES accepts it at most once more than *)
(* the worker died (notifications.py:88-95, 163-167).                      *)
THEOREM RepeatsOfOneMessage == MailSpec => []OneRepeatPerCrash
  <1>1. MailInv => OneRepeatPerCrash
    <2> SUFFICES ASSUME MailInv, NEW d \in Delivery PROVE accepted[d] <= mailCrashes + 1
      BY DEF OneRepeatPerCrash
    <2> DEFINE v == [x \in Delivery |-> Lost(x)]
    <2>1. MailTypeOK /\ CopiesWereAccepted /\ SumOver(Delivery, v) <= mailCrashes
      BY DEF MailInv, CopiesInv, LostInCrashes
    <2>2. v \in [Delivery -> Nat] /\ v[d] = Lost(d)
      BY <2>1, LostTypes
    <2> HIDE DEF v
    <2>3. v[d] <= SumOver(Delivery, v) /\ SumOver(Delivery, v) \in Nat
      BY <2>2, SumBounds, DeliveriesAreFinite
    <2>4. accepted[d] \in Nat /\ mailCrashes \in Nat
      BY <2>1, Rows
    <2> QED BY <2>1, <2>2, <2>3, <2>4 DEF Lost
  <1> QED BY <1>1, MailInvariant, PTL
=============================================================================
