---------------------------- MODULE Notifications ----------------------------
(***************************************************************************)
(* Mail to the people of one organization: findings/notifications.py, run  *)
(* by the notification worker, and the feedback of SES.  Time counts half  *)
(* hours, as the hourly quota and the hour's delay of a digest need.  The  *)
(* work queue may run any of the handlers again (see WorkQueue); each is   *)
(* therefore enabled whenever its own guard lets it act.                   *)
(***************************************************************************)
EXTENDS Integers, FiniteSets, FiniteSetsExt

CONSTANTS
  Event,           \* FindingEvent rows, of one rule
  Route,           \* AlertRoute rows
  Quota,           \* notifications of one rule in one hour
  MaxMailTime,     \* bound on the clock, in half hours
  MaxMailCrashes,  \* bound on crashes of the notification worker
  MaxReports       \* bound on what SES reports

VARIABLES
  mailClock,
  open,            \* events whose finding is open
  alerts,          \* Organization.alerts_enabled
  event,           \* how far each event is
  spent,           \* Quota.count of each hour
  digestRow,       \* the notify_digest row of each hour: none, done, or its available_at
  delivery,        \* EmailDelivery rows
  accepted,        \* copies of each message that SES accepted
  sending,         \* deliveries between SES's answer and the commit
  routeOn,         \* AlertRoute.active and bounced_at = None
  reported,        \* what SES said about copies, ever
  feedbackQueue,   \* ... and what still waits in the feedback queue
  mailCrashes

mailWorld == <<mailClock, open, alerts>>
intentVars == <<event, spent, digestRow>>
sesVars == <<accepted, sending, mailCrashes>>
feedbackVars == <<reported, feedbackQueue>>
mailVars == <<mailWorld, intentVars, sesVars, feedbackVars, delivery, routeOn>>

ASSUME MailAssumption ==
  /\ IsFiniteSet(Event) /\ IsFiniteSet(Route)      \* rows of tables
  /\ Quota \in Nat /\ MaxMailTime \in Nat /\ MaxMailCrashes \in Nat /\ MaxReports \in Nat

MailTime == 0 .. MaxMailTime
Hour == 0 .. (MaxMailTime \div 2)
CurrentHour == mailClock \div 2
NoRow == -1
RowDone == -2

Source == Event \union Hour
Delivery == Source \X Route
FinalStatus == {"accepted", "delivered", "bounced", "complained", "cancelled"}
NoDelivery == [status |-> "none", copy |-> 0]
PendingDelivery == [status |-> "pending", copy |-> 0]
MailCopy == 0 .. MaxMailCrashes + 1
SesReport == {"Delivery", "Bounce", "Complaint"}
StatusOf(kind) == CASE kind = "Bounce" -> "bounced"
                    [] kind = "Complaint" -> "complained"
                    [] OTHER -> "delivered"

MailTypeOK ==
  /\ mailClock \in MailTime
  /\ open \subseteq Event
  /\ alerts \in BOOLEAN
  /\ event \in [Event -> {"none", "queued", "mailed", "deferred", "digested", "dropped"}]
  /\ spent \in [Hour -> 0 .. Quota]
  /\ digestRow \in [Hour -> {NoRow, RowDone} \union 0 .. MaxMailTime + 2]
  /\ delivery \in [Delivery -> [status : FinalStatus \union {"none", "pending"}, copy : MailCopy]]
  /\ accepted \in [Delivery -> MailCopy]
  /\ sending \subseteq Delivery
  /\ routeOn \in [Route -> BOOLEAN]
  /\ feedbackQueue \subseteq reported /\ reported \subseteq Delivery \X MailCopy \X SesReport
  /\ mailCrashes \in 0 .. MaxMailCrashes

MailInit ==
  /\ mailClock = 0 /\ open = {} /\ alerts = TRUE
  /\ event = [e \in Event |-> "none"]
  /\ spent = [h \in Hour |-> 0]
  /\ digestRow = [h \in Hour |-> NoRow]
  /\ delivery = [d \in Delivery |-> NoDelivery]
  /\ accepted = [d \in Delivery |-> 0]
  /\ sending = {}
  /\ routeOn = [r \in Route |-> TRUE]
  /\ reported = {} /\ feedbackQueue = {}
  /\ mailCrashes = 0

----------------------------------------------------------------------------
(* Around the worker *)

(* An event is written, with its notify row. *)
RaiseEvent(e) ==
  /\ event[e] = "none"
  /\ mailClock + 3 <= MaxMailTime     \* bound
  /\ event' = [event EXCEPT ![e] = "queued"]
  /\ open' = open \union {e}
  /\ UNCHANGED <<sesVars, feedbackVars, mailClock, alerts, spent, digestRow, delivery, routeOn>>

CloseFinding(e) ==    \* the finding is resolved or suppressed
  /\ e \in open
  /\ open' = open \ {e}
  /\ UNCHANGED <<intentVars, sesVars, feedbackVars, mailClock, alerts, delivery, routeOn>>

organization_policy ==
  /\ alerts' = ~alerts
  /\ UNCHANGED <<intentVars, sesVars, feedbackVars, mailClock, open, delivery, routeOn>>

(* The owner sets a route, which forgets its bounce; membership_change can *)
(* only switch it off.                                                     *)
alert_route(r, on) ==
  /\ routeOn' = [routeOn EXCEPT ![r] = on]
  /\ UNCHANGED <<mailWorld, intentVars, sesVars, feedbackVars, delivery>>

MailTick ==      \* bound: a digest comes due before the clock ends
  /\ mailClock < MaxMailTime
  /\ mailClock + 2 >= MaxMailTime => \A e \in Event : event[e] # "queued"
  /\ mailClock' = mailClock + 1
  /\ UNCHANGED <<intentVars, sesVars, feedbackVars, open, alerts, delivery, routeOn>>

----------------------------------------------------------------------------
(* Intents become deliveries *)

WithDeliveries(x) ==    \* get_or_create, for each live route
  [d \in Delivery |-> IF d[1] = x /\ routeOn[d[2]] /\ delivery[d] = NoDelivery
                      THEN PendingDelivery ELSE delivery[d]]

DropEvent(e) ==
  /\ ~alerts \/ e \notin open
  /\ event' = [event EXCEPT ![e] = "dropped"]
  /\ UNCHANGED <<spent, digestRow, delivery>>

(* Mutant: one too many.                                                   *)
QuotaPassed == spent[CurrentHour] > Quota

QuotaSpent == spent[CurrentHour] >= Quota

Spend ==
  /\ ~QuotaSpent
  /\ spent' = [spent EXCEPT ![CurrentHour] = @ + 1]
  /\ UNCHANGED digestRow

MailEvent(e) ==
  /\ alerts /\ e \in open /\ Spend
  /\ event' = [event EXCEPT ![e] = "mailed"]
  /\ delivery' = WithDeliveries(e)

(* Mutant: the digest of an hour is due before the hour has ended.         *)
DigestDueNow == mailClock

DigestDue == mailClock + 2

PutOff ==            \* one digest row for each hour; a done one stays done
  /\ QuotaSpent
  /\ digestRow' = [digestRow EXCEPT ![CurrentHour] = IF @ = RowDone THEN RowDone ELSE DigestDue]
  /\ UNCHANGED spent

DeferEvent(e) ==
  /\ alerts /\ e \in open /\ PutOff
  /\ event' = [event EXCEPT ![e] = "deferred"]
  /\ UNCHANGED delivery

prepare(e) ==
  /\ event[e] = "queued"
  /\ DropEvent(e) \/ MailEvent(e) \/ DeferEvent(e)
  /\ UNCHANGED <<mailWorld, sesVars, feedbackVars, routeOn>>

(* prepare, for an event of another finding under the same rule, whose own *)
(* deliveries are left out.                                                *)
PrepareAnother ==
  /\ alerts /\ (Spend \/ PutOff)
  /\ mailClock + 3 <= MaxMailTime      \* bound
  /\ UNCHANGED <<mailWorld, sesVars, feedbackVars, event, delivery, routeOn>>

digest(h) ==
  /\ digestRow[h] \in MailTime /\ digestRow[h] <= mailClock
  /\ digestRow' = [digestRow EXCEPT ![h] = RowDone]
  /\ delivery' = IF alerts THEN WithDeliveries(h) ELSE delivery
  /\ event' = [e \in DOMAIN event |-> IF event[e] = "deferred" THEN "digested" ELSE event[e]]
  /\ UNCHANGED <<mailWorld, sesVars, feedbackVars, spent, routeOn>>

----------------------------------------------------------------------------
(* deliver holds the row lock from its check to its commit. *)

Allowed(d) ==
  /\ routeOn[d[2]]
  /\ d[1] \in Event => alerts /\ d[1] \in open
  /\ d[1] \in Hour => alerts /\ open # {}

(* Mutant: whatever was sent already may be sent again.                    *)
UndeliveredAny(d) == delivery[d].status # "none"

Undelivered(d) == delivery[d].status \notin FinalStatus \union {"none"}

(* Mutant: what nobody may get any more is left as it is.                  *)
WithdrawnByOwner(d) == ~alerts

Withdrawn(d) == ~Allowed(d)

CancelMail(d) ==
  /\ Undelivered(d) /\ d \notin sending /\ Withdrawn(d)
  /\ delivery' = [delivery EXCEPT ![d].status = "cancelled"]
  /\ UNCHANGED <<mailWorld, intentVars, sesVars, feedbackVars, routeOn>>

SendMail(d) ==      \* checked, and accepted by SES
  /\ Undelivered(d) /\ d \notin sending /\ Allowed(d)
  /\ accepted[d] <= MaxMailCrashes         \* bound
  /\ accepted' = [accepted EXCEPT ![d] = @ + 1]
  /\ sending' = sending \union {d}
  /\ UNCHANGED <<mailWorld, intentVars, feedbackVars, delivery, routeOn, mailCrashes>>

CommitMail(d) ==
  /\ d \in sending
  /\ delivery' = [delivery EXCEPT ![d] = [status |-> "accepted", copy |-> accepted[d]]]
  /\ sending' = sending \ {d}
  /\ UNCHANGED <<mailWorld, intentVars, feedbackVars, accepted, routeOn, mailCrashes>>

MailCrash(d) ==
  /\ d \in sending /\ mailCrashes < MaxMailCrashes
  /\ sending' = sending \ {d}
  /\ mailCrashes' = mailCrashes + 1
  /\ UNCHANGED <<mailWorld, intentVars, feedbackVars, delivery, accepted, routeOn>>

----------------------------------------------------------------------------
(* Feedback *)

SesReports(d, c, kind) ==     \* also before the delivery commits
  /\ c \in 1 .. accepted[d] /\ <<d, c, kind>> \notin reported
  /\ Cardinality(reported) < MaxReports    \* bound
  /\ reported' = reported \union {<<d, c, kind>>}
  /\ feedbackQueue' = feedbackQueue \union {<<d, c, kind>>}
  /\ UNCHANGED <<mailWorld, intentVars, sesVars, delivery, routeOn>>

(* Mutant: feedback is applied before the row knows its message.           *)
MatchesAny(d, c) == TRUE

Matches(d, c) == delivery[d].copy = c
Applies(d, kind) == delivery[d].status \notin {"bounced", "complained"} \/ kind = "Complaint"

(* A message about a row that does not name its copy stays in the queue;   *)
(* one that is handled may come again.                                     *)
consume_feedback(d, c, kind) ==
  /\ <<d, c, kind>> \in feedbackQueue /\ Matches(d, c)
  /\ feedbackQueue' \in {feedbackQueue, feedbackQueue \ {<<d, c, kind>>}}
  /\ IF Applies(d, kind)
     THEN /\ delivery' = [delivery EXCEPT ![d].status = StatusOf(kind)]
          /\ routeOn' = [routeOn EXCEPT ![d[2]] = @ /\ kind = "Delivery"]
     ELSE UNCHANGED <<delivery, routeOn>>
  /\ UNCHANGED <<mailWorld, intentVars, sesVars, reported>>

(* Eight receives a minute apart outlast any commit under way: what is     *)
(* dead-lettered is about a copy that no row will ever name.               *)
DeadFeedback(d, c, kind) ==
  /\ <<d, c, kind>> \in feedbackQueue /\ ~Matches(d, c) /\ d \notin sending
  /\ feedbackQueue' = feedbackQueue \ {<<d, c, kind>>}
  /\ UNCHANGED <<mailWorld, intentVars, sesVars, delivery, routeOn, reported>>

MailNext ==
  \/ MailTick \/ organization_policy \/ PrepareAnother
  \/ \E e \in Event : RaiseEvent(e)
  \/ \E e \in Event : CloseFinding(e) \/ prepare(e)
  \/ \E r \in Route, on \in BOOLEAN : alert_route(r, on)
  \/ \E h \in Hour : digest(h)
  \/ \E d \in Delivery : CancelMail(d) \/ SendMail(d) \/ CommitMail(d) \/ MailCrash(d)
  \/ \E d \in Delivery, c \in MailCopy, kind \in SesReport :
       SesReports(d, c, kind) \/ consume_feedback(d, c, kind) \/ DeadFeedback(d, c, kind)

(* The scheduler dispatches what is due and the workers run (WorkQueue).   *)
MailFairness ==
  /\ WF_mailVars(MailTick)
  /\ \A e \in Event : WF_mailVars(prepare(e))
  /\ \A h \in Hour : WF_mailVars(digest(h))
  /\ \A d \in Delivery : WF_mailVars(CancelMail(d) \/ SendMail(d)) /\ WF_mailVars(CommitMail(d))
MailSpec == MailInit /\ [][MailNext]_mailVars /\ MailFairness

----------------------------------------------------------------------------
(* Properties *)

Repeats(d) == Max({0, accepted[d] - 1})

(* A message is accepted by SES a second time only after a crash between   *)
(* an acceptance and its commit (notifications.py:88-95, 163-167).         *)
RepeatsNeedACrash == MapThenSumSet(Repeats, Delivery) <= mailCrashes

(* An event put off by the quota is either followed by a digest or awaited *)
(* by one, in whatever hour it was put off (notifications.py:58-67).       *)
OverflowIsCovered ==
  \A e \in Event : event[e] = "deferred" => \E h \in Hour : digestRow[h] \notin {NoRow, RowDone}

(* What SES reports of the copy that a row names is not lost, also if the  *)
(* report outruns the commit: it waits, or the row says so and its route   *)
(* was switched off (notifications.py:189-204, runtime.py:346-357).        *)
ComplaintIsHeard ==
  \A m \in reported \ feedbackQueue :
    LET row == delivery[m[1]] IN
    row.copy = m[2] /\ m[3] # "Delivery" =>
      row.status \in {StatusOf(m[3]), "complained"}

(* Whoever is to be told is told, by a message of their own or a digest,   *)
(* unless they, or the owner, stopped it.                                  *)
EventuallyTold ==
  \A e \in Event :
    event[e] = "queued" ~> /\ event[e] \notin {"queued", "deferred"}
                          /\ \A d \in Delivery : ~Undelivered(d)
=============================================================================
