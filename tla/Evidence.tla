------------------------------ MODULE Evidence ------------------------------
(***************************************************************************)
(* What the engine is asked to judge.  A shop and a Stripe account live    *)
(* through events, each at a time; the server learns of them by looking at *)
(* single Stripe objects and by scans, which alone move a source's         *)
(* coverage; at any moment a run may evaluate the snapshot that            *)
(* build_snapshot() of findings/service.py makes of what is known.  The    *)
(* properties compare the evaluation with what happened.                   *)
(***************************************************************************)
EXTENDS Engine

CONSTANTS
  Order, Payment,
  Case,                    \* the shops looked at, a sequence, see CaseOK
  LastTime,                 \* bound on the clock
  Window,                  \* how far back a run looks
  Delay                    \* how long a healthy shop takes to follow, see Healthy

VARIABLES
  case,       \* which of them this is
  time,
  when,       \* when each event happened, or Never
  stamp,      \* the revision of the fact that first showed an event, or Never
  through,    \* covered_through of each side, or Missing
  complete,   \* the cursor's flag of each side
  link        \* StoreStripeLink.status, verified by an earlier order at first

evidenceVars == <<case, time, when, stamp, through, complete, link>>

shop == Case[case]
Store == "store"
Other == "other store"
Side == {"stripe", "woo"}
Time == 0 .. LastTime
Never == LastTime + 1

OrderEvent == {"placed", "paid", "refunded"}
PaymentEvent == {"created", "succeeded", "returned"}
Event == (OrderEvent \X Order) \union (PaymentEvent \X Payment)
SideOf(e) == IF e[1] \in OrderEvent THEN "woo" ELSE "stripe"
Charge(p) == <<"charge", p>>

(* refs: the payment or charge ids on the order; hint, store: the metadata *)
(* of the payment; price: what each side was asked for; events: what may   *)
(* happen here; given: what had happened before the clock starts; policy:  *)
(* the settings of the store.  Prices are positive and equal amounts are   *)
(* written alike; a payment that never occurs has no metadata.             *)
CaseOK(c) ==
  /\ c.refs \in [Order -> SUBSET (Payment \union {Charge(p) : p \in Payment})]
  /\ c.hint \in [Payment -> Order \union {NoHint}]
  /\ c.store \in [Payment -> {NoHint, Store, Other}]
  /\ DOMAIN c.price = Order \union Payment
  /\ LET amount(x) == parse_woo(c.price[x].whole, c.price[x].digits, c.price[x].currency) IN
     \A x, y \in Order \union Payment :
       /\ amount(x).minor \in Nat \ {0}
       /\ amount(x) = amount(y) => c.price[x] = c.price[y]
  /\ \A p \in Payment : <<"created", p>> \notin c.events => c.hint[p] = NoHint
  /\ {c.policy.instant_grace, c.policy.refund_grace, c.policy.freshness} \subseteq Nat
  /\ c.given \subseteq c.events /\ c.events \subseteq Event

ASSUME EvidenceAssumption ==
  /\ \A n \in DOMAIN Case : CaseOK(Case[n])
  /\ {LastTime, Window, Delay} \subseteq Nat
  /\ IsFiniteSet(Order) /\ IsFiniteSet(Payment) /\ Payment # {}
  /\ \A p \in Payment : Charge(p) \notin Payment
  /\ NoHint \notin Order

EvidenceTypeOK ==
  /\ case \in DOMAIN Case
  /\ time \in Time
  /\ when \in [Event -> Time \union {Never}]
  /\ \A e \in Event : stamp[e] \in when[e] .. time \union {Never}
  /\ through \in [Side -> Time \union {Missing}]
  /\ \A d \in Side : through[d] < time     \* no second that may still bring events
  /\ complete \in [Side -> BOOLEAN]
  /\ link \in {"verified", "conflict"}

----------------------------------------------------------------------------
(* The shop and Stripe *)

Happened(e) == when[e] <= time

StripeAmount(price) ==   \* the integer that Stripe reports
  parse_woo(price.whole, price.digits, price.currency).minor
    * (IF price.currency \in Legacy THEN 100 ELSE 1)

(* What a reference names: a payment, or the charge that made it succeed. *)
Exists(ref) ==
  \E p \in Payment : \/ ref = p /\ Happened(<<"created", p>>)
                     \/ ref = Charge(p) /\ Happened(<<"succeeded", p>>)
Foreign(ref) ==      \* of another account
  \A p \in Payment : ref \in {p, Charge(p)} => <<"created", p>> \notin shop.events

Follows(e) ==
  CASE e[1] = "placed" -> \A ref \in shop.refs[e[2]] : Exists(ref) \/ Foreign(ref)
    [] e[1] = "paid" -> Happened(<<"placed", e[2]>>)
    [] e[1] = "refunded" -> Happened(<<"paid", e[2]>>)
    [] e[1] = "succeeded" -> Happened(<<"created", e[2]>>)
    [] e[1] = "returned" -> Happened(<<"succeeded", e[2]>>)
    [] OTHER -> TRUE

EvidenceInit ==
  /\ case \in DOMAIN Case
  /\ time = 0
  /\ when = [e \in Event |-> IF e \in shop.given THEN 0 ELSE Never]
  /\ \A e \in shop.given : Follows(e)
  /\ stamp = [e \in Event |-> Never]
  /\ through = [d \in Side |-> Missing]
  /\ complete = [d \in Side |-> FALSE]
  /\ link = "verified"

Happens(e) ==
  /\ e \in shop.events /\ ~Happened(e) /\ Follows(e)
  /\ when' = [when EXCEPT ![e] = time]
  /\ UNCHANGED <<case, time, stamp, through, complete, link>>

EvidenceTick ==
  /\ time < LastTime
  /\ time' = time + 1
  /\ UNCHANGED <<case, when, stamp, through, complete, link>>

----------------------------------------------------------------------------
(* The server learns which of these events have happened.  The revision of *)
(* a Stripe fact is the time of the request, that of a Woo fact the        *)
(* order's own date_modified.                                              *)
Learned(events) ==
  [e \in Event |->
     IF stamp[e] # Never \/ e \notin events \/ ~Happened(e) THEN stamp[e]
     ELSE IF SideOf(e) = "stripe" THEN time ELSE when[e]]

PaymentEvents(p) == {<<"created", p>>, <<"succeeded", p>>}

(* fetch_resource: an object as it is now, and with it the payment it      *)
(* belongs to; no coverage.                                                *)
Fetch(object, p) ==
  /\ object = "refund" => Happened(<<"returned", p>>)
  /\ stamp' = Learned(PaymentEvents(p) \union
                        (IF object = "refund" THEN {<<"returned", p>>} ELSE {}))
  /\ stamp' # stamp
  /\ UNCHANGED <<case, time, when, through, complete, link>>

(* Mutant: coverage is claimed up to the moment of the scan.               *)
NoLag == 0

(* A scan leaves out the last seconds (120 in the shop, 30 for Stripe),    *)
(* whose facts may not be visible yet.                                     *)
Lag == 1

(* The last page of a scan up to b.  The facts of its earlier pages stand  *)
(* at once and in any order, so that all pages may be taken together.      *)
ScanEnds(d, b) ==
  /\ b + Lag <= time
  /\ through' = [through EXCEPT ![d] = Max({@, b})]
  /\ complete' = [complete EXCEPT ![d] = TRUE]
  /\ UNCHANGED <<case, time, when, link>>

(* Stripe lists what happened until b; each object is then fetched.  What  *)
(* the overlap shows once more is left to Fetch.                           *)
ScanStripe(b) ==
  LET New == {e \in PaymentEvent \X Payment : when[e] <= b /\ stamp[e] = Never} IN
  /\ ScanEnds("stripe", b) /\ time <= b + 1   \* bound: a scan is quick
  /\ stamp' = Learned(UNION {{e} \union PaymentEvents(e[2]) : e \in New})

(* The shop lists the orders by their last change, when the scan begins:   *)
(* one that was changed since b is left out, unless it is changed after    *)
(* the list is made.  Orders last changed before the scan's window were    *)
(* listed by an earlier one.                                               *)
Recent(b) == {o \in Order : \E kind \in OrderEvent : when[<<kind, o>>] \in b + 1 .. b + Lag}
ScanWoo(b, left) ==
  LET listed == {o \in Order \ left : when[<<"placed", o>>] <= b} IN
  /\ left \subseteq Recent(b)
  /\ ScanEnds("woo", b) /\ time <= b + 2      \* bound: a scan is quick
  /\ stamp' = Learned(OrderEvent \X listed)

(* The first page of a Woo scan, or a failed scan of either side *)
Withdraw(d) ==
  /\ \A x \in Side : through[x] # Missing => complete[x]    \* bound: one at a time
  /\ complete[d]
  /\ complete' = [complete EXCEPT ![d] = FALSE]
  /\ UNCHANGED <<case, time, when, stamp, through, link>>

Known(kind, x) == stamp[<<kind, x>>] # Never
WooPrice(x) == LET p == shop.price[x] IN parse_woo(p.whole, p.digits, p.currency)
StripePrice(x) == LET p == shop.price[x] IN parse_stripe(StripeAmount(p), p.currency)

(* verify_link compares one order, which the owner chooses, with what its  *)
(* references name at Stripe; the first that names nothing ends it.        *)
Naming(refs) == {p \in Payment : {p, Charge(p)} \cap refs # {}}
verify_link(o) ==
  /\ Known("placed", o) /\ shop.refs[o] # {}
  /\ \E refs \in SUBSET {ref \in shop.refs[o] : Exists(ref)} :
       /\ stamp' = Learned(UNION {PaymentEvents(p) : p \in Naming(refs)})
       /\ \/ /\ \E ref \in shop.refs[o] : ~Exists(ref)
             /\ link' = "conflict"
          \/ /\ refs = shop.refs[o]
             /\ link' = IF \E p \in Payment : Naming(refs) = {p} /\ StripePrice(p) = WooPrice(o)
                        THEN "verified" ELSE "conflict"
  /\ UNCHANGED <<case, time, when, through, complete>>

EvidenceNext ==
  \/ EvidenceTick
  \/ \E e \in Event : Happens(e)
  \/ \E object \in {"payment", "refund"}, p \in Payment : Fetch(object, p)
  \/ \E b \in Time : ScanStripe(b)
  \/ \E b \in Time, left \in SUBSET Order : ScanWoo(b, left)
  \/ \E d \in Side : Withdraw(d)
  \/ \E o \in Order : verify_link(o)

EvidenceSpec == EvidenceInit /\ [][EvidenceNext]_evidenceVars

----------------------------------------------------------------------------
(* build_snapshot *)

Revision(events) == Max({stamp[e] : e \in {x \in events : stamp[x] # Never}})

PaymentOf(p) ==
  [id |-> p, aliases |-> IF Known("succeeded", p) THEN {Charge(p)} ELSE {},
   status |-> IF Known("succeeded", p) THEN "succeeded" ELSE "requires_payment_method",
   received |-> StripePrice(p),
   created_at |-> when[<<"created", p>>],
   changed_at |-> Revision(PaymentEvents(p)),
   succeeded_at |-> IF Known("succeeded", p) THEN stamp[<<"succeeded", p>>] ELSE Missing,
   instant |-> TRUE, store_hint |-> shop.store[p], order_hint |-> shop.hint[p]]

OrderOf(o) ==
  [id |-> o, stripe |-> TRUE, refs |-> shop.refs[o],
   status |-> IF Known("refunded", o) THEN "refunded"
              ELSE IF Known("paid", o) THEN "processing" ELSE "pending",
   amount |-> WooPrice(o),
   refunded |-> IF Known("refunded", o) THEN WooPrice(o) ELSE Money(0, WooPrice(o).currency),
   created_at |-> when[<<"placed", o>>],
   changed_at |-> Revision(OrderEvent \X {o}),
   paid_at |-> IF Known("paid", o) THEN when[<<"paid", o>>] ELSE Missing]

StripeRefundOf(p) == [source |-> "stripe", parent |-> p, amount |-> StripePrice(p),
                      status |-> "succeeded", changed_at |-> stamp[<<"returned", p>>]]
WooRefundOf(o) == [source |-> "woo", parent |-> o, amount |-> WooPrice(o),
                   status |-> "recorded", changed_at |-> when[<<"refunded", o>>]]

CoverageOf(k) ==
  LET d == IF k \in {"woo_orders", "woo_refunds"} THEN "woo" ELSE "stripe" IN
  [covered_from |-> -Window, covered_through |-> through[d], observed_at |-> through[d] + 1,
   complete |-> complete[d], clock_offset |-> 0]
Covered == {k \in Required : IF k \in {"woo_orders", "woo_refunds"} THEN through["woo"] # Missing
                                                                ELSE through["stripe"] # Missing}

build_snapshot ==
  [store |-> Store, now |-> time, window_from |-> time - Window,
   payments |-> {PaymentOf(p) : p \in {x \in Payment : Known("created", x)}},
   orders |-> {OrderOf(o) : o \in {x \in Order : Known("placed", x)}},
   refunds |-> {StripeRefundOf(p) : p \in {x \in Payment : Known("returned", x)}}
               \union {WooRefundOf(o) : o \in {x \in Order : Known("refunded", x)}},
   coverage |-> [k \in Covered |-> CoverageOf(k)],
   link |-> link, ambiguous_order_hints |-> {},
   policy |-> shop.policy]

Evaluation == evaluate(build_snapshot)
Judges == Stale(build_snapshot) = {} /\ link = "verified"
(* No order may have been left out of the shop's scans, see ScanWoo. *)
Undisturbed == Recent(through["woo"]) = {}

----------------------------------------------------------------------------
(* What really disagrees at time b, in terms of events and prices.         *)

By(kind, x, b) == when[<<kind, x>>] <= b

Names(o) == {p \in Payment : {p, Charge(p)} \cap shop.refs[o] # {}}
Mine(o) == Names(o) \union {p \in Payment : shop.hint[p] = o /\ shop.store[p] \in {NoHint, Store}}

(* The references of o agree: docs/architecture.md:25, "Confirmed exact    *)
(* identifiers outrank metadata".                                          *)
Confirmed(o) ==
  /\ Cardinality(Names(o)) <= 1 /\ ~\E ref \in shop.refs[o] : Foreign(ref)
  /\ \A p \in Names(o) : shop.store[p] # Other /\ shop.hint[p] \in {NoHint, o}

(* Nothing that exists by b makes it doubtful which payments are o's.      *)
Clear(o, b) ==
  /\ Confirmed(o)
  /\ \A q \in Order \ {o} : By("placed", q, b) => Mine(o) \cap Mine(q) = {}
Payers(o, b) == {p \in Mine(o) : By("succeeded", p, b)}

(* Payments of o whose return in full was seen long enough ago; they       *)
(* correct a duplicate if they leave one payment.  docs/adr/013.md:12      *)
(* leaves open from when the grace counts: it is the refund's revision.    *)
Corrected(o, b) ==
  LET back == {p \in Payers(o, b) : stamp[<<"returned", p>>] + shop.policy.refund_grace <= b} IN
  IF Cardinality(Payers(o, b)) > 1 /\ Cardinality(Payers(o, b) \ back) = 1 THEN back ELSE {}
Returned(o, b) == {p \in Payers(o, b) \ Corrected(o, b) : By("returned", p, b)}
SamePrice(o, p) == shop.price[o] = shop.price[p]
Total(payments) == MapThenSumSet(LAMBDA p : WooPrice(p).minor, payments)
Abroad(o, b) == \E q \in Returned(o, b) : shop.price[q].currency # shop.price[o].currency

Disagrees(rule, o, p, b) ==
  /\ By("placed", o, b) /\ Clear(o, b)
  /\ CASE rule = "PI-001" -> p \in Payers(o, b) /\ ~By("paid", o, b)
       [] rule = "PI-003" -> By("paid", o, b) /\ ~By("refunded", o, b) /\ Payers(o, b) = {}
       [] rule = "PI-004" -> Cardinality(Payers(o, b)) > 1 /\ Corrected(o, b) = {}
       [] rule = "PI-005" -> p \in Payers(o, b) /\ ~SamePrice(o, p)
       [] rule = "PI-006" -> Returned(o, b) # {} /\ ~By("refunded", o, b) /\ ~Abroad(o, b)
       [] rule = "PI-007" -> Returned(o, b) = {} /\ By("refunded", o, b)
       [] rule = "PI-008" -> \/ Abroad(o, b)
                             \/ /\ Returned(o, b) # {} /\ By("refunded", o, b)
                                /\ Total(Returned(o, b)) # WooPrice(o).minor
       [] OTHER -> FALSE
(* No order names p, or is confirmed and named by p.                       *)
Orphan(p, b) ==
  /\ By("succeeded", p, b) /\ shop.store[p] = Store
  /\ \A o \in Order : By("placed", o, b) /\ p \in Mine(o) => p \notin Names(o) /\ ~Confirmed(o)

IdsOf(rule, o, p, b) ==
  CASE rule \in {"PI-001", "PI-005"} -> {<<"order", o>>, <<"payment", p>>}
    [] rule = "PI-004" -> {<<"order", o>>} \union
         {<<"payment", q>> : q \in {x \in Mine(o) : By("created", x, b)}}
    [] OTHER -> {<<"order", o>>}
Financial == {"PI-001", "PI-003", "PI-004", "PI-005", "PI-006", "PI-007", "PI-008"}
Real(rule, ids, b) ==
  \/ rule = "PI-002" /\ \E p \in Payment : ids = {<<"payment", p>>} /\ Orphan(p, b)
  \/ \E o \in Order, p \in Payment : ids = IdsOf(rule, o, p, b) /\ Disagrees(rule, o, p, b)

----------------------------------------------------------------------------
(* Properties *)

(* A financial finding is raised only for a disagreement that existed at   *)
(* the boundary which all four sources reach, whatever is known of the     *)
(* time after it (engine.py:99, 187, 203, 246, 303), unless an order was   *)
(* changed just before the shop's scan began.                              *)
RaisedIsReal ==
  LET snapshot == build_snapshot
      proposals == evaluate(snapshot).proposals
      b == Through(snapshot)
  IN Judges /\ Undisturbed => \A q \in proposals :
       q.rule \in Financial \union {"PI-002"} => Real(q.rule, q.ids, b)

(* No run counts as clean evidence against a finding whose disagreement    *)
(* exists at the boundary, unless an order was changed just before the     *)
(* shop's scan began (engine.py:131-133, 179-189, 246-248, 266-274, 304),  *)
(* or the payment of a PI-002 is claimed by a later order that is itself   *)
(* in doubt: such an order blocks no payment but the one in doubt (:176).  *)
CleanIsReal ==
  LET snapshot == build_snapshot
      result == evaluate(snapshot)
      b == Through(snapshot)
  IN Judges /\ Undisturbed => \A o \in Order, p \in Payment :
       /\ \A rule \in Financial :
            Disagrees(rule, o, p, b) => ~Clean(result, rule, IdsOf(rule, o, p, b))
       /\ Orphan(p, b) /\ (\A q \in Order : p \in Mine(q) => By("placed", q, b) \/ Clear(q, time))
            => ~Clean(result, "PI-002", {<<"payment", p>>})

(* An alert is raised only for a disagreement that exists at the boundary, *)
(* whichever orders the shop's scans leave out.  docs/adr/013.md:8: "A     *)
(* contiguous acknowledged final page proves coverage" (plugin.php:237-243,*)
(* where the list of a scan ends with its window).                         *)
AlertIsReal ==
  LET snapshot == build_snapshot
      proposals == evaluate(snapshot).proposals
  IN Judges => \A q \in proposals :
       q.ready /\ q.rule \in Financial \union {"PI-002"}
         => Real(q.rule, q.ids, Through(snapshot))

(* A shop that follows each payment, and each refund, within Delay is      *)
(* never alerted, although its facts arrive late by up to the freshness    *)
(* limit, as long as the two together fit into the grace (engine.py:228).  *)
Follow(e, f) == when[e] = Never \/ when[f] <= when[e] + Delay \/ time <= when[e] + Delay
HealthySale(o, p) ==
  /\ Mine(o) = {p} /\ Clear(o, time) /\ SamePrice(o, p)
  /\ Follow(<<"succeeded", p>>, <<"placed", o>>) /\ Follow(<<"succeeded", p>>, <<"paid", o>>)
  /\ Follow(<<"paid", o>>, <<"succeeded", p>>)
  /\ Follow(<<"returned", p>>, <<"refunded", o>>) /\ Follow(<<"refunded", o>>, <<"returned", p>>)
Healthy ==
  /\ \A o \in Order : ~By("placed", o, time) \/ \E p \in Payment : HealthySale(o, p)
  /\ \A p \in Payment : ~By("succeeded", p, time) \/ \E o \in Order : HealthySale(o, p)
FitsGrace == Delay + shop.policy.freshness
               <= Min({shop.policy.instant_grace, shop.policy.refund_grace})
HealthyIsSilent ==
  FitsGrace /\ Healthy /\ Undisturbed =>
    \A q \in Evaluation.proposals : q.ready => q.rule \in {"PI-009", "PI-010"}

(* No evaluation counts as clean evidence against an identifier conflict   *)
(* that it would report if the store's link were verified                  *)
(* (engine.py:92-97 lists PI-010 as looked at and blocks no identity).     *)
AmbiguousIsNotClean ==
  \A o \in Conflicting(build_snapshot) :
    Stale(build_snapshot) = {} => ~Clean(Evaluation, "PI-010", ConflictIds(build_snapshot, o))
=============================================================================
