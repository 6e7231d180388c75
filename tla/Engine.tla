------------------------------- MODULE Engine -------------------------------
(***************************************************************************)
(* The rule engine of packages/reconciliation_core: what evaluate() says   *)
(* of one snapshot.  Objects are records, identifiers and hints members of *)
(* small sets, an identity is a pair <<kind, id>>.  The engine walks over  *)
(* sorted lists; no order of the walk changes its result, so that each     *)
(* rule is the set of its proposals here.  Left out: risk, confidence and  *)
(* evidence, which say how a finding looks, and the candidates of PI-003,  *)
(* which the code calls suggestions only.                                  *)
(***************************************************************************)
EXTENDS Integers, FiniteSets, FiniteSetsExt

Required == {"stripe_payments", "stripe_refunds", "woo_orders", "woo_refunds"}
Rules == {"PI-001", "PI-002", "PI-003", "PI-004", "PI-005", "PI-006",
          "PI-007", "PI-008", "PI-009", "PI-010"}
PAID == {"processing", "completed"}
UNPAID == {"pending", "failed", "cancelled", "on-hold"}
NoHint == "no_hint"
Missing == -1

----------------------------------------------------------------------------
(* Money.  The shop writes a decimal, as its whole part and its digits;    *)
(* Stripe writes an integer, and the two legacy currencies a hundredfold.  *)

Exponent(currency) == CASE currency \in {"JPY", "ISK", "UGX"} -> 0
                        [] currency = "KWD" -> 3
                        [] OTHER -> 2
Legacy == {"ISK", "UGX"}
Money(minor, currency) == [minor |-> minor, currency |-> currency]

parse_woo(whole, digits, currency) ==
  LET e == Exponent(currency) IN
  Money(whole * 10^e + MapThenSumSet(LAMBDA i : digits[i] * 10^(e - i), DOMAIN digits),
        currency)

parse_stripe(value, currency) ==
  Money(IF currency \in Legacy THEN value \div 100 ELSE value, currency)

----------------------------------------------------------------------------
(* Coverage *)

fresh(c, s) ==
  /\ c.complete
  /\ c.covered_from <= s.window_from
  /\ s.window_from <= c.covered_through
  /\ c.covered_through <= s.now
  /\ s.now - c.covered_through <= s.policy.freshness
  /\ s.now - c.observed_at \in 0 .. s.policy.freshness
  /\ c.clock_offset \in -300 .. 300

Stale(s) == {k \in Required : k \notin DOMAIN s.coverage \/ ~fresh(s.coverage[k], s)}
Through(s) == Min({s.coverage[k].covered_through : k \in Required})

----------------------------------------------------------------------------
(* Matching *)

OrderId(o) == <<"order", o.id>>
PaymentId(p) == <<"payment", p.id>>
StoreId(s) == <<"store", s.store>>

Targets(s, ref) == {p \in s.payments : ref \in {p.id} \union p.aliases}
Resolved(s, o) == UNION {Targets(s, ref) : ref \in o.refs}
Hints(s, o) == {p \in s.payments : p.order_hint = o.id /\ p.store_hint \in {NoHint, s.store}}
Group(s, o) == Resolved(s, o) \union Hints(s, o)

Conflict(s, o) ==
  \/ Cardinality(Resolved(s, o)) > 1
  \/ \E ref \in o.refs : Targets(s, ref) = {}
  \/ o.id \in s.ambiguous_order_hints /\ Hints(s, o) # {}
  \/ \E p \in Resolved(s, o) : \/ p.store_hint \notin {NoHint, s.store}
                               \/ p.order_hint \notin {NoHint, o.id}
Conflicting(s) == {o \in s.orders : o.stripe /\ Conflict(s, o)}
Matched(s) == {o \in s.orders : o.stripe /\ ~Conflict(s, o)}
Claimants(s, p) == {o \in Matched(s) : p \in Group(s, o)}
Contested(s) == {p \in s.payments : Cardinality(Claimants(s, p)) > 1}

ConflictIds(s, o) == {OrderId(o)} \union {PaymentId(p) : p \in Resolved(s, o)}
ContestIds(s, p) == {PaymentId(p)} \union {OrderId(o) : o \in Claimants(s, p)}
GroupIds(s, o) == {OrderId(o)} \union {PaymentId(p) : p \in Group(s, o)}

(* Identities whose matching is ambiguous. *)
Doubtful(s) == UNION ({ConflictIds(s, o) : o \in Conflicting(s)}
                      \union {ContestIds(s, p) : p \in Contested(s)})

(* Matched orders that are not judged: in doubt, or out of the window, or  *)
(* with facts later than all four sources reach.                           *)
Blocks(s, o) == GroupIds(s, o) \cap Doubtful(s) # {} \/ o.created_at < s.window_from

(* Mutant: facts beyond the boundary are judged as they are.               *)
HeldInWindow(s) == {o \in Matched(s) : Blocks(s, o)}

Held(s) == {o \in Matched(s) :
              \/ Blocks(s, o)
              \/ \E x \in {o} \union Group(s, o) : x.changed_at > Through(s)}
Decided(s) == Matched(s) \ Held(s)

----------------------------------------------------------------------------
(* Judgement of one order and its group.  Each rule is a set of records    *)
(* [rule, ids, eligible].                                                  *)

Says(rule, ids, eligible) == {[rule |-> rule, ids |-> ids, eligible |-> eligible]}

grace(p, s) == IF p.instant THEN s.policy.instant_grace ELSE s.policy.async_grace
SucceededAt(p) == IF p.succeeded_at = Missing THEN p.changed_at ELSE p.succeeded_at
(* Mutant: no time is given to a shop to follow a payment.                 *)
DueAtOnce(p, s) == SucceededAt(p)

Due(p, s) == SucceededAt(p) + grace(p, s)
Succeeded(s, o) == {p \in Group(s, o) : p.status = "succeeded"}

Sum(refunds) == MapThenSumSet(LAMBDA r : r.amount.minor, refunds)
RefundsOf(s, p) == {r \in s.refunds : /\ r.source = "stripe" /\ r.parent = p.id
                                      /\ r.status = "succeeded"}

(* A duplicate whose whole amount was returned, long enough ago. *)
compensated(s, o) ==
  {p \in Succeeded(s, o) : LET rs == RefundsOf(s, p) IN
     /\ rs # {} /\ p.received.minor > 0
     /\ \A r \in rs : r.amount.currency = p.received.currency
     /\ Sum(rs) = p.received.minor
     /\ \A r \in rs : r.changed_at + s.policy.refund_grace <= Min({s.now, Through(s)})}
corrected_duplicate(s, o) ==
  /\ Cardinality(Succeeded(s, o)) > 1
  /\ Cardinality(Succeeded(s, o) \ compensated(s, o)) = 1

PI001(s, o) == UNION {Says("PI-001", {OrderId(o), PaymentId(p)}, Due(p, s)) :
                        p \in {q \in Succeeded(s, o) : o.status \in UNPAID}}
PI003(s, o) ==
  IF Succeeded(s, o) = {} /\ o.status \in PAID
  THEN Says("PI-003", {OrderId(o)},
            (IF o.paid_at = Missing THEN o.changed_at ELSE o.paid_at) + s.policy.instant_grace)
  ELSE {}
PI004(s, o) ==
  IF Cardinality(Succeeded(s, o)) > 1 /\ ~corrected_duplicate(s, o)
  THEN Says("PI-004", GroupIds(s, o), Max({Due(p, s) : p \in Succeeded(s, o)}))
  ELSE {}
PI005(s, o) == UNION {Says("PI-005", {OrderId(o), PaymentId(p)}, Due(p, s)) :
                        p \in {q \in Succeeded(s, o) : q.received # o.amount}}

StripeRefunds(s, o) ==
  UNION {RefundsOf(s, p) : p \in Group(s, o) \ (IF corrected_duplicate(s, o)
                                                THEN compensated(s, o) ELSE {})}
WooRefunds(s, o) == {r \in s.refunds : r.source = "woo" /\ r.parent = o.id}
OrderRefunds(s, o) == StripeRefunds(s, o) \union WooRefunds(s, o)

LateRefund(s, o) == \E r \in OrderRefunds(s, o) : r.changed_at > Through(s)
OtherCurrency(s, o) == \E r \in OrderRefunds(s, o) : r.amount.currency # o.amount.currency
Implausible(s, o) ==
  \/ o.refunded.minor > o.amount.minor
  \/ \E p \in Succeeded(s, o) : Sum(StripeRefunds(s, o) \cap RefundsOf(s, p)) > p.received.minor
  \/ WooRefunds(s, o) # {} /\ Sum(WooRefunds(s, o)) # o.refunded.minor

(* After the conclusions on payments, refunds may still hold the order back. *)
RefundsHeld(s, o) == LateRefund(s, o) \/ (~OtherCurrency(s, o) /\ Implausible(s, o))

RefundRules(s, o) ==
  LET sr == Sum(StripeRefunds(s, o))
      wr == o.refunded.minor
      times == {r.changed_at : r \in OrderRefunds(s, o)}
      eligible == s.policy.refund_grace
        + Max({IF wr > 0 \/ o.status = "refunded" THEN o.changed_at ELSE s.window_from} \union times)
  IN IF RefundsHeld(s, o) THEN {}
     ELSE IF OtherCurrency(s, o)
     THEN Says("PI-008", {OrderId(o)}, s.policy.refund_grace + Max({o.changed_at} \union times))
     ELSE CASE sr > 0 /\ wr = 0 -> Says("PI-006", {OrderId(o)}, eligible)
            [] sr = 0 /\ (wr > 0 \/ o.status = "refunded") -> Says("PI-007", {OrderId(o)}, eligible)
            [] sr > 0 /\ wr > 0 /\ sr # wr -> Says("PI-008", {OrderId(o)}, eligible)
            [] OTHER -> {}

----------------------------------------------------------------------------
(* Payments that no order claims. *)

Unclaimed(s) == {p \in s.payments : /\ Claimants(s, p) = {}
                                    /\ PaymentId(p) \notin Doubtful(s)
                                    /\ p.status = "succeeded"}
OutOfReach(s) == {p \in Unclaimed(s) : p.changed_at > Through(s) \/ p.created_at < s.window_from}
PI002(s) == UNION {Says("PI-002", {PaymentId(p)}, Due(p, s)) :
                     p \in {q \in Unclaimed(s) \ OutOfReach(s) : q.store_hint = s.store}}

PI010(s) ==
  UNION ({Says("PI-010", ConflictIds(s, o), s.now) : o \in Conflicting(s)}
         \union {Says("PI-010", ContestIds(s, p), s.now) : p \in Contested(s)})

----------------------------------------------------------------------------
(* The identities an evaluation refuses to speak of.                       *)

(* Mutant: an order whose refunds are held back still counts as looked at. *)
BlockedIdsByMatching(s) ==
  Doubtful(s)
    \union (UNION {GroupIds(s, o) : o \in {x \in Held(s) : OrderId(x) \notin Doubtful(s)}})
    \union {PaymentId(p) : p \in OutOfReach(s)}

BlockedIds(s) ==
  Doubtful(s)
    \union (UNION {GroupIds(s, o) : o \in {x \in Held(s) : OrderId(x) \notin Doubtful(s)}})
    \union {OrderId(o) : o \in {x \in Decided(s) : RefundsHeld(s, x)}}
    \union {PaymentId(p) : p \in OutOfReach(s)}

(* The evaluation: proposals (of enabled rules), the rules it looked at,   *)
(* and the identities it refuses to speak of.                              *)

Result(s, proposals, rules, blocked) ==
  LET enabled == Rules \ s.policy.disabled_rules IN
  [proposals |-> {[rule |-> q.rule, ids |-> q.ids, eligible |-> q.eligible,
                   ready |-> s.now >= q.eligible] : q \in {r \in proposals : r.rule \in enabled}},
   rules |-> rules \cap enabled, blocked |-> blocked]

evaluate(s) ==
  CASE Stale(s) # {} ->
         Result(s, Says("PI-009", {StoreId(s)}, s.now), {"PI-009"}, {})
    [] Stale(s) = {} /\ s.link # "verified" ->
         Result(s, IF s.link = "conflict" THEN Says("PI-010", {StoreId(s)}, s.now) ELSE {},
                {"PI-009", "PI-010"}, {})
    [] OTHER ->
         Result(s, PI010(s) \union PI002(s)
                   \union UNION {UNION {PI001(s, o), PI003(s, o), PI004(s, o), PI005(s, o),
                                        RefundRules(s, o)} : o \in Decided(s)},
                Rules, BlockedIds(s))

(* How reconcile() reads the absence of a proposal: as a clean evaluation  *)
(* of a finding, unless its rule was not looked at or one of its           *)
(* identities is blocked.                                                  *)
Clean(result, rule, ids) ==
  /\ \A q \in result.proposals : <<q.rule, q.ids>> # <<rule, ids>>
  /\ rule \in result.rules
  /\ ids \cap result.blocked = {}
=============================================================================
