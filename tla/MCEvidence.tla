----------------------------- MODULE MCEvidence -----------------------------
(* Shops to look at, for TLC. *)
EXTENDS Evidence, TLC
CONSTANTS o1, o2, p1, p2

Eur(whole, digits) == [whole |-> whole, digits |-> digits, currency |-> "EUR"]
Isk(whole) == [whole |-> whole, digits |-> <<>>, currency |-> "ISK"]
Refs(a, b) == (o1 :> a) @@ (o2 :> b)
On(a, b) == (p1 :> a) @@ (p2 :> b)
Same(price) == [x \in Order \union Payment |-> price]
Created == {"created"} \X Payment
PaidFor == {"created", "succeeded"}

Policy(wait, freshness) ==
  [instant_grace |-> wait, async_grace |-> wait, refund_grace |-> wait,
   freshness |-> freshness, disabled_rules |-> {}]

Shop(refs, hint, store, price, events, given) ==
  [refs |-> refs, hint |-> hint, store |-> store, price |-> price,
   events |-> events \union given, given |-> given, policy |-> Policy(2, 2)]

(* A sale from beginning to end, in a legacy currency, with enough grace *)
(* for a shop that follows within Delay. *)
Sale == [Shop(Refs({p1}, {}), On(o1, NoHint), On(Store, NoHint), Same(Isk(5)),
              {<<"placed", o1>>, <<"paid", o1>>, <<"succeeded", p1>>}, {<<"created", p1>>})
         EXCEPT !.policy = Policy(3, 2)]
(* ... and one that is returned. *)
Return == [Sale EXCEPT !.given = @ \union Sale.events,
                       !.events = @ \union {<<"refunded", o1>>, <<"returned", p1>>}]
(* A sale that was paid twice; either payment, or both, are returned. *)
Twice == Shop(Refs({Charge(p1)}, {}), On(NoHint, o1), On(NoHint, Store), Same(Eur(12, <<9, 5>>)),
              {"returned"} \X Payment, (PaidFor \X Payment) \union {<<"placed", o1>>, <<"paid", o1>>})
(* ... or the shop also notes a refund after the first is returned. *)
TwiceNoted == [Twice EXCEPT !.given = @ \union {<<"returned", p1>>},
                            !.events = @ \union {<<"refunded", o1>>}]
(* ... or the first is returned before the order is placed, so that the     *)
(* duplicate is corrected while the order is in the window. *)
TwiceEarly == [Twice EXCEPT !.given = (PaidFor \X Payment) \union {<<"returned", p1>>},
                            !.events = (@ \ {<<"returned", p2>>}) \union {<<"refunded", o1>>}]
(* An order paid in two parts, which are returned. *)
Parts == [Twice EXCEPT !.price = [Same(Eur(5, <<>>)) EXCEPT ![p1] = Eur(2, <<>>), ![p2] = Eur(3, <<>>)],
                       !.given = @ \union {<<"returned", p1>>},
                       !.events = @ \union {<<"refunded", o1>>}]
(* A sale charged at another price. *)
Mispriced == Shop(Refs({p1}, {}), On(NoHint, NoHint), On(Store, NoHint),
                  [Same(Eur(13, <<>>)) EXCEPT ![p1] = Eur(12, <<9, 5>>)],
                  ({"paid", "refunded"} \X {o1}) \union {<<"returned", p1>>},
                  (PaidFor \X {p1}) \union {<<"placed", o1>>})
(* ... or in another currency, of the same exponent. *)
Exchanged == [Mispriced EXCEPT !.price[p1] = [Eur(13, <<>>) EXCEPT !.currency = "USD"],
                               !.given = @ \union {<<"paid", o1>>}]
(* Two orders that name the same payment. *)
Shared == Shop(Refs({p1}, {p1}), On(NoHint, NoHint), On(Store, NoHint), Same(Eur(1, <<5>>)),
               {<<"placed", o2>>, <<"paid", o1>>, <<"succeeded", p1>>},
               {<<"created", p1>>, <<"placed", o1>>})
(* ... and the second of which is named by another payment as well. *)
Taken == [Shared EXCEPT !.hint[p2] = o2, !.store[p2] = Store,
                        !.given = @ \union (PaidFor \X Payment),
                        !.events = @ \union (PaidFor \X Payment)]
(* An order that names nothing, an order that names a payment of another    *)
(* account, and a payment that names that order. *)
Stranger == Shop(Refs({}, {Charge(p2)}), On(o2, NoHint), On(Store, NoHint),
                 Same(Eur(1, <<5>>)),
                 {<<"placed", o2>>, <<"paid", o1>>, <<"succeeded", p1>>},
                 {<<"placed", o1>>, <<"created", p1>>})
(* An order that names two payments, one of them another shop's. *)
Torn == Shop(Refs({p1, p2}, {}), On(NoHint, o1), On(Other, Store), Same(Eur(1, <<5>>)),
             {"succeeded"} \X Payment, Created \union {<<"placed", o1>>})
(* A paid order that is changed again: a tick is two minutes here, and the *)
(* settings are the defaults, 10 minutes of grace and 15 of freshness.     *)
Disturbed == [Shop(Refs({p1}, {}), On(o1, NoHint), On(Store, NoHint), Same(Eur(1, <<5>>)),
                   {<<"refunded", o1>>}, (PaidFor \X {p1}) \union ({"placed", "paid"} \X {o1}))
              EXCEPT !.policy = Policy(5, 7)]
DisturbedShop == <<Disturbed>>
Shops == <<Sale, Return, Twice, TwiceNoted, TwiceEarly, Parts, Mispriced, Exchanged, Shared, Taken,
           Stranger, Torn>>
=============================================================================
