--------------------------- MODULE EvidenceProofs ---------------------------
(***************************************************************************)
(* Proofs about Evidence: what is known is true and what coverage promises *)
(* is known; hence a run judges an order as it stood at the boundary, it   *)
(* raises nothing that did not disagree there, it is clean evidence        *)
(* against nothing that did, and it alerts no healthy shop.  They hold for *)
(* any orders, payments, prices, settings and bounds.                      *)
(***************************************************************************)
EXTENDS Evidence, Sums, TLAPS

(* Nothing happens out of order, after the clock, or in another shop.      *)
InOrder ==
  /\ \A e \in Event : when[e] = Never \/ (when[e] <= time /\ e \in shop.events)
  /\ \A o \in Order : /\ when[<<"placed", o>>] <= when[<<"paid", o>>]
                      /\ when[<<"paid", o>>] <= when[<<"refunded", o>>]
  /\ \A p \in Payment : /\ when[<<"created", p>>] <= when[<<"succeeded", p>>]
                        /\ when[<<"succeeded", p>>] <= when[<<"returned", p>>]

(* An order names what existed when it was placed, or another account's.   *)
NamesExisted ==
  \A o \in Order : \A ref \in shop.refs[o] :
    \/ Foreign(ref)
    \/ \E p \in Payment : \/ ref = p /\ when[<<"created", p>>] <= when[<<"placed", o>>]
                          \/ ref = Charge(p) /\ when[<<"succeeded", p>>] <= when[<<"placed", o>>]

(* What coverage promises: all that happened until then is known.          *)
StripeIsKnown ==
  \A e \in PaymentEvent \X Payment : when[e] <= through["stripe"] => stamp[e] # Never
ShopIsKnown ==
  /\ \A e \in OrderEvent \X Order : stamp[e] \in {when[e], Never}
  /\ Undisturbed => \A e \in OrderEvent \X Order :
                      when[e] <= through["woo"] => stamp[e] # Never

EvidenceInv == EvidenceTypeOK /\ InOrder /\ NamesExisted /\ StripeIsKnown /\ ShopIsKnown

----------------------------------------------------------------------------
(* The shop, its events, and what learning does to what is known. *)

LEMMA ShopIsOK == ASSUME case \in DOMAIN Case PROVE CaseOK(shop)
  BY EvidenceAssumption DEF shop

LEMMA Bounds == LastTime \in Nat /\ Window \in Nat /\ Never \in Nat /\ LastTime < Never
  BY EvidenceAssumption DEF Never

LEMMA Kinds ==
  /\ \A k \in OrderEvent, o \in Order : <<k, o>> \in Event /\ <<k, o>> \in OrderEvent \X Order
  /\ \A k \in PaymentEvent, p \in Payment :
       <<k, p>> \in Event /\ <<k, p>> \in PaymentEvent \X Payment
  /\ \A e \in OrderEvent \X Order : e \in Event /\ SideOf(e) = "woo"
  /\ \A e \in PaymentEvent \X Payment : e \in Event /\ SideOf(e) = "stripe"
<1>1. \A e \in PaymentEvent \X Payment : e[1] \notin OrderEvent
  BY DEF PaymentEvent, OrderEvent
<1>. QED  BY <1>1 DEF Event, SideOf

LEMMA MaxOfTwo ==
  ASSUME NEW a \in Int, NEW b \in Int
  PROVE  Max({a, b}) = IF a >= b THEN a ELSE b
<1>1. \A x \in {a, b} : (\A y \in {a, b} : x >= y) <=> x = (IF a >= b THEN a ELSE b)
  OBVIOUS
<1>. QED  BY <1>1 DEF Max

LEMMA LearnedIs ==
  ASSUME NEW events, NEW e \in Event
  PROVE  Learned(events)[e] = IF stamp[e] # Never \/ e \notin events \/ ~Happened(e) THEN stamp[e]
                              ELSE IF SideOf(e) = "stripe" THEN time ELSE when[e]
  BY DEF Learned

(* To learn forgets nothing, and shows what has happened. *)
LEMMA Learning ==
  ASSUME EvidenceInv, NEW events, stamp' = Learned(events),
         UNCHANGED <<case, time, when>>
  PROVE  /\ InOrder' /\ NamesExisted'
         /\ \A e \in Event : stamp'[e] \in when[e] .. time \union {Never}
         /\ \A e \in OrderEvent \X Order : stamp'[e] \in {when[e], Never}
         /\ \A e \in Event : stamp[e] # Never => stamp'[e] # Never
         /\ \A e \in Event : e \in events /\ when[e] <= time => stamp'[e] # Never
<1>. USE Bounds
<1>1. InOrder' /\ NamesExisted'
  BY DEF EvidenceInv, InOrder, NamesExisted, Foreign, shop
<1>2. ASSUME NEW e \in Event
      PROVE  /\ stamp'[e] \in when[e] .. time \union {Never}
             /\ stamp[e] # Never => stamp'[e] # Never
             /\ e \in events /\ when[e] <= time => stamp'[e] # Never
  <2>1. /\ time \in Time /\ when[e] \in Time \union {Never}
        /\ stamp[e] \in when[e] .. time \union {Never}
    BY DEF EvidenceInv, EvidenceTypeOK
  <2>2. stamp'[e] = IF stamp[e] # Never \/ e \notin events \/ ~(when[e] <= time) THEN stamp[e]
                    ELSE IF SideOf(e) = "stripe" THEN time ELSE when[e]
    BY LearnedIs DEF Happened
  <2>. QED  BY <2>1, <2>2 DEF Time
<1>3. ASSUME NEW e \in OrderEvent \X Order PROVE stamp'[e] \in {when[e], Never}
  <2>1. e \in Event /\ SideOf(e) = "woo"
    BY Kinds
  <2>2. stamp[e] \in {when[e], Never}
    BY DEF EvidenceInv, ShopIsKnown
  <2>. QED  BY <2>1, <2>2, LearnedIs
<1>. QED  BY <1>1, <1>2, <1>3

----------------------------------------------------------------------------
(* The invariant. *)

LEMMA InitEvidence == ASSUME EvidenceInit PROVE EvidenceInv
<1>. USE Bounds
<1>1. /\ case \in DOMAIN Case /\ time = 0 /\ link = "verified"
      /\ when = [e \in Event |-> IF e \in shop.given THEN 0 ELSE Never]
      /\ \A e \in shop.given : Follows(e)
      /\ stamp = [e \in Event |-> Never]
      /\ through = [d \in Side |-> Missing] /\ complete = [d \in Side |-> FALSE]
  BY DEF EvidenceInit
<1>2. CaseOK(shop)
  BY <1>1, ShopIsOK
<1>3. \A e \in Event : Happened(e) <=> e \in shop.given
  BY <1>1 DEF Happened
<1>4. EvidenceTypeOK
  <2>1. when \in [Event -> Time \union {Never}]
    BY <1>1 DEF Time
  <2>2. \A d \in Side : through[d] = -1
    BY <1>1 DEF Missing
  <2>. QED  BY <1>1, <2>1, <2>2 DEF EvidenceTypeOK, Time, Missing
<1>5. InOrder
  <2>1. \A e \in Event : when[e] = Never \/ (when[e] <= time /\ e \in shop.events)
    BY <1>1, <1>2 DEF CaseOK
  <2>2. ASSUME NEW o \in Order
        PROVE  /\ when[<<"placed", o>>] <= when[<<"paid", o>>]
               /\ when[<<"paid", o>>] <= when[<<"refunded", o>>]
    <3>1. /\ <<"placed", o>> \in Event /\ <<"paid", o>> \in Event /\ <<"refunded", o>> \in Event
      BY Kinds DEF OrderEvent
    <3>2. /\ <<"paid", o>> \in shop.given => <<"placed", o>> \in shop.given
          /\ <<"refunded", o>> \in shop.given => <<"paid", o>> \in shop.given
      BY <1>1, <1>3, <3>1 DEF Follows
    <3>. QED  BY <1>1, <3>1, <3>2
  <2>3. ASSUME NEW p \in Payment
        PROVE  /\ when[<<"created", p>>] <= when[<<"succeeded", p>>]
               /\ when[<<"succeeded", p>>] <= when[<<"returned", p>>]
    <3>1. /\ <<"created", p>> \in Event /\ <<"succeeded", p>> \in Event
          /\ <<"returned", p>> \in Event
      BY Kinds DEF PaymentEvent
    <3>2. /\ <<"succeeded", p>> \in shop.given => <<"created", p>> \in shop.given
          /\ <<"returned", p>> \in shop.given => <<"succeeded", p>> \in shop.given
      BY <1>1, <1>3, <3>1 DEF Follows
    <3>. QED  BY <1>1, <3>1, <3>2
  <2>. QED  BY <2>1, <2>2, <2>3 DEF InOrder
<1>6. NamesExisted
  <2>. SUFFICES ASSUME NEW o \in Order, NEW ref \in shop.refs[o], ~Foreign(ref)
                PROVE  \E p \in Payment :
                         \/ ref = p /\ when[<<"created", p>>] <= when[<<"placed", o>>]
                         \/ ref = Charge(p) /\ when[<<"succeeded", p>>] <= when[<<"placed", o>>]
    BY DEF NamesExisted
  <2>1. <<"placed", o>> \in Event
    BY Kinds DEF OrderEvent
  <2>2. ASSUME NEW p \in Payment
        PROVE  <<"created", p>> \in Event /\ <<"succeeded", p>> \in Event
    BY Kinds DEF PaymentEvent
  <2>3. CASE <<"placed", o>> \in shop.given
    <3>1. Exists(ref)
      BY <1>1, <2>3 DEF Follows
    <3>. QED  BY <3>1, <1>1, <1>3, <2>1, <2>2, <2>3 DEF Exists
  <2>4. CASE <<"placed", o>> \notin shop.given
    <3>1. ref \in Payment \union {Charge(p) : p \in Payment}
      BY <1>2 DEF CaseOK
    <3>. QED  BY <3>1, <1>1, <2>1, <2>2, <2>4
  <2>. QED  BY <2>3, <2>4
<1>7. StripeIsKnown /\ ShopIsKnown
  <2>1. \A e \in Event : 0 <= when[e]
    BY <1>1
  <2>2. through["woo"] = -1 /\ through["stripe"] = -1
    BY <1>1 DEF Side, Missing
  <2>. QED  BY <1>1, <2>1, <2>2, Kinds DEF StripeIsKnown, ShopIsKnown
<1>. QED  BY <1>4, <1>5, <1>6, <1>7 DEF EvidenceInv

(* Time passes: nothing is covered, and nothing happens, ahead of it. *)
LEMMA TickEvidence == ASSUME EvidenceInv, EvidenceTick PROVE EvidenceInv'
<1>. USE Bounds
<1>1. /\ time < LastTime /\ time' = time + 1
      /\ UNCHANGED <<case, when, stamp, through, complete, link>>
  BY DEF EvidenceTick
<1>2. EvidenceTypeOK
  BY DEF EvidenceInv
<1>3. EvidenceTypeOK'
  <2>1. time \in 0 .. LastTime /\ time' \in 0 .. LastTime
    BY <1>1, <1>2 DEF EvidenceTypeOK, Time
  <2>2. ASSUME NEW e \in Event PROVE stamp'[e] \in when'[e] .. time' \union {Never}
    <3>1. stamp[e] \in when[e] .. time \union {Never} /\ when[e] \in Time \union {Never}
      BY <1>2 DEF EvidenceTypeOK
    <3>. QED  BY <1>1, <2>1, <3>1 DEF Time
  <2>3. ASSUME NEW d \in Side PROVE through'[d] < time'
    <3>1. through[d] < time /\ through[d] \in Time \union {Missing}
      BY <1>2 DEF EvidenceTypeOK
    <3>. QED  BY <1>1, <2>1, <3>1 DEF Time, Missing
  <2>. QED  BY <1>1, <1>2, <2>1, <2>2, <2>3 DEF EvidenceTypeOK, Time
<1>4. InOrder'
  <2>1. \A e \in Event : when[e] \in Int
    BY <1>2 DEF EvidenceTypeOK, Time
  <2>2. time \in Int
    BY <1>2 DEF EvidenceTypeOK, Time
  <2>. QED  BY <1>1, <2>1, <2>2 DEF EvidenceInv, InOrder, shop
<1>5. NamesExisted' /\ StripeIsKnown' /\ ShopIsKnown'
  BY <1>1 DEF EvidenceInv, NamesExisted, Foreign, shop, StripeIsKnown, ShopIsKnown, Undisturbed,
              Recent
<1>. QED  BY <1>3, <1>4, <1>5 DEF EvidenceInv

(* Something happens now: after all that is covered, and after what it     *)
(* follows.                                                                *)
LEMMA HappensEvidence == ASSUME EvidenceInv, NEW e \in Event, Happens(e) PROVE EvidenceInv'
<1>. USE Bounds
<1>1. /\ e \in shop.events /\ ~(when[e] <= time) /\ Follows(e)
      /\ when' = [when EXCEPT ![e] = time]
      /\ UNCHANGED <<case, time, stamp, through, complete, link>>
  BY DEF Happens, Happened
<1>2. EvidenceTypeOK /\ InOrder /\ NamesExisted /\ StripeIsKnown /\ ShopIsKnown
  BY DEF EvidenceInv
<1>3. /\ time \in 0 .. LastTime /\ when \in [Event -> Time \union {Never}]
      /\ when[e] = Never /\ \A x \in Event : when[x] \in Int /\ when[x] \in 0 .. time \union {Never}
  BY <1>1, <1>2 DEF EvidenceTypeOK, InOrder, Time
<1>4. /\ when'[e] = time
      /\ \A x \in Event : x # e => when'[x] = when[x]
      /\ \A x \in Event : when'[x] \in Int /\ when'[x] <= when[x]
  BY <1>1, <1>3
<1>5. stamp[e] = Never
  <2>1. stamp[e] \in when[e] .. time \union {Never}
    BY <1>2 DEF EvidenceTypeOK
  <2>. QED  BY <1>3, <2>1
<1>6. \A d \in Side : through[d] \in Int /\ through[d] < time
  BY <1>2, <1>3 DEF EvidenceTypeOK, Time, Missing
<1>7. EvidenceTypeOK'
  <2>1. ASSUME NEW x \in Event PROVE stamp'[x] \in when'[x] .. time' \union {Never}
    <3>1. stamp[x] \in when[x] .. time \union {Never}
      BY <1>2 DEF EvidenceTypeOK
    <3>. QED  BY <1>1, <1>4, <1>5, <3>1
  <2>2. when' \in [Event -> Time \union {Never}]
    BY <1>1, <1>3 DEF Time
  <2>. QED  BY <1>1, <1>2, <2>1, <2>2 DEF EvidenceTypeOK, Time
<1>8. InOrder'
  <2>1. \A x \in Event : when'[x] = Never \/ (when'[x] <= time /\ x \in shop.events)
    BY <1>1, <1>2, <1>3, <1>4 DEF InOrder
  <2>2. ASSUME NEW o \in Order
        PROVE  /\ when'[<<"placed", o>>] <= when'[<<"paid", o>>]
               /\ when'[<<"paid", o>>] <= when'[<<"refunded", o>>]
    <3>1. /\ <<"placed", o>> \in Event /\ <<"paid", o>> \in Event /\ <<"refunded", o>> \in Event
      BY Kinds DEF OrderEvent
    <3>2. /\ when[<<"placed", o>>] <= when[<<"paid", o>>]
          /\ when[<<"paid", o>>] <= when[<<"refunded", o>>]
      BY <1>2 DEF InOrder
    <3>3. /\ e = <<"paid", o>> => when[<<"placed", o>>] <= time
          /\ e = <<"refunded", o>> => when[<<"paid", o>>] <= time
      BY <1>1 DEF Follows, Happened
    <3>. QED  BY <1>3, <1>4, <3>1, <3>2, <3>3
  <2>3. ASSUME NEW p \in Payment
        PROVE  /\ when'[<<"created", p>>] <= when'[<<"succeeded", p>>]
               /\ when'[<<"succeeded", p>>] <= when'[<<"returned", p>>]
    <3>1. /\ <<"created", p>> \in Event /\ <<"succeeded", p>> \in Event
          /\ <<"returned", p>> \in Event
      BY Kinds DEF PaymentEvent
    <3>2. /\ when[<<"created", p>>] <= when[<<"succeeded", p>>]
          /\ when[<<"succeeded", p>>] <= when[<<"returned", p>>]
      BY <1>2 DEF InOrder
    <3>3. /\ e = <<"succeeded", p>> => when[<<"created", p>>] <= time
          /\ e = <<"returned", p>> => when[<<"succeeded", p>>] <= time
      BY <1>1 DEF Follows, Happened
    <3>. QED  BY <1>3, <1>4, <3>1, <3>2, <3>3
  <2>. QED  BY <1>1, <2>1, <2>2, <2>3 DEF InOrder, shop
<1>9. NamesExisted'
  <2>. SUFFICES ASSUME NEW o \in Order, NEW ref \in shop.refs[o], ~Foreign(ref)
                PROVE  \E p \in Payment :
                         \/ ref = p /\ when'[<<"created", p>>] <= when'[<<"placed", o>>]
                         \/ ref = Charge(p) /\ when'[<<"succeeded", p>>] <= when'[<<"placed", o>>]
    BY <1>1 DEF NamesExisted, Foreign, shop
  <2>1. <<"placed", o>> \in Event
    BY Kinds DEF OrderEvent
  <2>2. ASSUME NEW p \in Payment
        PROVE  <<"created", p>> \in Event /\ <<"succeeded", p>> \in Event
               /\ <<"created", p>> # <<"placed", o>> /\ <<"succeeded", p>> # <<"placed", o>>
    BY Kinds DEF PaymentEvent
  <2>3. CASE e = <<"placed", o>>
    <3>1. Exists(ref)
      BY <1>1, <2>3 DEF Follows
    <3>2. PICK p \in Payment : \/ ref = p /\ when[<<"created", p>>] <= time
                               \/ ref = Charge(p) /\ when[<<"succeeded", p>>] <= time
      BY <3>1 DEF Exists, Happened
    <3>. QED  BY <3>2, <1>4, <2>2, <2>3
  <2>4. CASE e # <<"placed", o>>
    <3>1. PICK p \in Payment :
            \/ ref = p /\ when[<<"created", p>>] <= when[<<"placed", o>>]
            \/ ref = Charge(p) /\ when[<<"succeeded", p>>] <= when[<<"placed", o>>]
      BY <1>2 DEF NamesExisted
    <3>2. when'[<<"placed", o>>] = when[<<"placed", o>>]
      BY <1>4, <2>1, <2>4
    <3>3. /\ when'[<<"created", p>>] <= when[<<"created", p>>]
          /\ when'[<<"succeeded", p>>] <= when[<<"succeeded", p>>]
          /\ when'[<<"created", p>>] \in Int /\ when'[<<"succeeded", p>>] \in Int
          /\ when[<<"created", p>>] \in Int /\ when[<<"succeeded", p>>] \in Int
          /\ when[<<"placed", o>>] \in Int
      BY <1>3, <1>4, <2>1, <2>2
    <3>4. \/ ref = p /\ when'[<<"created", p>>] <= when'[<<"placed", o>>]
          \/ ref = Charge(p) /\ when'[<<"succeeded", p>>] <= when'[<<"placed", o>>]
      BY <3>1, <3>2, <3>3
    <3>. QED  BY <3>4
  <2>. QED  BY <2>3, <2>4
<1>10. StripeIsKnown'
  <2>1. through["stripe"] \in Int /\ through["stripe"] < time
    BY <1>6 DEF Side
  <2>. QED  BY <1>1, <1>2, <1>3, <1>4, <2>1, Kinds DEF StripeIsKnown
<1>11. ShopIsKnown'
  <2>1. through["woo"] \in Int /\ through["woo"] < time
    BY <1>6 DEF Side
  <2>2. \A x \in OrderEvent \X Order : stamp'[x] \in {when'[x], Never}
    BY <1>1, <1>2, <1>4, <1>5, Kinds DEF ShopIsKnown
  <2>3. Undisturbed' => Undisturbed
    <3>1. ASSUME NEW o \in Order, NEW kind \in OrderEvent,
                 when[<<kind, o>>] \in through["woo"] + 1 .. through["woo"] + Lag
          PROVE  when'[<<kind, o>>] \in through["woo"] + 1 .. through["woo"] + Lag
      <4>1. <<kind, o>> \in Event
        BY Kinds
      <4>. QED  BY <3>1, <4>1, <2>1, <1>3, <1>4 DEF Lag
    <3>. QED  BY <1>1, <3>1 DEF Undisturbed, Recent
  <2>4. ASSUME Undisturbed', NEW x \in OrderEvent \X Order, when'[x] <= through'["woo"]
        PROVE  stamp'[x] # Never
    <3>1. x \in Event
      BY Kinds
    <3>2. x # e
      BY <1>1, <1>4, <2>1, <2>4, <1>3
    <3>. QED  BY <1>1, <1>2, <1>4, <2>3, <2>4, <3>1, <3>2 DEF ShopIsKnown
  <2>. QED  BY <2>2, <2>4 DEF ShopIsKnown
<1>. QED  BY <1>7, <1>8, <1>9, <1>10, <1>11 DEF EvidenceInv

(* To look at single objects moves no coverage. *)
LEMMA LookingInv ==
  ASSUME EvidenceInv, NEW events, stamp' = Learned(events), link' \in {"verified", "conflict"},
         UNCHANGED <<case, time, when, through, complete>>
  PROVE  EvidenceInv'
<1>1. /\ InOrder' /\ NamesExisted'
      /\ \A e \in Event : stamp'[e] \in when[e] .. time \union {Never}
      /\ \A e \in OrderEvent \X Order : stamp'[e] \in {when[e], Never}
      /\ \A e \in Event : stamp[e] # Never => stamp'[e] # Never
  BY Learning
<1>2. EvidenceTypeOK'
  BY <1>1 DEF EvidenceInv, EvidenceTypeOK
<1>3. StripeIsKnown' /\ ShopIsKnown'
  BY <1>1, Kinds DEF EvidenceInv, StripeIsKnown, ShopIsKnown, Undisturbed, Recent
<1>. QED  BY <1>1, <1>2, <1>3 DEF EvidenceInv

LEMMA FetchInv ==
  ASSUME EvidenceInv, NEW object, NEW p \in Payment, Fetch(object, p) PROVE EvidenceInv'
<1>1. /\ stamp' = Learned(PaymentEvents(p) \union
                            (IF object = "refund" THEN {<<"returned", p>>} ELSE {}))
      /\ UNCHANGED <<case, time, when, through, complete, link>>
  BY DEF Fetch
<1>2. link' \in {"verified", "conflict"}
  BY <1>1 DEF EvidenceInv, EvidenceTypeOK
<1>. QED  BY <1>1, <1>2, LookingInv

LEMMA VerifyInv == ASSUME EvidenceInv, NEW o \in Order, verify_link(o) PROVE EvidenceInv'
<1>1. PICK refs \in SUBSET {ref \in shop.refs[o] : Exists(ref)} :
        /\ stamp' = Learned(UNION {PaymentEvents(p) : p \in Naming(refs)})
        /\ link' \in {"verified", "conflict"}
  BY DEF verify_link
<1>2. UNCHANGED <<case, time, when, through, complete>>
  BY DEF verify_link
<1>. QED  BY <1>1, <1>2, LookingInv

LEMMA WithdrawInv == ASSUME EvidenceInv, NEW d \in Side, Withdraw(d) PROVE EvidenceInv'
<1>1. /\ complete' = [complete EXCEPT ![d] = FALSE]
      /\ UNCHANGED <<case, time, when, stamp, through, link>>
  BY DEF Withdraw
<1>2. EvidenceTypeOK'
  BY <1>1 DEF EvidenceInv, EvidenceTypeOK
<1>3. InOrder' /\ NamesExisted' /\ StripeIsKnown' /\ ShopIsKnown'
  BY <1>1 DEF EvidenceInv, InOrder, NamesExisted, Foreign, shop, StripeIsKnown, ShopIsKnown,
              Undisturbed, Recent
<1>. QED  BY <1>2, <1>3 DEF EvidenceInv

(* What both scans do: coverage moves to b at most, and never back. *)
LEMMA ScanEndsIs ==
  ASSUME EvidenceInv, NEW d \in Side, NEW b \in Time, ScanEnds(d, b)
  PROVE  /\ b < time
         /\ UNCHANGED <<case, time, when, link>>
         /\ \A x \in Side : x # d => through'[x] = through[x]
         /\ through'[d] = (IF through[d] >= b THEN through[d] ELSE b)
         /\ through' \in [Side -> Time \union {Missing}]
         /\ \A x \in Side : through'[x] < time
         /\ complete' \in [Side -> BOOLEAN]
<1>. USE Bounds
<1>1. /\ b + Lag <= time
      /\ through' = [through EXCEPT ![d] = Max({through[d], b})]
      /\ complete' = [complete EXCEPT ![d] = TRUE]
      /\ UNCHANGED <<case, time, when, link>>
  BY DEF ScanEnds
<1>2. /\ through \in [Side -> Time \union {Missing}] /\ complete \in [Side -> BOOLEAN]
      /\ \A x \in Side : through[x] < time
      /\ time \in Int
  BY DEF EvidenceInv, EvidenceTypeOK, Time
<1>3. b \in Int /\ through[d] \in Int
  BY <1>2 DEF Time, Missing
<1>4. b < time
  BY <1>1, <1>2, <1>3 DEF Lag
<1>5. Max({through[d], b}) = IF through[d] >= b THEN through[d] ELSE b
  BY <1>3, MaxOfTwo
<1>6. through'[d] = (IF through[d] >= b THEN through[d] ELSE b)
  BY <1>1, <1>2, <1>5
<1>7. \A x \in Side : x # d => through'[x] = through[x]
  BY <1>1, <1>2
<1>8. through' \in [Side -> Time \union {Missing}]
  BY <1>1, <1>2, <1>5
<1>. QED  BY <1>1, <1>2, <1>4, <1>6, <1>7, <1>8

LEMMA ScanStripeInv ==
  ASSUME EvidenceInv, NEW b \in Time, ScanStripe(b) PROVE EvidenceInv'
<1>. USE Bounds
<1>. DEFINE New == {e \in PaymentEvent \X Payment : when[e] <= b /\ stamp[e] = Never}
            events == UNION {{e} \union PaymentEvents(e[2]) : e \in New}
<1>1. ScanEnds("stripe", b) /\ stamp' = Learned(events)
  BY DEF ScanStripe
<1>. HIDE DEF events
<1>2. /\ b < time
      /\ UNCHANGED <<case, time, when, link>>
      /\ through'["woo"] = through["woo"]
      /\ through'["stripe"] = (IF through["stripe"] >= b THEN through["stripe"] ELSE b)
      /\ through' \in [Side -> Time \union {Missing}]
      /\ \A x \in Side : through'[x] < time
      /\ complete' \in [Side -> BOOLEAN]
  BY <1>1, ScanEndsIs DEF Side
<1>3. /\ InOrder' /\ NamesExisted'
      /\ \A e \in Event : stamp'[e] \in when[e] .. time \union {Never}
      /\ \A e \in OrderEvent \X Order : stamp'[e] \in {when[e], Never}
      /\ \A e \in Event : stamp[e] # Never => stamp'[e] # Never
      /\ \A e \in Event : e \in events /\ when[e] <= time => stamp'[e] # Never
  BY <1>1, <1>2, Learning
<1>4. EvidenceTypeOK'
  BY <1>2, <1>3 DEF EvidenceInv, EvidenceTypeOK
<1>5. StripeIsKnown'
  <2>. SUFFICES ASSUME NEW e \in PaymentEvent \X Payment, when[e] <= through'["stripe"]
                PROVE  stamp'[e] # Never
    BY <1>2 DEF StripeIsKnown
  <2>1. e \in Event
    BY Kinds
  <2>2. CASE stamp[e] # Never
    BY <1>3, <2>1, <2>2
  <2>3. CASE stamp[e] = Never
    <3>1. ~(when[e] <= through["stripe"])
      BY <2>3 DEF EvidenceInv, StripeIsKnown
    <3>2. when[e] <= b
      BY <1>2, <3>1
    <3>3. e \in events
      BY <2>3, <3>2 DEF events
    <3>4. when[e] \in Int /\ time \in Int /\ b \in Int
      BY <2>1 DEF EvidenceInv, EvidenceTypeOK, Time
    <3>. QED  BY <1>2, <1>3, <2>1, <3>2, <3>3, <3>4
  <2>. QED  BY <2>2, <2>3
<1>6. ShopIsKnown'
  BY <1>2, <1>3, Kinds DEF EvidenceInv, ShopIsKnown, Undisturbed, Recent
<1>. QED  BY <1>3, <1>4, <1>5, <1>6 DEF EvidenceInv

(* A scan of the shop may leave out an order that was changed just before  *)
(* it; where there is none, it shows every order that was placed by b.     *)
LEMMA ScanWooInv ==
  ASSUME EvidenceInv, NEW b \in Time, NEW left \in SUBSET Order, ScanWoo(b, left)
  PROVE  EvidenceInv'
<1>. USE Bounds
<1>. DEFINE listed == {o \in Order \ left : when[<<"placed", o>>] <= b}
            events == OrderEvent \X listed
<1>1. left \subseteq Recent(b) /\ ScanEnds("woo", b) /\ stamp' = Learned(events)
  BY DEF ScanWoo
<1>. HIDE DEF events
<1>2. /\ b < time
      /\ UNCHANGED <<case, time, when, link>>
      /\ through'["stripe"] = through["stripe"]
      /\ through'["woo"] = (IF through["woo"] >= b THEN through["woo"] ELSE b)
      /\ through' \in [Side -> Time \union {Missing}]
      /\ \A x \in Side : through'[x] < time
      /\ complete' \in [Side -> BOOLEAN]
  BY <1>1, ScanEndsIs DEF Side
<1>3. /\ InOrder' /\ NamesExisted'
      /\ \A e \in Event : stamp'[e] \in when[e] .. time \union {Never}
      /\ \A e \in OrderEvent \X Order : stamp'[e] \in {when[e], Never}
      /\ \A e \in Event : stamp[e] # Never => stamp'[e] # Never
      /\ \A e \in Event : e \in events /\ when[e] <= time => stamp'[e] # Never
  BY <1>1, <1>2, Learning
<1>4. EvidenceTypeOK'
  BY <1>2, <1>3 DEF EvidenceInv, EvidenceTypeOK
<1>5. StripeIsKnown'
  BY <1>2, <1>3, Kinds DEF EvidenceInv, StripeIsKnown
<1>6. ASSUME Undisturbed', NEW e \in OrderEvent \X Order, when[e] <= through'["woo"]
      PROVE  stamp'[e] # Never
  <2>1. e \in Event
    BY Kinds
  <2>2. CASE through["woo"] >= b
    <3>1. through'["woo"] = through["woo"] /\ Undisturbed
      BY <1>2, <1>6, <2>2 DEF Undisturbed, Recent
    <3>2. stamp[e] # Never
      BY <1>6, <3>1 DEF EvidenceInv, ShopIsKnown
    <3>. QED  BY <1>3, <2>1, <3>2
  <2>3. CASE ~(through["woo"] >= b)
    <3>1. through'["woo"] = b /\ Recent(b) = {} /\ left = {}
      BY <1>1, <1>2, <1>6, <2>3 DEF Undisturbed, Recent
    <3>2. PICK kind \in OrderEvent, o \in Order : e = <<kind, o>>
      OBVIOUS
    <3>3. /\ <<"placed", o>> \in Event /\ <<"paid", o>> \in Event /\ <<"refunded", o>> \in Event
      BY Kinds DEF OrderEvent
    <3>4. /\ when[<<"placed", o>>] <= when[<<"paid", o>>]
          /\ when[<<"paid", o>>] <= when[<<"refunded", o>>]
      BY DEF EvidenceInv, InOrder
    <3>5. \A x \in Event : when[x] \in Int
      BY DEF EvidenceInv, EvidenceTypeOK, Time
    <3>6. when[<<"placed", o>>] <= when[e]
      BY <3>2, <3>3, <3>4, <3>5 DEF OrderEvent
    <3>7. time \in Int /\ b \in Int
      BY DEF EvidenceInv, EvidenceTypeOK, Time
    <3>8. when[<<"placed", o>>] <= b /\ when[e] <= time
      BY <1>2, <1>6, <2>1, <3>1, <3>3, <3>5, <3>6, <3>7
    <3>9. e \in events
      BY <3>1, <3>2, <3>8 DEF events
    <3>. QED  BY <1>3, <2>1, <3>8, <3>9
  <2>. QED  BY <2>2, <2>3
<1>7. ShopIsKnown'
  BY <1>2, <1>3, <1>6 DEF ShopIsKnown
<1>. QED  BY <1>3, <1>4, <1>5, <1>7 DEF EvidenceInv

(* Coverage promises knowledge: what happened until a side's boundary is   *)
(* known, whatever was fetched, scanned or withdrawn since                 *)
(* (ingestion/service.py:189-192, 235-238).                                *)
THEOREM EvidenceInvariant == EvidenceSpec => []EvidenceInv
<1>1. EvidenceInit => EvidenceInv
  BY InitEvidence
<1>2. EvidenceInv /\ [EvidenceNext]_evidenceVars => EvidenceInv'
  <2>. SUFFICES ASSUME EvidenceInv, [EvidenceNext]_evidenceVars PROVE EvidenceInv'
    OBVIOUS
  <2>1. ASSUME EvidenceTick PROVE EvidenceInv'
    BY <2>1, TickEvidence
  <2>2. ASSUME NEW e \in Event, Happens(e) PROVE EvidenceInv'
    BY <2>2, HappensEvidence
  <2>3. ASSUME NEW object \in {"payment", "refund"}, NEW p \in Payment, Fetch(object, p)
        PROVE  EvidenceInv'
    BY <2>3, FetchInv
  <2>4. ASSUME NEW b \in Time, ScanStripe(b) PROVE EvidenceInv'
    BY <2>4, ScanStripeInv
  <2>5. ASSUME NEW b \in Time, NEW left \in SUBSET Order, ScanWoo(b, left) PROVE EvidenceInv'
    BY <2>5, ScanWooInv
  <2>6. ASSUME NEW d \in Side, Withdraw(d) PROVE EvidenceInv'
    BY <2>6, WithdrawInv
  <2>7. ASSUME NEW o \in Order, verify_link(o) PROVE EvidenceInv'
    BY <2>7, VerifyInv
  <2>8. CASE UNCHANGED evidenceVars
    BY <2>8 DEF evidenceVars, EvidenceInv, EvidenceTypeOK, InOrder, NamesExisted, Foreign, shop,
                StripeIsKnown, ShopIsKnown, Undisturbed, Recent
  <2>. QED  BY <2>1, <2>2, <2>3, <2>4, <2>5, <2>6, <2>7, <2>8 DEF EvidenceNext
<1>. QED  BY <1>1, <1>2, PTL DEF EvidenceSpec

(* The clock, the events and what is known of them keep their range: no    *)
(* fact is known before it happens, no coverage runs ahead of the clock.   *)
THEOREM EvidenceTypes == EvidenceSpec => []EvidenceTypeOK
<1>1. EvidenceInv => EvidenceTypeOK
  BY DEF EvidenceInv
<1>. QED  BY <1>1, EvidenceInvariant, PTL

----------------------------------------------------------------------------
(* Extremes, and the sums of Engine and of the properties.                 *)

LEMMA MaxIs ==
  ASSUME NEW S \in SUBSET Int, NEW N \in Int, \A x \in S : x <= N, S # {}
  PROVE  Max(S) \in S /\ \A x \in S : x <= Max(S)
<1>. DEFINE T == {N - x : x \in S}
<1>1. T \in SUBSET Nat /\ T # {}
  <2>1. \A x \in S : N - x \in Nat
    OBVIOUS
  <2>. QED  BY <2>1
<1>2. PICK n \in T : \A m \in T : n <= m
  BY <1>1, LeastOf
<1>3. PICK y \in S : n = N - y
  BY <1>2
<1>4. ASSUME NEW x \in S PROVE y >= x
  <2>1. N - x \in T
    OBVIOUS
  <2>2. N - y <= N - x
    BY <1>2, <1>3, <2>1
  <2>3. x \in Int /\ y \in Int
    OBVIOUS
  <2>. HIDE DEF T
  <2>. QED  BY <2>2, <2>3
<1>. QED  BY <1>4 DEF Max

LEMMA MinOfTwo ==
  ASSUME NEW a \in Int, NEW b \in Int
  PROVE  Min({a, b}) = IF a <= b THEN a ELSE b
<1>1. \A x \in {a, b} : (\A y \in {a, b} : x =< y) <=> x = (IF a <= b THEN a ELSE b)
  OBVIOUS
<1>. QED  BY <1>1 DEF Min

LEMMA MoreThanOne ==
  ASSUME NEW S, IsFiniteSet(S)
  PROVE  Cardinality(S) > 1 <=> \E x, y \in S : x # y
<1>1. Cardinality(S) \in Nat
  BY FS_CardinalityType
<1>2. ASSUME NEW x \in S, NEW y \in S, x # y PROVE Cardinality(S) > 1
  <2>1. Cardinality(S) # 0
    BY <1>2, FS_EmptySet
  <2>2. Cardinality(S) # 1
    BY <1>2, FS_Singleton
  <2>. QED  BY <1>1, <2>1, <2>2
<1>3. ASSUME \A x, y \in S : x = y PROVE ~(Cardinality(S) > 1)
  <2>1. CASE S = {}
    BY <2>1, FS_EmptySet
  <2>2. CASE S # {}
    <3>1. PICK x \in S : S = {x}
      BY <1>3, <2>2
    <3>2. Cardinality({x}) = 1
      BY FS_Singleton
    <3>. QED  BY <3>1, <3>2
  <2>. QED  BY <2>1, <2>2
<1>. QED  BY <1>2, <1>3

LEMMA SumFolds ==
  ASSUME NEW S, IsFiniteSet(S)
  PROVE  \E f : Folding(f, S, [r \in S |-> r.amount.minor]) /\ Sum(S) = f[S]
<1>. DEFINE w == [r \in S |-> r.amount.minor]
            Raw(f) == f = [t \in SUBSET S |-> IF t = {} THEN 0
                             ELSE (CHOOSE x \in t : TRUE).amount.minor
                                    + f[t \ {CHOOSE x \in t : TRUE}]]
<1>1. Sum(S) = (CHOOSE f : Raw(f))[S]
  BY DEF Sum, MapThenSumSet, MapThenFoldSet
<1>2. ASSUME NEW t \in SUBSET S, t # {} PROVE w[Pick(t)] = (CHOOSE x \in t : TRUE).amount.minor
  <2>1. Pick(t) \in S
    BY <1>2, PickIs
  <2>. QED  BY <2>1 DEF Pick
<1>. HIDE DEF w
<1>3. ASSUME NEW f PROVE Folding(f, S, w) <=> Raw(f)
  <2>1. ASSUME NEW t \in SUBSET S
        PROVE  (IF t = {} THEN 0 ELSE w[Pick(t)] + f[t \ {Pick(t)}])
                 = IF t = {} THEN 0 ELSE (CHOOSE x \in t : TRUE).amount.minor
                                           + f[t \ {CHOOSE x \in t : TRUE}]
    BY <1>2 DEF Pick
  <2>. QED  BY <2>1 DEF Folding
<1>. HIDE DEF Raw
<1>4. \E f : Raw(f)
  <2>1. PICK f : Folding(f, S, w)
    BY FoldingExists
  <2>. QED  BY <1>3, <2>1
<1>. QED  BY <1>1, <1>3, <1>4 DEF w

LEMMA TotalFolds ==
  ASSUME NEW S, IsFiniteSet(S)
  PROVE  \E f : Folding(f, S, [p \in S |-> WooPrice(p).minor]) /\ Total(S) = f[S]
<1>. DEFINE w == [p \in S |-> WooPrice(p).minor]
            Raw(f) == f = [t \in SUBSET S |-> IF t = {} THEN 0
                             ELSE WooPrice(CHOOSE x \in t : TRUE).minor
                                    + f[t \ {CHOOSE x \in t : TRUE}]]
<1>1. Total(S) = (CHOOSE f : Raw(f))[S]
  BY DEF Total, MapThenSumSet, MapThenFoldSet
<1>2. ASSUME NEW t \in SUBSET S, t # {}
      PROVE  w[Pick(t)] = WooPrice(CHOOSE x \in t : TRUE).minor
  <2>1. Pick(t) \in S
    BY <1>2, PickIs
  <2>2. w[Pick(t)] = WooPrice(Pick(t)).minor
    BY <2>1
  <2>. QED  BY <2>2, Zenon DEF Pick
<1>. HIDE DEF w
<1>3. ASSUME NEW f PROVE Folding(f, S, w) <=> Raw(f)
  <2>1. ASSUME NEW t \in SUBSET S
        PROVE  (IF t = {} THEN 0 ELSE w[Pick(t)] + f[t \ {Pick(t)}])
                 = IF t = {} THEN 0 ELSE WooPrice(CHOOSE x \in t : TRUE).minor
                                           + f[t \ {CHOOSE x \in t : TRUE}]
    <3>1. CASE t = {}
      BY <3>1
    <3>2. CASE t # {}
      <4>1. w[Pick(t)] = WooPrice(CHOOSE x \in t : TRUE).minor
        BY <1>2, <3>2
      <4>. QED  BY <3>2, <4>1, Zenon DEF Pick
    <3>. QED  BY <3>1, <3>2
  <2>. QED  BY <2>1, Zenon DEF Folding
<1>. HIDE DEF Raw
<1>4. \E f : Raw(f)
  <2>1. PICK f : Folding(f, S, w)
    BY FoldingExists
  <2>. QED  BY <1>3, <2>1
<1>. QED  BY <1>1, <1>3, <1>4 DEF w

(* A sum of positive amounts. *)
LEMMA SumOf ==
  ASSUME NEW S, IsFiniteSet(S), \A r \in S : r.amount.minor \in Nat \ {0}
  PROVE  /\ Sum(S) \in Nat
         /\ Sum(S) = 0 <=> S = {}
         /\ \A r : S = {r} => Sum(S) = r.amount.minor
<1>. DEFINE w == [r \in S |-> r.amount.minor]
<1>1. PICK f : Folding(f, S, w) /\ Sum(S) = f[S]
  BY SumFolds
<1>2. w \in [S -> Nat] /\ \A r \in S : w[r] = r.amount.minor
  OBVIOUS
<1>. HIDE DEF w
<1>3. /\ f[{}] = 0
      /\ \A t \in SUBSET S : f[t] \in Nat /\ \A x \in t : f[t] = w[x] + f[t \ {x}]
  <2>1. Folding(f, S, w)
    BY <1>1 DEF w
  <2>. QED  BY <1>2, <2>1, FoldingStep DEF AddsUp
<1>4. ASSUME NEW x \in S PROVE f[S] # 0
  <2>1. f[S] = w[x] + f[S \ {x}] /\ f[S \ {x}] \in Nat /\ w[x] \in Nat \ {0}
    BY <1>2, <1>3
  <2>. QED  BY <2>1
<1>5. ASSUME NEW r, S = {r} PROVE f[S] = r.amount.minor
  <2>1. S \ {r} = {} /\ r \in S
    BY <1>5
  <2>2. f[S] = w[r] + f[S \ {r}] /\ w[r] \in Nat
    BY <1>2, <1>3, <2>1
  <2>. QED  BY <1>2, <1>3, <2>1, <2>2
<1>. QED  BY <1>1, <1>3, <1>4, <1>5

LEMMA TotalOfOne ==
  ASSUME NEW p, WooPrice(p).minor \in Nat
  PROVE  Total({p}) = WooPrice(p).minor
<1>. DEFINE w == [x \in {p} |-> WooPrice(x).minor]
<1>1. IsFiniteSet({p}) /\ w \in [{p} -> Nat] /\ w[p] = WooPrice(p).minor
  BY FS_Singleton
<1>. HIDE DEF w
<1>2. PICK f : Folding(f, {p}, w) /\ Total({p}) = f[{p}]
  BY <1>1, TotalFolds DEF w
<1>3. AddsUp(f, {p}, w)
  BY <1>1, <1>2, FoldingStep
<1>4. f[{}] = 0 /\ f[{p}] = w[p] + f[{p} \ {p}] /\ {p} \ {p} = {}
  BY <1>3 DEF AddsUp
<1>. QED  BY <1>1, <1>2, <1>4

----------------------------------------------------------------------------
(* The records of the snapshot, read back as orders and payments; s is the *)
(* snapshot, as the engine's operators call it.                            *)

s == build_snapshot
Boundary == Through(build_snapshot)

LEMMA SnapshotIs ==
  /\ s.payments = {PaymentOf(p) : p \in {x \in Payment : Known("created", x)}}
  /\ s.orders = {OrderOf(o) : o \in {x \in Order : Known("placed", x)}}
  /\ s.refunds = {StripeRefundOf(p) : p \in {x \in Payment : Known("returned", x)}}
                 \union {WooRefundOf(o) : o \in {x \in Order : Known("refunded", x)}}
  /\ s.coverage = [k \in Covered |-> CoverageOf(k)]
  /\ s.store = Store /\ s.now = time /\ s.window_from = time - Window
  /\ s.link = link /\ s.policy = shop.policy
  /\ s.ambiguous_order_hints = {}
  BY DEF s, build_snapshot

LEMMA PaymentIs ==
  ASSUME NEW p \in Payment
  PROVE  /\ PaymentOf(p).id = p
         /\ PaymentOf(p).aliases = IF Known("succeeded", p) THEN {Charge(p)} ELSE {}
         /\ PaymentOf(p).status = IF Known("succeeded", p) THEN "succeeded"
                                  ELSE "requires_payment_method"
         /\ PaymentOf(p).received = StripePrice(p)
         /\ PaymentOf(p).changed_at = Revision(PaymentEvents(p))
         /\ PaymentOf(p).succeeded_at = (IF Known("succeeded", p) THEN stamp[<<"succeeded", p>>]
                                         ELSE Missing)
         /\ PaymentOf(p).instant = TRUE
         /\ PaymentOf(p).store_hint = shop.store[p]
         /\ PaymentOf(p).order_hint = shop.hint[p]
  BY Zenon DEF PaymentOf

LEMMA OrderIs ==
  ASSUME NEW o \in Order
  PROVE  /\ OrderOf(o).id = o /\ OrderOf(o).stripe = TRUE /\ OrderOf(o).refs = shop.refs[o]
         /\ OrderOf(o).status = IF Known("refunded", o) THEN "refunded"
                                ELSE IF Known("paid", o) THEN "processing" ELSE "pending"
         /\ OrderOf(o).amount = WooPrice(o)
         /\ OrderOf(o).refunded = IF Known("refunded", o) THEN WooPrice(o)
                                  ELSE Money(0, WooPrice(o).currency)
         /\ OrderOf(o).changed_at = Revision(OrderEvent \X {o})
         /\ OrderOf(o).paid_at = (IF Known("paid", o) THEN when[<<"paid", o>>] ELSE Missing)
  BY Zenon DEF OrderOf

LEMMA SamePayment ==
  ASSUME NEW p \in Payment, NEW q \in Payment, PaymentOf(p) = PaymentOf(q)
  PROVE  p = q
<1>1. PaymentOf(p).id = p /\ PaymentOf(q).id = q
  BY PaymentIs
<1>. QED  BY <1>1

(* The records of some payments are as many as these. *)
LEMMA AsMany ==
  ASSUME NEW S \in SUBSET Payment
  PROVE  /\ IsFiniteSet(S) /\ IsFiniteSet({PaymentOf(p) : p \in S})
         /\ Cardinality({PaymentOf(p) : p \in S}) = Cardinality(S)
<1>. DEFINE T == {PaymentOf(p) : p \in S}
            f == [p \in S |-> PaymentOf(p)]
<1>1. IsFiniteSet(S)
  BY EvidenceAssumption, FS_Subset
<1>2. f \in [S -> T] /\ \A p, q \in S : f[p] = f[q] => p = q
  BY SamePayment
<1>3. \A t \in T : \E p \in S : f[p] = t
  OBVIOUS
<1>4. f \in Bijection(S, T)
  <2>. HIDE DEF f, T
  <2>1. IsInjective(f) /\ f \in Surjection(S, T)
    BY <1>2, <1>3 DEF IsInjective, Surjection
  <2>. QED  BY <1>2, <2>1 DEF Bijection, Injection
<1>5. ExistsBijection(S, T)
  BY <1>4 DEF ExistsBijection
<1>. QED  BY <1>1, <1>5, FS_Bijection

(* What a reference finds among the known payments. *)
Finds(ref, p) ==
  /\ p \in Payment /\ Known("created", p)
  /\ ref = p \/ (ref = Charge(p) /\ Known("succeeded", p))
Found(o) == {p \in Payment : \E ref \in shop.refs[o] : Finds(ref, p)}
Hinted(o) == {p \in Payment : Known("created", p) /\ shop.hint[p] = o
                              /\ shop.store[p] \in {NoHint, Store}}

LEMMA TargetsAre == ASSUME NEW ref
                    PROVE  Targets(s, ref) = {PaymentOf(p) : p \in {x \in Payment : Finds(ref, x)}}
<1>1. ASSUME NEW p \in Payment
      PROVE ref \in {PaymentOf(p).id} \union PaymentOf(p).aliases
              <=> (ref = p \/ (ref = Charge(p) /\ Known("succeeded", p)))
  <2>1. /\ PaymentOf(p).id = p
        /\ PaymentOf(p).aliases = IF Known("succeeded", p) THEN {Charge(p)} ELSE {}
    BY PaymentIs
  <2>. QED  BY <2>1
<1>. QED  BY <1>1, SnapshotIs DEF Targets, Finds

LEMMA GroupIs ==
  ASSUME NEW o \in Order
  PROVE  /\ Resolved(s, OrderOf(o)) = {PaymentOf(p) : p \in Found(o)}
         /\ Hints(s, OrderOf(o)) = {PaymentOf(p) : p \in Hinted(o)}
         /\ Group(s, OrderOf(o)) = {PaymentOf(p) : p \in Found(o) \union Hinted(o)}
<1>1. Resolved(s, OrderOf(o)) = {PaymentOf(p) : p \in Found(o)}
  <2>1. Resolved(s, OrderOf(o)) = UNION {Targets(s, ref) : ref \in shop.refs[o]}
    BY OrderIs DEF Resolved
  <2>2. ASSUME NEW x PROVE x \in Resolved(s, OrderOf(o)) <=> x \in {PaymentOf(p) : p \in Found(o)}
    <3>1. x \in Resolved(s, OrderOf(o)) <=> \E ref \in shop.refs[o] : x \in Targets(s, ref)
      BY <2>1
    <3>2. x \in Resolved(s, OrderOf(o)) <=>
            \E ref \in shop.refs[o] : \E p \in Payment : Finds(ref, p) /\ x = PaymentOf(p)
      BY <3>1, TargetsAre
    <3>. QED  BY <3>2 DEF Found
  <2>. QED  BY <2>2
<1>2. Hints(s, OrderOf(o)) = {PaymentOf(p) : p \in Hinted(o)}
  <2>1. \A p \in Payment :
             /\ PaymentOf(p).order_hint = OrderOf(o).id <=> shop.hint[p] = o
             /\ PaymentOf(p).store_hint = shop.store[p]
    BY PaymentIs, OrderIs
  <2>. QED  BY <2>1, SnapshotIs DEF Hints, Hinted
<1>. QED  BY <1>1, <1>2 DEF Group

LEMMA ConflictIs ==
  ASSUME NEW o \in Order
  PROVE  Conflict(s, OrderOf(o)) <=>
           \/ \E p, q \in Found(o) : p # q
           \/ \E ref \in shop.refs[o] : \A p \in Payment : ~Finds(ref, p)
           \/ \E p \in Found(o) : \/ shop.store[p] \notin {NoHint, Store}
                                  \/ shop.hint[p] \notin {NoHint, o}
<1>1. Found(o) \in SUBSET Payment
  BY DEF Found
<1>2. Cardinality(Resolved(s, OrderOf(o))) > 1 <=> \E p, q \in Found(o) : p # q
  BY <1>1, GroupIs, AsMany, MoreThanOne
<1>3. \A ref : Targets(s, ref) = {} <=> \A p \in Payment : ~Finds(ref, p)
  BY TargetsAre
<1>4. (\E x \in Resolved(s, OrderOf(o)) : \/ x.store_hint \notin {NoHint, s.store}
                                          \/ x.order_hint \notin {NoHint, OrderOf(o).id})
        <=> \E p \in Found(o) : \/ shop.store[p] \notin {NoHint, Store}
                                \/ shop.hint[p] \notin {NoHint, o}
  <2>1. Resolved(s, OrderOf(o)) = {PaymentOf(p) : p \in Found(o)}
    BY GroupIs
  <2>2. \A p \in Found(o) : /\ PaymentOf(p).store_hint = shop.store[p]
                            /\ PaymentOf(p).order_hint = shop.hint[p]
    BY <1>1, PaymentIs
  <2>3. s.store = Store /\ OrderOf(o).id = o
    BY OrderIs, SnapshotIs
  <2>. QED  BY <2>1, <2>2, <2>3
<1>5. OrderOf(o).refs = shop.refs[o] /\ s.ambiguous_order_hints = {}
  BY OrderIs, SnapshotIs
<1>. QED  BY <1>2, <1>3, <1>4, <1>5 DEF Conflict

LEMMA CoverageIs ==
  ASSUME NEW k \in Covered
  PROVE  s.coverage[k].covered_through
           = through[IF k \in {"woo_orders", "woo_refunds"} THEN "woo" ELSE "stripe"]
<1>1. s.coverage[k] = CoverageOf(k)
  BY SnapshotIs
<1>2. CoverageOf(k).covered_through
        = through[IF k \in {"woo_orders", "woo_refunds"} THEN "woo" ELSE "stripe"]
  BY DEF CoverageOf
<1>. QED  BY <1>1, <1>2

(* The boundary is what both sides reach. *)
LEMMA BoundaryIs ==
  ASSUME EvidenceInv, Judges
  PROVE  /\ Boundary \in Int /\ Boundary < time
         /\ \A d \in Side : Boundary <= through[d]
         /\ \E d \in Side : Boundary = through[d]
<1>1. \A d \in Side : through[d] \in Int /\ through[d] < time
  BY Bounds DEF EvidenceInv, EvidenceTypeOK, Time, Missing
<1>2. Required \subseteq Covered
  <2>1. ASSUME NEW k \in Required PROVE k \in DOMAIN s.coverage
    BY DEF Judges, Stale, s
  <2>2. DOMAIN s.coverage = Covered
    BY SnapshotIs
  <2>. QED  BY <2>1, <2>2
<1>3. {s.coverage[k].covered_through : k \in Required} = {through["woo"], through["stripe"]}
  <2>1. \A k \in Required : s.coverage[k].covered_through
           = through[IF k \in {"woo_orders", "woo_refunds"} THEN "woo" ELSE "stripe"]
    BY <1>2, CoverageIs
  <2>2. /\ s.coverage["woo_orders"].covered_through = through["woo"]
        /\ s.coverage["stripe_payments"].covered_through = through["stripe"]
        /\ "woo_orders" \in Required /\ "stripe_payments" \in Required
    BY <2>1 DEF Required
  <2>3. \A k \in Required : s.coverage[k].covered_through \in {through["woo"], through["stripe"]}
    BY <2>1
  <2>. QED  BY <2>2, <2>3
<1>4. Boundary = Min({through["woo"], through["stripe"]})
  BY <1>3 DEF Boundary, Through, s
<1>5. through["woo"] \in Int /\ through["stripe"] \in Int
  BY <1>1 DEF Side
<1>. QED  BY <1>1, <1>4, <1>5, MinOfTwo, Bounds DEF Side, EvidenceInv, EvidenceTypeOK, Time

(* What is known at the boundary, and what is known by its revision. *)
LEMMA Knowledge ==
  ASSUME EvidenceInv, Judges, Undisturbed, NEW e \in Event
  PROVE  /\ when[e] \in Int /\ stamp[e] \in Int /\ when[e] <= stamp[e] /\ Boundary < Never
         /\ when[e] <= Boundary => stamp[e] # Never
         /\ stamp[e] <= Boundary => when[e] <= Boundary /\ stamp[e] # Never
<1>1. /\ Boundary \in Int /\ Boundary < time
      /\ Boundary <= through["woo"] /\ Boundary <= through["stripe"]
  BY BoundaryIs DEF Side
<1>2. /\ time \in 0 .. LastTime /\ when[e] \in 0 .. LastTime \union {Never}
      /\ stamp[e] \in when[e] .. time \union {Never}
  BY DEF EvidenceInv, EvidenceTypeOK, Time
<1>3. through["woo"] \in Int /\ through["stripe"] \in Int
  BY Bounds DEF EvidenceInv, EvidenceTypeOK, Time, Missing, Side
<1>4. when[e] \in Int /\ stamp[e] \in Int /\ when[e] <= stamp[e] /\ Boundary < Never
  BY <1>1, <1>2, Bounds DEF Never
<1>5. ASSUME when[e] <= Boundary PROVE stamp[e] # Never
  <2>1. when[e] <= through["woo"] /\ when[e] <= through["stripe"]
    BY <1>1, <1>3, <1>4, <1>5
  <2>2. e \in OrderEvent \X Order \/ e \in PaymentEvent \X Payment
    BY DEF Event
  <2>. QED  BY <2>1, <2>2 DEF EvidenceInv, StripeIsKnown, ShopIsKnown
<1>. QED  BY <1>1, <1>4, <1>5

(* No fact of some events is later than the last of their revisions. *)
LEMMA RevisionIs ==
  ASSUME EvidenceInv, NEW events \in SUBSET Event, NEW e \in events, stamp[e] # Never
  PROVE  stamp[e] <= Revision(events) /\ Revision(events) \in Int
<1>. DEFINE S == {stamp[x] : x \in {y \in events : stamp[y] # Never}}
<1>1. ASSUME NEW x \in Event PROVE stamp[x] \in Int /\ stamp[x] <= Never
  <2>1. /\ time \in 0 .. LastTime /\ when[x] \in 0 .. LastTime \union {Never}
        /\ stamp[x] \in when[x] .. time \union {Never}
    BY DEF EvidenceInv, EvidenceTypeOK, Time
  <2>. QED  BY <2>1, Bounds
<1>2. S \in SUBSET Int /\ \A x \in S : x <= Never
  BY <1>1
<1>3. stamp[e] \in S
  OBVIOUS
<1>4. Max(S) \in S /\ \A x \in S : x <= Max(S)
  <2>. HIDE DEF S
  <2>1. S # {} /\ Never \in Int
    BY <1>3, Bounds
  <2>. QED  BY <1>2, <2>1, MaxIs, Zenon
<1>. QED  BY <1>2, <1>3, <1>4 DEF Revision

----------------------------------------------------------------------------
(* An order that is judged, at the boundary. *)

(* What is known of an order whose revision is within the boundary is what *)
(* happened by then.                                                       *)
LEMMA OrderAtBoundary ==
  ASSUME EvidenceInv, Judges, Undisturbed, NEW o \in Order,
         ~(OrderOf(o).changed_at > Boundary), Known("placed", o)
  PROVE  \A k \in OrderEvent : Known(k, o) <=> By(k, o, Boundary)
<1>. SUFFICES ASSUME NEW k \in OrderEvent PROVE Known(k, o) <=> By(k, o, Boundary)
  OBVIOUS
<1>1. /\ <<k, o>> \in Event /\ <<"placed", o>> \in Event
      /\ <<k, o>> \in OrderEvent \X {o} /\ <<"placed", o>> \in OrderEvent \X {o}
      /\ OrderEvent \X {o} \in SUBSET Event
  BY Kinds DEF OrderEvent, Event
<1>2. Boundary \in Int
  BY BoundaryIs
<1>3. Revision(OrderEvent \X {o}) \in Int
  BY <1>1, RevisionIs DEF Known
<1>4. Revision(OrderEvent \X {o}) <= Boundary
  <2>1. OrderOf(o).changed_at = Revision(OrderEvent \X {o})
    BY OrderIs
  <2>. QED  BY <1>2, <1>3, <2>1
<1>5. Known(k, o) => stamp[<<k, o>>] <= Boundary
  BY <1>1, <1>2, <1>3, <1>4, RevisionIs, Knowledge DEF Known
<1>. QED  BY <1>1, <1>5, Knowledge DEF Known, By

LEMMA PaymentAtBoundary ==
  ASSUME EvidenceInv, Judges, Undisturbed, NEW p \in Payment,
         ~(PaymentOf(p).changed_at > Boundary), Known("created", p)
  PROVE  \A k \in {"created", "succeeded"} : Known(k, p) <=> By(k, p, Boundary)
<1>. SUFFICES ASSUME NEW k \in {"created", "succeeded"} PROVE Known(k, p) <=> By(k, p, Boundary)
  OBVIOUS
<1>1. /\ <<k, p>> \in Event /\ <<"created", p>> \in Event
      /\ <<k, p>> \in PaymentEvents(p) /\ <<"created", p>> \in PaymentEvents(p)
      /\ PaymentEvents(p) \in SUBSET Event
  BY Kinds DEF PaymentEvent, PaymentEvents
<1>2. Boundary \in Int
  BY BoundaryIs
<1>3. Revision(PaymentEvents(p)) \in Int
  BY <1>1, RevisionIs DEF Known
<1>4. Revision(PaymentEvents(p)) <= Boundary
  <2>1. PaymentOf(p).changed_at = Revision(PaymentEvents(p))
    BY PaymentIs
  <2>. QED  BY <1>2, <1>3, <2>1
<1>5. Known(k, p) => stamp[<<k, p>>] <= Boundary
  BY <1>1, <1>2, <1>3, <1>4, RevisionIs, Knowledge DEF Known
<1>. QED  BY <1>1, <1>5, Knowledge DEF Known, By

----------------------------------------------------------------------------
(* Which orders are matched, and which payments are in doubt. *)

LEMMA OrdersAreFinite == IsFiniteSet(s.orders)
<1>. DEFINE S == {o \in Order : Known("placed", o)}
            f == [o \in S |-> OrderOf(o)]
<1>1. IsFiniteSet(S)
  BY EvidenceAssumption, FS_Subset
<1>2. s.orders = {OrderOf(o) : o \in S}
  BY SnapshotIs
<1>3. f \in [S -> s.orders] /\ \A t \in s.orders : \E o \in S : f[o] = t
  BY <1>2
<1>4. f \in Surjection(S, s.orders)
  <2>. HIDE DEF f, S
  <2>. QED  BY <1>3 DEF Surjection
<1>. QED  BY <1>1, <1>4, FS_Surjection

LEMMA DecidedIs ==
  ASSUME NEW x \in Decided(s)
  PROVE  \E o \in Order : x = OrderOf(o) /\ Known("placed", o)
  BY SnapshotIs DEF Decided, Matched

(* A payment found by an order in conflict, or by two orders, is in doubt. *)
LEMMA DoubtfulByConflict ==
  ASSUME NEW q \in Order, Known("placed", q), Conflict(s, OrderOf(q)), NEW p \in Found(q)
  PROVE  <<"payment", p>> \in Doubtful(s)
<1>1. p \in Payment /\ PaymentOf(p) \in Resolved(s, OrderOf(q))
  BY GroupIs DEF Found
<1>2. PaymentId(PaymentOf(p)) = <<"payment", p>>
  BY <1>1, PaymentIs DEF PaymentId
<1>3. OrderOf(q) \in Conflicting(s)
  BY SnapshotIs, OrderIs DEF Conflicting
<1>4. <<"payment", p>> \in ConflictIds(s, OrderOf(q))
  BY <1>1, <1>2 DEF ConflictIds
<1>. QED  BY <1>3, <1>4 DEF Doubtful

LEMMA DoubtfulByContest ==
  ASSUME NEW o \in Order, Known("placed", o), ~Conflict(s, OrderOf(o)),
         NEW q \in Order, Known("placed", q), ~Conflict(s, OrderOf(q)), o # q,
         NEW p \in Payment, Known("created", p),
         p \in Found(o) \union Hinted(o), p \in Found(q) \union Hinted(q)
  PROVE  <<"payment", p>> \in Doubtful(s)
<1>1. PaymentOf(p) \in Group(s, OrderOf(o)) /\ PaymentOf(p) \in Group(s, OrderOf(q))
  BY GroupIs
<1>2. OrderOf(o) \in Matched(s) /\ OrderOf(q) \in Matched(s)
  BY SnapshotIs, OrderIs DEF Matched
<1>3. OrderOf(o) \in Claimants(s, PaymentOf(p)) /\ OrderOf(q) \in Claimants(s, PaymentOf(p))
  BY <1>1, <1>2 DEF Claimants
<1>4. OrderOf(o) # OrderOf(q)
  <2>1. OrderOf(o).id = o /\ OrderOf(q).id = q
    BY OrderIs
  <2>. QED  BY <2>1
<1>5. IsFiniteSet(Claimants(s, PaymentOf(p)))
  BY OrdersAreFinite, FS_Subset DEF Claimants, Matched
<1>6. PaymentOf(p) \in Contested(s)
  <2>1. PaymentOf(p) \in s.payments
    BY SnapshotIs
  <2>2. Cardinality(Claimants(s, PaymentOf(p))) > 1
    BY <1>3, <1>4, <1>5, MoreThanOne
  <2>. QED  BY <2>1, <2>2 DEF Contested
<1>7. <<"payment", p>> \in ContestIds(s, PaymentOf(p))
  BY PaymentIs DEF ContestIds, PaymentId
<1>. QED  BY <1>6, <1>7 DEF Doubtful

LEMMA KnownHappened ==
  ASSUME EvidenceInv, NEW e \in Event, stamp[e] # Never
  PROVE  e \in shop.events
<1>1. /\ time \in 0 .. LastTime /\ when[e] \in 0 .. LastTime \union {Never}
      /\ stamp[e] \in when[e] .. time \union {Never}
      /\ when[e] = Never \/ e \in shop.events
  BY DEF EvidenceInv, EvidenceTypeOK, Time, InOrder
<1>. QED  BY <1>1, Bounds

(* An order without a conflict is confirmed, and found all that it names. *)
LEMMA NoConflict ==
  ASSUME EvidenceInv, NEW o \in Order, ~Conflict(s, OrderOf(o))
  PROVE  Found(o) = Names(o) /\ Confirmed(o)
<1>1. /\ \A p, q \in Found(o) : p = q
      /\ \A ref \in shop.refs[o] : \E p \in Payment : Finds(ref, p)
      /\ \A p \in Found(o) : shop.store[p] \in {NoHint, Store} /\ shop.hint[p] \in {NoHint, o}
  BY ConflictIs
<1>2. ASSUME NEW p \in Names(o) PROVE p \in Found(o)
  <2>1. p \in Payment /\ (p \in shop.refs[o] \/ Charge(p) \in shop.refs[o])
    BY DEF Names
  <2>2. CASE p \in shop.refs[o]
    <3>1. PICK q \in Payment : Finds(p, q)
      BY <1>1, <2>2
    <3>2. q = p
      BY <2>1, <3>1, EvidenceAssumption DEF Finds
    <3>. QED  BY <2>1, <2>2, <3>1, <3>2 DEF Found
  <2>3. CASE Charge(p) \in shop.refs[o]
    <3>1. PICK q \in Payment : Finds(Charge(p), q)
      BY <1>1, <2>3
    <3>2. Charge(p) # q
      BY <2>1, EvidenceAssumption
    <3>3. q = p
      BY <3>1, <3>2 DEF Finds, Charge
    <3>. QED  BY <2>1, <2>3, <3>1, <3>3 DEF Found
  <2>. QED  BY <2>1, <2>2, <2>3
<1>3. Found(o) = Names(o)
  BY <1>2 DEF Found, Names, Finds
<1>4. Cardinality(Names(o)) <= 1
  <2>1. IsFiniteSet(Names(o))
    BY EvidenceAssumption, FS_Subset DEF Names
  <2>2. Cardinality(Names(o)) \in Nat /\ ~(Cardinality(Names(o)) > 1)
    BY <1>1, <1>3, <2>1, FS_CardinalityType, MoreThanOne
  <2>. QED  BY <2>2
<1>5. ASSUME NEW ref \in shop.refs[o] PROVE ~Foreign(ref)
  <2>1. PICK p \in Payment : Finds(ref, p)
    BY <1>1
  <2>2. <<"created", p>> \in Event
    BY Kinds DEF PaymentEvent
  <2>3. <<"created", p>> \in shop.events
    BY <2>1, <2>2, KnownHappened DEF Finds, Known
  <2>. QED  BY <2>1, <2>3 DEF Foreign, Finds
<1>6. \A p \in Names(o) : shop.store[p] # Other /\ shop.hint[p] \in {NoHint, o}
  BY <1>1, <1>3 DEF NoHint, Store, Other
<1>. QED  BY <1>3, <1>4, <1>5, <1>6 DEF Confirmed

(* What an order names is known when the order is, as far as the boundary. *)
LEMMA NamedIsFound ==
  ASSUME EvidenceInv, Judges, Undisturbed, NEW o \in Order, By("placed", o, Boundary),
         NEW ref \in shop.refs[o], ~Foreign(ref)
  PROVE  \E p \in Payment : Finds(ref, p)
<1>1. PICK p \in Payment :
        \/ ref = p /\ when[<<"created", p>>] <= when[<<"placed", o>>]
        \/ ref = Charge(p) /\ when[<<"succeeded", p>>] <= when[<<"placed", o>>]
  BY DEF EvidenceInv, NamesExisted
<1>2. /\ <<"created", p>> \in Event /\ <<"succeeded", p>> \in Event /\ <<"placed", o>> \in Event
  BY Kinds DEF PaymentEvent, OrderEvent
<1>3. /\ when[<<"created", p>>] \in Int /\ when[<<"succeeded", p>>] \in Int
      /\ when[<<"placed", o>>] \in Int /\ Boundary \in Int
  BY <1>2, Knowledge, BoundaryIs
<1>4. when[<<"created", p>>] <= when[<<"succeeded", p>>]
  BY DEF EvidenceInv, InOrder
<1>5. when[<<"placed", o>>] <= Boundary
  BY DEF By
<1>6. when[<<"created", p>>] <= Boundary
      /\ (ref = p \/ (ref = Charge(p) /\ when[<<"succeeded", p>>] <= Boundary))
  BY <1>1, <1>3, <1>4, <1>5
<1>7. Known("created", p) /\ (when[<<"succeeded", p>>] <= Boundary => Known("succeeded", p))
  BY <1>2, <1>6, Knowledge DEF Known
<1>. QED  BY <1>6, <1>7 DEF Finds

LEMMA ConfirmedHasNoConflict ==
  ASSUME EvidenceInv, Judges, Undisturbed, NEW o \in Order, By("placed", o, Boundary), Confirmed(o)
  PROVE  ~Conflict(s, OrderOf(o))
<1>1. CaseOK(shop)
  BY ShopIsOK DEF EvidenceInv, EvidenceTypeOK
<1>2. Found(o) \subseteq Names(o)
  BY DEF Found, Names, Finds
<1>3. \A p, q \in Names(o) : p = q
  <2>1. IsFiniteSet(Names(o))
    BY EvidenceAssumption, FS_Subset DEF Names
  <2>2. Cardinality(Names(o)) \in Nat /\ ~(Cardinality(Names(o)) > 1)
    BY <2>1, FS_CardinalityType DEF Confirmed
  <2>. QED  BY <2>1, <2>2, MoreThanOne
<1>4. \A ref \in shop.refs[o] : \E p \in Payment : Finds(ref, p)
  BY NamedIsFound DEF Confirmed
<1>5. \A p \in Names(o) : shop.store[p] \in {NoHint, Store} /\ shop.hint[p] \in {NoHint, o}
  BY <1>1 DEF Confirmed, CaseOK, Names
<1>. QED  BY <1>2, <1>3, <1>4, <1>5, ConflictIs

Judged(o) == o \in Order /\ Known("placed", o) /\ OrderOf(o) \in Decided(s)
Seen(o) == Found(o) \union Hinted(o)

LEMMA JudgedIs ==
  ASSUME NEW o, Judged(o)
  PROVE  /\ ~Conflict(s, OrderOf(o))
         /\ \A p \in Seen(o) : <<"payment", p>> \notin Doubtful(s)
         /\ ~(OrderOf(o).changed_at > Boundary)
         /\ \A p \in Seen(o) : ~(PaymentOf(p).changed_at > Boundary)
<1>1. /\ OrderOf(o) \in Matched(s) /\ OrderOf(o) \notin Held(s) /\ o \in Order
  BY DEF Judged, Decided
<1>2. ~Conflict(s, OrderOf(o))
  BY <1>1 DEF Matched
<1>3. /\ ~Blocks(s, OrderOf(o))
      /\ ~\E x \in {OrderOf(o)} \union Group(s, OrderOf(o)) : x.changed_at > Boundary
  BY <1>1 DEF Held, Boundary, s
<1>4. Group(s, OrderOf(o)) = {PaymentOf(p) : p \in Seen(o)}
  BY <1>1, GroupIs DEF Seen
<1>5. \A p \in Seen(o) : <<"payment", p>> \in GroupIds(s, OrderOf(o))
  <2>1. \A p \in Seen(o) : p \in Payment
    BY DEF Seen, Found, Hinted
  <2>2. \A p \in Seen(o) : PaymentId(PaymentOf(p)) = <<"payment", p>>
    BY <2>1, PaymentIs DEF PaymentId
  <2>. QED  BY <1>4, <2>2 DEF GroupIds
<1>. QED  BY <1>2, <1>3, <1>4, <1>5 DEF Blocks

(* What is known of a judged order and its payments is what happened by    *)
(* the boundary.                                                           *)
LEMMA JudgedAtBoundary ==
  ASSUME EvidenceInv, Judges, Undisturbed, NEW o, Judged(o)
  PROVE  /\ \A k \in OrderEvent : Known(k, o) <=> By(k, o, Boundary)
         /\ Seen(o) = {p \in Mine(o) : By("created", p, Boundary)}
         /\ Payers(o, Boundary) = {p \in Seen(o) : Known("succeeded", p)}
<1>1. o \in Order /\ Known("placed", o) /\ ~Conflict(s, OrderOf(o))
  BY JudgedIs DEF Judged
<1>2. \A k \in OrderEvent : Known(k, o) <=> By(k, o, Boundary)
  BY <1>1, JudgedIs, OrderAtBoundary
<1>3. Found(o) = Names(o)
  BY <1>1, NoConflict
<1>4. ASSUME NEW p \in Seen(o)
      PROVE  /\ p \in Mine(o) /\ Known("created", p)
             /\ \A k \in {"created", "succeeded"} : Known(k, p) <=> By(k, p, Boundary)
  <2>1. p \in Payment /\ Known("created", p) /\ p \in Mine(o)
    BY <1>3 DEF Seen, Found, Hinted, Mine, Finds
  <2>. QED  BY <2>1, JudgedIs, PaymentAtBoundary
<1>5. ASSUME NEW p \in Mine(o), By("created", p, Boundary) PROVE p \in Seen(o)
  <2>1. p \in Payment /\ <<"created", p>> \in Event
    BY Kinds DEF Mine, Names, PaymentEvent
  <2>2. Known("created", p)
    BY <1>5, <2>1, Knowledge DEF Known, By
  <2>. QED  BY <1>3, <2>1, <2>2 DEF Mine, Seen, Hinted
<1>6. ASSUME NEW p \in Mine(o), By("succeeded", p, Boundary) PROVE By("created", p, Boundary)
  <2>1. p \in Payment /\ <<"created", p>> \in Event /\ <<"succeeded", p>> \in Event
    BY Kinds DEF Mine, Names, PaymentEvent
  <2>2. when[<<"created", p>>] \in Int /\ when[<<"succeeded", p>>] \in Int /\ Boundary \in Int
    BY <2>1, Knowledge, BoundaryIs
  <2>3. when[<<"created", p>>] <= when[<<"succeeded", p>>]
    BY <2>1 DEF EvidenceInv, InOrder
  <2>4. when[<<"succeeded", p>>] <= Boundary
    BY <1>6 DEF By
  <2>5. when[<<"created", p>>] <= Boundary
    BY <2>2, <2>3, <2>4
  <2>. QED  BY <2>5 DEF By
<1>7. Seen(o) = {p \in Mine(o) : By("created", p, Boundary)}
  BY <1>4, <1>5
<1>8. Payers(o, Boundary) = {p \in Seen(o) : Known("succeeded", p)}
  BY <1>4, <1>6, <1>7 DEF Payers
<1>. QED  BY <1>2, <1>7, <1>8

(* Nothing makes it doubtful which payments are those of a judged order.   *)
LEMMA JudgedIsClear ==
  ASSUME EvidenceInv, Judges, Undisturbed, NEW o, Judged(o)
  PROVE  By("placed", o, Boundary) /\ Clear(o, Boundary)
<1>1. o \in Order /\ Known("placed", o) /\ ~Conflict(s, OrderOf(o))
  BY JudgedIs DEF Judged
<1>2. CaseOK(shop)
  BY ShopIsOK DEF EvidenceInv, EvidenceTypeOK
<1>3. Found(o) = Names(o) /\ Confirmed(o)
  BY <1>1, NoConflict
<1>4. ASSUME NEW q \in Order \ {o}, By("placed", q, Boundary), NEW p \in Mine(o) \cap Mine(q)
      PROVE  FALSE
  <2>1. p \in Payment /\ Known("placed", q)
    <3>1. <<"placed", q>> \in Event
      BY Kinds DEF OrderEvent
    <3>. QED  BY <1>4, <3>1, Knowledge DEF Known, By, Mine, Names
  <2>2. ASSUME p \in Names(q), ~(p \in Found(q))
        PROVE  <<"created", p>> \notin shop.events
    <3>1. PICK ref \in {p, Charge(p)} : ref \in shop.refs[q]
      BY <2>2 DEF Names
    <3>2. Foreign(ref)
      <4>. SUFFICES ASSUME ~Foreign(ref) PROVE FALSE
        OBVIOUS
      <4>1. PICK x \in Payment : Finds(ref, x)
        BY <1>4, <3>1, NamedIsFound
      <4>2. x = p
        <5>1. Charge(x) # p /\ Charge(p) # x
          BY <2>1, EvidenceAssumption
        <5>2. Charge(x) = Charge(p) => x = p
          BY DEF Charge
        <5>. QED  BY <3>1, <4>1, <5>1, <5>2 DEF Finds
      <4>. QED  BY <2>1, <2>2, <3>1, <4>1, <4>2 DEF Found
    <3>. QED  BY <2>1, <3>2 DEF Foreign
  <2>3. Known("created", p) => p \in Seen(o)
    BY <1>3, <2>1 DEF Mine, Seen, Hinted
  <2>4. Known("created", p) => <<"created", p>> \in shop.events
    <3>1. <<"created", p>> \in Event
      BY <2>1, Kinds DEF PaymentEvent
    <3>. QED  BY <3>1, KnownHappened DEF Known
  <2>5. CASE p \in Names(q)
    <3>1. CASE p \in Found(q)
      <4>1. Known("created", p) /\ p \in Seen(o)
        BY <2>3, <3>1 DEF Found, Finds
      <4>2. CASE Conflict(s, OrderOf(q))
        BY <2>1, <3>1, <4>1, <4>2, DoubtfulByConflict, JudgedIs
      <4>3. CASE ~Conflict(s, OrderOf(q))
        BY <1>1, <2>1, <3>1, <4>1, <4>3, DoubtfulByContest, JudgedIs DEF Seen
      <4>. QED  BY <4>2, <4>3
    <3>2. CASE p \notin Found(q)
      <4>1. <<"created", p>> \notin shop.events
        BY <2>2, <2>5, <3>2
      <4>2. ~Known("created", p) /\ shop.hint[p] = NoHint
        BY <1>2, <2>1, <2>4, <4>1 DEF CaseOK
      <4>3. p \in Names(o)
        BY <1>1, <4>2, EvidenceAssumption DEF Mine
      <4>. QED  BY <1>3, <4>2, <4>3 DEF Found, Finds
    <3>. QED  BY <3>1, <3>2
  <2>6. CASE p \notin Names(q)
    <3>1. shop.hint[p] = q /\ shop.store[p] \in {NoHint, Store}
      BY <2>6 DEF Mine
    <3>2. p \in Names(o)
      BY <3>1 DEF Mine
    <3>3. shop.hint[p] \in {NoHint, o}
      BY <1>3, <3>2 DEF Confirmed
    <3>. QED  BY <3>1, <3>3, EvidenceAssumption
  <2>. QED  BY <2>5, <2>6
<1>5. By("placed", o, Boundary)
  BY <1>1, JudgedAtBoundary DEF OrderEvent
<1>. QED  BY <1>3, <1>4, <1>5 DEF Clear

----------------------------------------------------------------------------
(* Prices and refunds. *)

(* Both sides read the price that they were asked for. *)
LEMMA AmountIs ==
  ASSUME EvidenceInv, NEW x \in Order \union Payment
  PROVE  /\ WooPrice(x).minor \in Nat \ {0} /\ WooPrice(x).currency = shop.price[x].currency
         /\ StripePrice(x) = WooPrice(x)
         /\ \A y \in Order \union Payment :
              WooPrice(x) = WooPrice(y) <=> shop.price[x] = shop.price[y]
<1>. DEFINE c == shop.price[x].currency
            m == WooPrice(x).minor
            amount(y) == parse_woo(shop.price[y].whole, shop.price[y].digits,
                                   shop.price[y].currency)
<1>1. /\ \A y \in Order \union Payment : amount(y).minor \in Nat \ {0}
      /\ \A y \in Order \union Payment : amount(x) = amount(y) => shop.price[x] = shop.price[y]
  <2>1. CaseOK(shop)
    BY ShopIsOK DEF EvidenceInv, EvidenceTypeOK
  <2>. QED  BY <2>1, Zenon DEF CaseOK
<1>2. \A y : WooPrice(y) = amount(y)
  BY Zenon DEF WooPrice
<1>. HIDE DEF amount
<1>3. m \in Nat \ {0} /\ \A y \in Order \union Payment :
        WooPrice(x) = WooPrice(y) => shop.price[x] = shop.price[y]
  BY <1>1, <1>2
<1>4. WooPrice(x) = Money(m, c)
  BY DEF WooPrice, parse_woo, Money
<1>5. StripeAmount(shop.price[x]) = IF c \in Legacy THEN m * 100 ELSE m * 1
  BY DEF StripeAmount, WooPrice
<1>6. StripePrice(x) = Money(IF c \in Legacy THEN StripeAmount(shop.price[x]) \div 100
                             ELSE StripeAmount(shop.price[x]), c)
  BY DEF StripePrice, parse_stripe
<1>7. (m * 100) \div 100 = m /\ m * 1 = m
  <2>. HIDE DEF m
  <2>. QED  BY <1>3
<1>8. StripePrice(x) = Money(m, c)
  <2>. HIDE DEF m, c
  <2>. QED  BY <1>5, <1>6, <1>7
<1>9. \A y : shop.price[x] = shop.price[y] => WooPrice(x) = WooPrice(y)
  BY DEF WooPrice
<1>10. WooPrice(x).currency = c
  BY <1>4 DEF Money
<1>. QED  BY <1>3, <1>4, <1>8, <1>9, <1>10

LEMMA StripeRefundIs ==
  ASSUME NEW p \in Payment
  PROVE  /\ StripeRefundOf(p).source = "stripe" /\ StripeRefundOf(p).parent = p
         /\ StripeRefundOf(p).amount = StripePrice(p) /\ StripeRefundOf(p).status = "succeeded"
         /\ StripeRefundOf(p).changed_at = stamp[<<"returned", p>>]
  BY DEF StripeRefundOf

LEMMA WooRefundIs ==
  ASSUME NEW o \in Order
  PROVE  /\ WooRefundOf(o).source = "woo" /\ WooRefundOf(o).parent = o
         /\ WooRefundOf(o).amount = WooPrice(o)
         /\ WooRefundOf(o).changed_at = when[<<"refunded", o>>]
  BY DEF WooRefundOf

LEMMA RefundsAre ==
  /\ \A p \in Payment : RefundsOf(s, PaymentOf(p)) =
       IF Known("returned", p) THEN {StripeRefundOf(p)} ELSE {}
  /\ \A o \in Order : WooRefunds(s, OrderOf(o)) =
       IF Known("refunded", o) THEN {WooRefundOf(o)} ELSE {}
<1>1. ASSUME NEW r
      PROVE  r \in s.refunds <=> \/ \E p \in Payment : Known("returned", p) /\ r = StripeRefundOf(p)
                                 \/ \E o \in Order : Known("refunded", o) /\ r = WooRefundOf(o)
  BY SnapshotIs
<1>2. ASSUME NEW p \in Payment, NEW r
      PROVE  r \in RefundsOf(s, PaymentOf(p)) <=> Known("returned", p) /\ r = StripeRefundOf(p)
  <2>1. PaymentOf(p).id = p
    BY PaymentIs
  <2>2. ASSUME r \in RefundsOf(s, PaymentOf(p))
        PROVE  Known("returned", p) /\ r = StripeRefundOf(p)
    <3>1. r \in s.refunds /\ r.source = "stripe" /\ r.parent = p
      BY <2>1, <2>2 DEF RefundsOf
    <3>2. CASE \E q \in Payment : Known("returned", q) /\ r = StripeRefundOf(q)
      BY <3>1, <3>2, StripeRefundIs
    <3>3. CASE \E o \in Order : Known("refunded", o) /\ r = WooRefundOf(o)
      BY <3>1, <3>3, WooRefundIs
    <3>. QED  BY <1>1, <3>1, <3>2, <3>3
  <2>3. ASSUME Known("returned", p), r = StripeRefundOf(p) PROVE r \in RefundsOf(s, PaymentOf(p))
    <3>1. r \in s.refunds
      BY <1>1, <2>3
    <3>2. r.source = "stripe" /\ r.parent = p /\ r.status = "succeeded"
      BY <2>3, StripeRefundIs
    <3>. QED  BY <2>1, <3>1, <3>2 DEF RefundsOf
  <2>. QED  BY <2>2, <2>3
<1>3. ASSUME NEW o \in Order, NEW r
      PROVE  r \in WooRefunds(s, OrderOf(o)) <=> Known("refunded", o) /\ r = WooRefundOf(o)
  <2>1. OrderOf(o).id = o
    BY OrderIs
  <2>2. ASSUME r \in WooRefunds(s, OrderOf(o))
        PROVE  Known("refunded", o) /\ r = WooRefundOf(o)
    <3>1. r \in s.refunds /\ r.source = "woo" /\ r.parent = o
      BY <2>1, <2>2 DEF WooRefunds
    <3>2. CASE \E q \in Payment : Known("returned", q) /\ r = StripeRefundOf(q)
      BY <3>1, <3>2, StripeRefundIs
    <3>3. CASE \E q \in Order : Known("refunded", q) /\ r = WooRefundOf(q)
      BY <3>1, <3>3, WooRefundIs
    <3>. QED  BY <1>1, <3>1, <3>2, <3>3
  <2>3. ASSUME Known("refunded", o), r = WooRefundOf(o) PROVE r \in WooRefunds(s, OrderOf(o))
    <3>1. r \in s.refunds
      BY <1>1, <2>3
    <3>2. r.source = "woo" /\ r.parent = o
      BY <2>3, WooRefundIs
    <3>. QED  BY <2>1, <3>1, <3>2 DEF WooRefunds
  <2>. QED  BY <2>2, <2>3
<1>. QED  BY <1>2, <1>3

(* The payments of o whose return in full was seen long enough ago. *)
Back(o) == {p \in Payers(o, Boundary) :
              stamp[<<"returned", p>>] + shop.policy.refund_grace <= Boundary}

LEMMA SucceededIs ==
  ASSUME EvidenceInv, Judges, Undisturbed, NEW o, Judged(o)
  PROVE  /\ Succeeded(s, OrderOf(o)) = {PaymentOf(p) : p \in Payers(o, Boundary)}
         /\ Payers(o, Boundary) \in SUBSET Payment
<1>1. o \in Order /\ Group(s, OrderOf(o)) = {PaymentOf(p) : p \in Seen(o)}
  BY GroupIs DEF Judged, Seen
<1>2. \A p \in Seen(o) : p \in Payment
  BY DEF Seen, Found, Hinted
<1>3. ASSUME NEW p \in Seen(o) PROVE PaymentOf(p).status = "succeeded" <=> Known("succeeded", p)
  <2>1. PaymentOf(p).status = IF Known("succeeded", p) THEN "succeeded"
                              ELSE "requires_payment_method"
    BY <1>2, PaymentIs
  <2>. QED  BY <2>1
<1>4. Payers(o, Boundary) = {p \in Seen(o) : Known("succeeded", p)}
  BY JudgedAtBoundary
<1>. QED  BY <1>1, <1>2, <1>3, <1>4 DEF Succeeded

LEMMA CompensatedIs ==
  ASSUME EvidenceInv, Judges, Undisturbed, NEW o, Judged(o)
  PROVE  compensated(s, OrderOf(o)) = {PaymentOf(p) : p \in Back(o)}
<1>1. /\ Succeeded(s, OrderOf(o)) = {PaymentOf(p) : p \in Payers(o, Boundary)}
      /\ Payers(o, Boundary) \in SUBSET Payment
  BY SucceededIs
<1>2. Min({s.now, Boundary}) = Boundary
  BY BoundaryIs, MinOfTwo, SnapshotIs, Bounds DEF EvidenceInv, EvidenceTypeOK, Time
<1>3. s.policy = shop.policy /\ shop.policy.refund_grace \in Nat
  BY SnapshotIs, ShopIsOK DEF EvidenceInv, EvidenceTypeOK, CaseOK
<1>. DEFINE Is(x) == LET rs == RefundsOf(s, x) IN
               /\ rs # {} /\ x.received.minor > 0
               /\ \A r \in rs : r.amount.currency = x.received.currency
               /\ Sum(rs) = x.received.minor
               /\ \A r \in rs : r.changed_at + shop.policy.refund_grace <= Boundary
<1>4. compensated(s, OrderOf(o)) = {x \in Succeeded(s, OrderOf(o)) : Is(x)}
  BY <1>2, <1>3 DEF compensated, Boundary, s
<1>5. ASSUME NEW p \in Payers(o, Boundary) PROVE Is(PaymentOf(p)) <=> p \in Back(o)
  <2>1. p \in Payment /\ <<"returned", p>> \in Event
    BY <1>1, Kinds DEF PaymentEvent
  <2>2. Boundary < Never /\ Boundary \in Int /\ Never \in Int
    BY <2>1, Knowledge, BoundaryIs, Bounds
  <2>3. CASE ~Known("returned", p)
    <3>1. RefundsOf(s, PaymentOf(p)) = {}
      BY <2>1, <2>3, RefundsAre
    <3>2. stamp[<<"returned", p>>] = Never
      BY <2>3 DEF Known
    <3>3. ~(Never + shop.policy.refund_grace <= Boundary)
      BY <1>3, <2>2
    <3>. QED  BY <3>1, <3>2, <3>3 DEF Back
  <2>4. CASE Known("returned", p)
    <3>. DEFINE r == StripeRefundOf(p)
    <3>1. RefundsOf(s, PaymentOf(p)) = {r}
      BY <2>1, <2>4, RefundsAre
    <3>2. /\ r.amount = WooPrice(p) /\ r.changed_at = stamp[<<"returned", p>>]
          /\ PaymentOf(p).received = WooPrice(p) /\ WooPrice(p).minor \in Nat \ {0}
      BY <2>1, StripeRefundIs, PaymentIs, AmountIs
    <3>3. Sum({r}) = WooPrice(p).minor
      <4>1. IsFiniteSet({r})
        BY FS_Singleton
      <4>2. \A x \in {r} : x.amount.minor \in Nat \ {0}
        BY <3>2
      <4>3. Sum({r}) = r.amount.minor
        BY <4>1, <4>2, SumOf
      <4>. QED  BY <3>2, <4>3
    <3>4. WooPrice(p).minor > 0
      BY <3>2
    <3>5. Is(PaymentOf(p)) <=> r.changed_at + shop.policy.refund_grace <= Boundary
      <4>. HIDE DEF r
      <4>. QED  BY <3>1, <3>2, <3>3, <3>4
    <3>. QED  BY <3>2, <3>5 DEF Back
  <2>. QED  BY <2>3, <2>4
<1>6. Back(o) \subseteq Payers(o, Boundary)
  BY DEF Back
<1>7. {x \in Succeeded(s, OrderOf(o)) : Is(x)} = {PaymentOf(p) : p \in Back(o)}
  <2>. HIDE DEF Is
  <2>. QED  BY <1>1, <1>5, <1>6
<1>. QED  BY <1>4, <1>7

LEMMA CorrectedIs ==
  ASSUME EvidenceInv, Judges, Undisturbed, NEW o, Judged(o)
  PROVE  /\ Cardinality(Succeeded(s, OrderOf(o))) = Cardinality(Payers(o, Boundary))
         /\ corrected_duplicate(s, OrderOf(o)) <=> Corrected(o, Boundary) # {}
         /\ (IF corrected_duplicate(s, OrderOf(o)) THEN compensated(s, OrderOf(o)) ELSE {})
              = {PaymentOf(p) : p \in Corrected(o, Boundary)}
         /\ Corrected(o, Boundary) \subseteq Payment
<1>. DEFINE P == Payers(o, Boundary)
<1>1. Succeeded(s, OrderOf(o)) = {PaymentOf(p) : p \in P} /\ P \in SUBSET Payment
  BY SucceededIs
<1>2. compensated(s, OrderOf(o)) = {PaymentOf(p) : p \in Back(o)} /\ Back(o) \subseteq P
  BY CompensatedIs DEF Back
<1>3. Succeeded(s, OrderOf(o)) \ compensated(s, OrderOf(o)) = {PaymentOf(p) : p \in P \ Back(o)}
  <2>1. \A p, q \in P : PaymentOf(p) = PaymentOf(q) => p = q
    BY <1>1, SamePayment
  <2>. HIDE DEF P
  <2>. QED  BY <1>1, <1>2, <2>1
<1>4. /\ Cardinality(Succeeded(s, OrderOf(o))) = Cardinality(P)
      /\ Cardinality(Succeeded(s, OrderOf(o)) \ compensated(s, OrderOf(o)))
           = Cardinality(P \ Back(o))
  <2>1. P \ Back(o) \in SUBSET Payment
    BY <1>1
  <2>. HIDE DEF P
  <2>. QED  BY <1>1, <1>3, <2>1, AsMany
<1>5. corrected_duplicate(s, OrderOf(o))
        <=> Cardinality(P) > 1 /\ Cardinality(P \ Back(o)) = 1
  BY <1>4 DEF corrected_duplicate
<1>6. Corrected(o, Boundary) = IF Cardinality(P) > 1 /\ Cardinality(P \ Back(o)) = 1
                               THEN Back(o) ELSE {}
  BY DEF Corrected, Back
<1>7. Back(o) = {} => ~(Cardinality(P) > 1 /\ Cardinality(P \ Back(o)) = 1)
  <2>1. Back(o) = {} => P \ Back(o) = P
    OBVIOUS
  <2>. HIDE DEF P
  <2>. QED  BY <2>1
<1>. QED  BY <1>1, <1>2, <1>4, <1>5, <1>6, <1>7

(* The refunds that count, once none of them is later than the boundary.   *)
LEMMA StripeRefundsAre ==
  ASSUME EvidenceInv, Judges, Undisturbed, NEW o, Judged(o), ~LateRefund(s, OrderOf(o))
  PROVE  /\ StripeRefunds(s, OrderOf(o)) = {StripeRefundOf(p) : p \in Returned(o, Boundary)}
         /\ Returned(o, Boundary) \in SUBSET Payment
<1>. DEFINE C == Corrected(o, Boundary)
<1>1. o \in Order /\ Group(s, OrderOf(o)) = {PaymentOf(p) : p \in Seen(o)}
      /\ Seen(o) \subseteq Payment
  BY GroupIs DEF Judged, Seen, Found, Hinted
<1>2. Group(s, OrderOf(o)) \ {PaymentOf(p) : p \in C} = {PaymentOf(p) : p \in Seen(o) \ C}
  <2>1. \A p, q \in Payment : PaymentOf(p) = PaymentOf(q) => p = q
    BY SamePayment
  <2>2. C \subseteq Payment
    BY CorrectedIs
  <2>. HIDE DEF C
  <2>. QED  BY <1>1, <2>1, <2>2
<1>3. StripeRefunds(s, OrderOf(o))
        = UNION {RefundsOf(s, x) : x \in {PaymentOf(p) : p \in Seen(o) \ C}}
  BY <1>2, CorrectedIs DEF StripeRefunds
<1>4. ASSUME NEW r
      PROVE  r \in StripeRefunds(s, OrderOf(o))
               <=> \E p \in Seen(o) \ C : Known("returned", p) /\ r = StripeRefundOf(p)
  <2>1. r \in StripeRefunds(s, OrderOf(o))
          <=> \E p \in Seen(o) \ C : r \in RefundsOf(s, PaymentOf(p))
    BY <1>3
  <2>2. \A p \in Seen(o) :
          r \in RefundsOf(s, PaymentOf(p)) <=> Known("returned", p) /\ r = StripeRefundOf(p)
    BY <1>1, RefundsAre
  <2>. QED  BY <2>1, <2>2
<1>5. ASSUME NEW p \in Seen(o) \ C, Known("returned", p) PROVE p \in Returned(o, Boundary)
  <2>1. StripeRefundOf(p) \in OrderRefunds(s, OrderOf(o))
    BY <1>4, <1>5 DEF OrderRefunds
  <2>2. ~(StripeRefundOf(p).changed_at > Boundary)
    BY <2>1 DEF LateRefund, Boundary, s
  <2>3. /\ p \in Payment /\ <<"returned", p>> \in Event /\ <<"succeeded", p>> \in Event
        /\ <<"created", p>> \in Event
    BY <1>1, Kinds DEF PaymentEvent
  <2>4. stamp[<<"returned", p>>] \in Int /\ Boundary \in Int
    BY <2>3, Knowledge, BoundaryIs
  <2>5. stamp[<<"returned", p>>] <= Boundary
    BY <2>2, <2>3, <2>4, StripeRefundIs
  <2>6. when[<<"returned", p>>] <= Boundary
    BY <2>3, <2>5, Knowledge
  <2>7. when[<<"succeeded", p>>] <= when[<<"returned", p>>]
    BY <2>3 DEF EvidenceInv, InOrder
  <2>8. when[<<"succeeded", p>>] <= Boundary
    BY <2>3, <2>4, <2>6, <2>7, Knowledge
  <2>9. p \in Mine(o)
    BY JudgedAtBoundary
  <2>. QED  BY <2>6, <2>8, <2>9 DEF Returned, Payers, By
<1>6. ASSUME NEW p \in Returned(o, Boundary) PROVE p \in Seen(o) \ C /\ Known("returned", p)
  <2>1. p \in Payers(o, Boundary) /\ p \notin C /\ when[<<"returned", p>>] <= Boundary
    BY DEF Returned, By
  <2>2. p \in Seen(o)
    BY <2>1, JudgedAtBoundary
  <2>3. <<"returned", p>> \in Event
    BY <1>1, <2>2, Kinds DEF PaymentEvent
  <2>. QED  BY <2>1, <2>2, <2>3, Knowledge DEF Known
<1>7. StripeRefunds(s, OrderOf(o)) = {StripeRefundOf(p) : p \in Returned(o, Boundary)}
  BY <1>4, <1>5, <1>6
<1>. QED  BY <1>1, <1>6, <1>7

----------------------------------------------------------------------------
(* Each rule says what is so: RaisedIsReal. *)

(* What each rule claims, one by one. *)
LEMMA Claims ==
  ASSUME NEW o \in Order, NEW p \in Payment, NEW b, By("placed", o, b), Clear(o, b)
  PROVE  /\ p \in Payers(o, b) /\ ~By("paid", o, b) =>
              Real("PI-001", {<<"order", o>>, <<"payment", p>>}, b)
         /\ By("paid", o, b) /\ ~By("refunded", o, b) /\ Payers(o, b) = {} =>
              Real("PI-003", {<<"order", o>>}, b)
         /\ Cardinality(Payers(o, b)) > 1 /\ Corrected(o, b) = {} =>
              Real("PI-004", {<<"order", o>>} \union
                {<<"payment", q>> : q \in {x \in Mine(o) : By("created", x, b)}}, b)
         /\ p \in Payers(o, b) /\ ~SamePrice(o, p) =>
              Real("PI-005", {<<"order", o>>, <<"payment", p>>}, b)
         /\ Returned(o, b) # {} /\ ~By("refunded", o, b) /\ ~Abroad(o, b) =>
              Real("PI-006", {<<"order", o>>}, b)
         /\ Returned(o, b) = {} /\ By("refunded", o, b) =>
              Real("PI-007", {<<"order", o>>}, b)
         /\ \/ Abroad(o, b)
            \/ /\ Returned(o, b) # {} /\ By("refunded", o, b)
               /\ Total(Returned(o, b)) # WooPrice(o).minor
            => Real("PI-008", {<<"order", o>>}, b)
<1>1. ASSUME NEW rule, NEW ids, Disagrees(rule, o, p, b), ids = IdsOf(rule, o, p, b)
      PROVE  Real(rule, ids, b)
  BY <1>1 DEF Real
<1>2. /\ Disagrees("PI-001", o, p, b) <=> p \in Payers(o, b) /\ ~By("paid", o, b)
      /\ Disagrees("PI-003", o, p, b) <=>
           By("paid", o, b) /\ ~By("refunded", o, b) /\ Payers(o, b) = {}
      /\ Disagrees("PI-004", o, p, b) <=> Cardinality(Payers(o, b)) > 1 /\ Corrected(o, b) = {}
      /\ Disagrees("PI-005", o, p, b) <=> p \in Payers(o, b) /\ ~SamePrice(o, p)
  BY DEF Disagrees
<1>3. /\ Disagrees("PI-006", o, p, b) <=>
           Returned(o, b) # {} /\ ~By("refunded", o, b) /\ ~Abroad(o, b)
      /\ Disagrees("PI-007", o, p, b) <=> Returned(o, b) = {} /\ By("refunded", o, b)
      /\ Disagrees("PI-008", o, p, b) <=>
           \/ Abroad(o, b)
           \/ /\ Returned(o, b) # {} /\ By("refunded", o, b)
              /\ Total(Returned(o, b)) # WooPrice(o).minor
  BY DEF Disagrees
<1>4. /\ IdsOf("PI-001", o, p, b) = {<<"order", o>>, <<"payment", p>>}
      /\ IdsOf("PI-003", o, p, b) = {<<"order", o>>}
      /\ IdsOf("PI-004", o, p, b) = {<<"order", o>>} \union
           {<<"payment", q>> : q \in {x \in Mine(o) : By("created", x, b)}}
      /\ IdsOf("PI-005", o, p, b) = {<<"order", o>>, <<"payment", p>>}
  BY DEF IdsOf
<1>5. /\ IdsOf("PI-006", o, p, b) = {<<"order", o>>}
      /\ IdsOf("PI-007", o, p, b) = {<<"order", o>>}
      /\ IdsOf("PI-008", o, p, b) = {<<"order", o>>}
  BY DEF IdsOf
<1>. QED  BY <1>1, <1>2, <1>3, <1>4, <1>5

LEMMA StatusIs ==
  ASSUME EvidenceInv, Judges, Undisturbed, NEW o, Judged(o)
  PROVE  /\ OrderOf(o).status \in UNPAID => ~By("paid", o, Boundary)
         /\ OrderOf(o).status \in PAID => By("paid", o, Boundary) /\ ~By("refunded", o, Boundary)
         /\ OrderOf(o).status = "refunded" <=> By("refunded", o, Boundary)
<1>1. o \in Order /\ <<"paid", o>> \in Event /\ <<"refunded", o>> \in Event
  BY Kinds DEF Judged, OrderEvent
<1>2. OrderOf(o).status = IF Known("refunded", o) THEN "refunded"
                          ELSE IF Known("paid", o) THEN "processing" ELSE "pending"
  BY <1>1, OrderIs
<1>3. /\ Known("paid", o) <=> By("paid", o, Boundary)
      /\ Known("refunded", o) <=> By("refunded", o, Boundary)
  BY JudgedAtBoundary DEF OrderEvent
<1>. QED  BY <1>2, <1>3 DEF UNPAID, PAID

LEMMA NamesOfIds ==
  /\ \A o \in Order : OrderId(OrderOf(o)) = <<"order", o>>
  /\ \A p \in Payment : PaymentId(PaymentOf(p)) = <<"payment", p>>
  BY OrderIs, PaymentIs DEF OrderId, PaymentId

LEMMA PI001IsReal ==
  ASSUME EvidenceInv, Judges, Undisturbed, NEW o, Judged(o), NEW q \in PI001(s, OrderOf(o))
  PROVE  Real(q.rule, q.ids, Boundary)
<1>1. PICK x \in Succeeded(s, OrderOf(o)) :
        /\ OrderOf(o).status \in UNPAID /\ q.rule = "PI-001"
        /\ q.ids = {OrderId(OrderOf(o)), PaymentId(x)}
  BY DEF PI001, Says
<1>2. PICK p \in Payers(o, Boundary) : x = PaymentOf(p) /\ p \in Payment
  BY SucceededIs
<1>3. o \in Order /\ q.ids = {<<"order", o>>, <<"payment", p>>}
  BY <1>1, <1>2, NamesOfIds DEF Judged
<1>. QED  BY <1>1, <1>2, <1>3, StatusIs, JudgedIsClear, Claims

LEMMA PI003IsReal ==
  ASSUME EvidenceInv, Judges, Undisturbed, NEW o, Judged(o), NEW q \in PI003(s, OrderOf(o))
  PROVE  Real(q.rule, q.ids, Boundary)
<1>1. /\ Succeeded(s, OrderOf(o)) = {} /\ OrderOf(o).status \in PAID
      /\ q.rule = "PI-003" /\ q.ids = {OrderId(OrderOf(o))}
  BY DEF PI003, Says
<1>2. o \in Order /\ q.ids = {<<"order", o>>} /\ Payers(o, Boundary) = {}
  BY <1>1, SucceededIs, NamesOfIds DEF Judged
<1>3. PICK p \in Payment : TRUE
  BY EvidenceAssumption
<1>. QED  BY <1>1, <1>2, <1>3, StatusIs, JudgedIsClear, Claims

LEMMA GroupIdsAre ==
  ASSUME EvidenceInv, Judges, Undisturbed, NEW o, Judged(o)
  PROVE  GroupIds(s, OrderOf(o)) = {<<"order", o>>} \union
           {<<"payment", p>> : p \in {x \in Mine(o) : By("created", x, Boundary)}}
<1>1. o \in Order /\ Group(s, OrderOf(o)) = {PaymentOf(p) : p \in Seen(o)}
      /\ Seen(o) \subseteq Payment
  BY GroupIs DEF Judged, Seen, Found, Hinted
<1>2. GroupIds(s, OrderOf(o)) = {<<"order", o>>} \union {<<"payment", p>> : p \in Seen(o)}
  <2>1. {PaymentId(x) : x \in Group(s, OrderOf(o))} = {<<"payment", p>> : p \in Seen(o)}
    BY <1>1, NamesOfIds
  <2>. QED  BY <1>1, <2>1, NamesOfIds DEF GroupIds
<1>3. Seen(o) = {x \in Mine(o) : By("created", x, Boundary)}
  BY JudgedAtBoundary
<1>. QED  BY <1>2, <1>3

LEMMA PI004IsReal ==
  ASSUME EvidenceInv, Judges, Undisturbed, NEW o, Judged(o), NEW q \in PI004(s, OrderOf(o))
  PROVE  Real(q.rule, q.ids, Boundary)
<1>1. /\ Cardinality(Succeeded(s, OrderOf(o))) > 1 /\ ~corrected_duplicate(s, OrderOf(o))
      /\ q.rule = "PI-004" /\ q.ids = GroupIds(s, OrderOf(o))
  BY DEF PI004, Says
<1>2. Cardinality(Payers(o, Boundary)) > 1 /\ Corrected(o, Boundary) = {}
  BY <1>1, CorrectedIs
<1>3. PICK p \in Payment : TRUE
  BY EvidenceAssumption
<1>. QED  BY <1>1, <1>2, <1>3, GroupIdsAre, JudgedIsClear, Claims DEF Judged

LEMMA PI005IsReal ==
  ASSUME EvidenceInv, Judges, Undisturbed, NEW o, Judged(o), NEW q \in PI005(s, OrderOf(o))
  PROVE  Real(q.rule, q.ids, Boundary)
<1>1. PICK x \in Succeeded(s, OrderOf(o)) :
        /\ x.received # OrderOf(o).amount /\ q.rule = "PI-005"
        /\ q.ids = {OrderId(OrderOf(o)), PaymentId(x)}
  BY DEF PI005, Says
<1>2. PICK p \in Payers(o, Boundary) : x = PaymentOf(p) /\ p \in Payment
  BY SucceededIs
<1>3. o \in Order /\ q.ids = {<<"order", o>>, <<"payment", p>>}
  BY <1>1, <1>2, NamesOfIds DEF Judged
<1>4. ~SamePrice(o, p)
  <2>1. x.received = WooPrice(p) /\ OrderOf(o).amount = WooPrice(o)
    BY <1>2, <1>3, AmountIs, PaymentIs, OrderIs
  <2>. QED  BY <1>1, <1>2, <1>3, <2>1, AmountIs DEF SamePrice
<1>. QED  BY <1>1, <1>2, <1>3, <1>4, JudgedIsClear, Claims

LEMMA RefundRulesSay ==
  ASSUME NEW x, NEW q \in RefundRules(s, x)
  PROVE  /\ q.ids = {OrderId(x)} /\ ~LateRefund(s, x)
         /\ ~OtherCurrency(s, x) => q.eligible = s.policy.refund_grace
              + Max({IF x.refunded.minor > 0 \/ x.status = "refunded" THEN x.changed_at
                     ELSE s.window_from} \union {r.changed_at : r \in OrderRefunds(s, x)})
         /\ \/ OtherCurrency(s, x) /\ q.rule = "PI-008"
            \/ /\ ~OtherCurrency(s, x)
               /\ \/ /\ Sum(StripeRefunds(s, x)) > 0 /\ x.refunded.minor = 0
                     /\ q.rule = "PI-006"
                  \/ /\ Sum(StripeRefunds(s, x)) = 0
                     /\ x.refunded.minor > 0 \/ x.status = "refunded"
                     /\ q.rule = "PI-007"
                  \/ /\ Sum(StripeRefunds(s, x)) > 0 /\ x.refunded.minor > 0
                     /\ Sum(StripeRefunds(s, x)) # x.refunded.minor
                     /\ q.rule = "PI-008"
<1>. DEFINE sr == Sum(StripeRefunds(s, x))
            wr == x.refunded.minor
            times == {r.changed_at : r \in OrderRefunds(s, x)}
            eligible == s.policy.refund_grace
              + Max({IF wr > 0 \/ x.status = "refunded" THEN x.changed_at ELSE s.window_from}
                    \union times)
            other == s.policy.refund_grace + Max({x.changed_at} \union times)
            Judgement == CASE sr > 0 /\ wr = 0 -> Says("PI-006", {OrderId(x)}, eligible)
              [] sr = 0 /\ (wr > 0 \/ x.status = "refunded")
                   -> Says("PI-007", {OrderId(x)}, eligible)
              [] sr > 0 /\ wr > 0 /\ sr # wr -> Says("PI-008", {OrderId(x)}, eligible)
              [] OTHER -> {}
<1>1. RefundRules(s, x) = IF RefundsHeld(s, x) THEN {}
                          ELSE IF OtherCurrency(s, x) THEN Says("PI-008", {OrderId(x)}, other)
                          ELSE Judgement
  BY Zenon DEF RefundRules
<1>. HIDE DEF sr, wr, times, eligible, other
<1>2. ~RefundsHeld(s, x) /\ ~LateRefund(s, x)
  BY <1>1 DEF RefundsHeld
<1>3. CASE OtherCurrency(s, x)
  <2>1. q \in Says("PI-008", {OrderId(x)}, other)
    BY <1>1, <1>2, <1>3
  <2>. QED  BY <1>2, <1>3, <2>1 DEF Says
<1>4. CASE ~OtherCurrency(s, x)
  <2>1. q \in Judgement
    BY <1>1, <1>2, <1>4
  <2>2. q.ids = {OrderId(x)} /\ q.eligible = eligible
        /\ \/ sr > 0 /\ wr = 0 /\ q.rule = "PI-006"
           \/ sr = 0 /\ (wr > 0 \/ x.status = "refunded") /\ q.rule = "PI-007"
           \/ sr > 0 /\ wr > 0 /\ sr # wr /\ q.rule = "PI-008"
    <3>1. CASE sr > 0 /\ wr = 0
      <4>1. Judgement = Says("PI-006", {OrderId(x)}, eligible)
        BY <3>1
      <4>. QED  BY <2>1, <3>1, <4>1 DEF Says
    <3>2. CASE sr = 0 /\ (wr > 0 \/ x.status = "refunded")
      <4>1. Judgement = Says("PI-007", {OrderId(x)}, eligible)
        BY <3>2
      <4>. QED  BY <2>1, <3>2, <4>1 DEF Says
    <3>3. CASE sr > 0 /\ wr > 0 /\ sr # wr
      <4>1. Judgement = Says("PI-008", {OrderId(x)}, eligible)
        BY <3>3
      <4>. QED  BY <2>1, <3>3, <4>1 DEF Says
    <3>4. CASE /\ ~(sr > 0 /\ wr = 0) /\ ~(sr = 0 /\ (wr > 0 \/ x.status = "refunded"))
               /\ ~(sr > 0 /\ wr > 0 /\ sr # wr)
      <4>1. Judgement = {}
        BY <3>4
      <4>. QED  BY <2>1, <4>1
    <3>. QED  BY <3>1, <3>2, <3>3, <3>4
  <2>3. q.eligible = s.policy.refund_grace
              + Max({IF x.refunded.minor > 0 \/ x.status = "refunded" THEN x.changed_at
                     ELSE s.window_from} \union {r.changed_at : r \in OrderRefunds(s, x)})
    BY <2>2, Zenon DEF eligible, wr, times
  <2>. QED  BY <1>2, <1>4, <2>2, <2>3 DEF sr, wr
<1>. QED  BY <1>3, <1>4

(* What the sums of the refunds of a judged order stand for. *)
LEMMA RefundSums ==
  ASSUME EvidenceInv, Judges, Undisturbed, NEW o, Judged(o), ~LateRefund(s, OrderOf(o))
  PROVE  /\ OtherCurrency(s, OrderOf(o)) <=> Abroad(o, Boundary)
         /\ Sum(StripeRefunds(s, OrderOf(o))) \in Nat
         /\ Sum(StripeRefunds(s, OrderOf(o))) = 0 <=> Returned(o, Boundary) = {}
         /\ Sum(StripeRefunds(s, OrderOf(o))) = Total(Returned(o, Boundary))
         /\ OrderOf(o).refunded.minor =
              IF By("refunded", o, Boundary) THEN WooPrice(o).minor ELSE 0
<1>. DEFINE R == Returned(o, Boundary)
            T == StripeRefunds(s, OrderOf(o))
<1>1. /\ T = {StripeRefundOf(p) : p \in R} /\ R \in SUBSET Payment
      /\ o \in Order /\ <<"refunded", o>> \in Event
  BY StripeRefundsAre, Kinds DEF Judged, OrderEvent
<1>2. ASSUME NEW p \in R
      PROVE  /\ p \in Payment /\ StripeRefundOf(p).amount = WooPrice(p)
             /\ WooPrice(p).minor \in Nat \ {0} /\ WooPrice(p).currency = shop.price[p].currency
  <2>1. p \in Payment
    BY <1>1
  <2>. QED  BY <2>1, StripeRefundIs, AmountIs
<1>3. OrderOf(o).amount = WooPrice(o) /\ WooPrice(o).currency = shop.price[o].currency
  BY <1>1, OrderIs, AmountIs
<1>4. \A r \in WooRefunds(s, OrderOf(o)) : r.amount = WooPrice(o)
  <2>1. \A r \in WooRefunds(s, OrderOf(o)) : r = WooRefundOf(o)
    BY <1>1, RefundsAre
  <2>2. WooRefundOf(o).amount = WooPrice(o)
    BY <1>1, WooRefundIs, AmountIs
  <2>. QED  BY <2>1, <2>2
<1>5. OtherCurrency(s, OrderOf(o)) <=> Abroad(o, Boundary)
  <2>1. OtherCurrency(s, OrderOf(o)) <=> \E r \in T : r.amount.currency # WooPrice(o).currency
    BY <1>3, <1>4 DEF OtherCurrency, OrderRefunds
  <2>2. (\E r \in T : r.amount.currency # WooPrice(o).currency)
          <=> \E p \in R : shop.price[p].currency # shop.price[o].currency
    <3>. HIDE DEF T, R
    <3>. QED  BY <1>1, <1>2, <1>3
  <2>. QED  BY <2>1, <2>2 DEF Abroad
<1>6. IsFiniteSet(T) /\ IsFiniteSet(R)
  <2>. DEFINE f == [p \in R |-> StripeRefundOf(p)]
  <2>1. IsFiniteSet(R)
    BY <1>1, EvidenceAssumption, FS_Subset
  <2>2. f \in [R -> T] /\ \A t \in T : \E p \in R : f[p] = t
    <3>. HIDE DEF T, R
    <3>. QED  BY <1>1
  <2>3. f \in Surjection(R, T)
    <3>. HIDE DEF f, T, R
    <3>. QED  BY <2>2 DEF Surjection
  <2>. HIDE DEF f, T, R
  <2>. QED  BY <2>1, <2>3, FS_Surjection
<1>7. \A r \in T : r.amount.minor \in Nat \ {0}
  <2>. HIDE DEF T, R
  <2>. QED  BY <1>1, <1>2
<1>8. Sum(T) \in Nat /\ (Sum(T) = 0 <=> T = {})
  <2>. HIDE DEF T, R
  <2>. QED  BY <1>6, <1>7, SumOf
<1>9. T = {} <=> R = {}
  <2>. HIDE DEF T, R
  <2>. QED  BY <1>1
<1>10. Sum(T) = Total(R)
  <2>. DEFINE w == [r \in T |-> r.amount.minor]
              v == [p \in R |-> WooPrice(p).minor]
              h == [p \in R |-> StripeRefundOf(p)]
  <2>. HIDE DEF T, R
  <2>1. PICK f : Folding(f, T, w) /\ Sum(T) = f[T]
    BY <1>6, SumFolds
  <2>2. PICK g : Folding(g, R, v) /\ Total(R) = g[R]
    BY <1>6, TotalFolds
  <2>3. w \in [T -> Nat] /\ v \in [R -> Nat] /\ h \in [R -> T]
    <3>1. w \in [T -> Nat]
      BY <1>7
    <3>2. v \in [R -> Nat]
      BY <1>2
    <3>3. h \in [R -> T]
      BY <1>1
    <3>. QED  BY <3>1, <3>2, <3>3
  <2>4. \A x, y \in R : h[x] = h[y] => x = y
    <3>1. \A x \in R : x \in Payment /\ StripeRefundOf(x).parent = x
      BY <1>2, StripeRefundIs
    <3>. QED  BY <3>1
  <2>5. \A y \in T : \E x \in R : h[x] = y
    BY <1>1
  <2>6. \A x \in R : w[h[x]] = v[x]
    <3>1. ASSUME NEW x \in R PROVE w[h[x]] = v[x]
      <4>1. h[x] = StripeRefundOf(x) /\ h[x] \in T
        BY <2>3
      <4>2. w[h[x]] = StripeRefundOf(x).amount.minor
        BY <4>1
      <4>3. StripeRefundOf(x).amount = WooPrice(x)
        BY <1>2
      <4>. QED  BY <4>2, <4>3
    <3>. QED  BY <3>1
  <2>. HIDE DEF w, v, h
  <2>7. g[R] = f[T]
    BY <1>6, <2>1, <2>2, <2>3, <2>4, <2>5, <2>6, FoldingsAgree
  <2>. QED  BY <2>1, <2>2, <2>7
<1>11. OrderOf(o).refunded.minor = IF By("refunded", o, Boundary) THEN WooPrice(o).minor ELSE 0
  <2>1. Known("refunded", o) <=> By("refunded", o, Boundary)
    BY JudgedAtBoundary DEF OrderEvent
  <2>2. OrderOf(o).refunded = IF Known("refunded", o) THEN WooPrice(o)
                              ELSE Money(0, WooPrice(o).currency)
    <3>1. OrderOf(o).refunded = IF Known("refunded", o) THEN WooPrice(o)
                                ELSE Money(0, WooPrice(o).currency)
      BY <1>1, OrderIs
    <3>2. WooPrice(o) = WooPrice(o)
      BY <1>1, AmountIs
    <3>. QED  BY <3>1, <3>2
  <2>. QED  BY <2>1, <2>2 DEF Money
<1>. QED  BY <1>5, <1>8, <1>9, <1>10, <1>11

LEMMA RefundRulesAreReal ==
  ASSUME EvidenceInv, Judges, Undisturbed, NEW o, Judged(o), NEW q \in RefundRules(s, OrderOf(o))
  PROVE  Real(q.rule, q.ids, Boundary)
<1>. DEFINE R == Returned(o, Boundary)
            sr == Sum(StripeRefunds(s, OrderOf(o)))
            wr == OrderOf(o).refunded.minor
<1>1. o \in Order /\ ~LateRefund(s, OrderOf(o)) /\ q.ids = {<<"order", o>>}
  BY RefundRulesSay, NamesOfIds DEF Judged
<1>2. By("placed", o, Boundary) /\ Clear(o, Boundary)
  BY JudgedIsClear
<1>3. PICK p \in Payment : TRUE
  BY EvidenceAssumption
<1>4. /\ OtherCurrency(s, OrderOf(o)) <=> Abroad(o, Boundary)
      /\ sr \in Nat /\ (sr = 0 <=> R = {})
      /\ sr = Total(R)
      /\ wr = IF By("refunded", o, Boundary) THEN WooPrice(o).minor ELSE 0
  BY <1>1, RefundSums
<1>5. WooPrice(o).minor \in Nat \ {0}
  BY <1>1, AmountIs
<1>6. OrderOf(o).status = "refunded" => By("refunded", o, Boundary)
  BY StatusIs
<1>7. \/ OtherCurrency(s, OrderOf(o)) /\ q.rule = "PI-008"
      \/ /\ ~OtherCurrency(s, OrderOf(o))
         /\ \/ sr > 0 /\ wr = 0 /\ q.rule = "PI-006"
            \/ sr = 0 /\ (wr > 0 \/ OrderOf(o).status = "refunded") /\ q.rule = "PI-007"
            \/ sr > 0 /\ wr > 0 /\ sr # wr /\ q.rule = "PI-008"
  BY RefundRulesSay
<1>. HIDE DEF R, sr, wr
<1>8. CASE OtherCurrency(s, OrderOf(o)) /\ q.rule = "PI-008"
  BY <1>1, <1>2, <1>3, <1>4, <1>8, Claims
<1>9. CASE ~OtherCurrency(s, OrderOf(o)) /\ sr > 0 /\ wr = 0 /\ q.rule = "PI-006"
  <2>1. R # {} /\ ~By("refunded", o, Boundary) /\ ~Abroad(o, Boundary)
    BY <1>4, <1>5, <1>9
  <2>. QED  BY <1>1, <1>2, <1>3, <1>9, <2>1, Claims DEF R
<1>10. CASE sr = 0 /\ (wr > 0 \/ OrderOf(o).status = "refunded") /\ q.rule = "PI-007"
  <2>1. R = {} /\ By("refunded", o, Boundary)
    BY <1>4, <1>6, <1>10
  <2>. QED  BY <1>1, <1>2, <1>3, <1>10, <2>1, Claims DEF R
<1>11. CASE sr > 0 /\ wr > 0 /\ sr # wr /\ q.rule = "PI-008"
  <2>1. R # {} /\ By("refunded", o, Boundary) /\ sr # WooPrice(o).minor
    BY <1>4, <1>11
  <2>. QED  BY <1>1, <1>2, <1>3, <1>4, <1>11, <2>1, Claims DEF R
<1>. QED  BY <1>7, <1>8, <1>9, <1>10, <1>11

LEMMA PI002IsReal ==
  ASSUME EvidenceInv, Judges, Undisturbed, NEW q \in PI002(s)
  PROVE  Real(q.rule, q.ids, Boundary)
<1>1. PICK x \in Unclaimed(s) \ OutOfReach(s) :
        /\ x.store_hint = s.store /\ q.rule = "PI-002" /\ q.ids = {PaymentId(x)}
  BY DEF PI002, Says
<1>2. PICK p \in Payment : x = PaymentOf(p) /\ Known("created", p)
  BY SnapshotIs DEF Unclaimed
<1>3. /\ PaymentOf(p).store_hint = shop.store[p] /\ PaymentId(PaymentOf(p)) = <<"payment", p>>
      /\ PaymentOf(p).status = (IF Known("succeeded", p) THEN "succeeded"
                                ELSE "requires_payment_method")
      /\ s.store = Store
  BY <1>2, PaymentIs, NamesOfIds, SnapshotIs
<1>4. /\ Claimants(s, PaymentOf(p)) = {} /\ <<"payment", p>> \notin Doubtful(s)
      /\ PaymentOf(p).status = "succeeded" /\ ~(PaymentOf(p).changed_at > Boundary)
  BY <1>1, <1>2, <1>3 DEF Unclaimed, OutOfReach, Boundary, s
<1>5. Known("succeeded", p) /\ shop.store[p] = Store /\ q.ids = {<<"payment", p>>}
  BY <1>1, <1>2, <1>3, <1>4
<1>6. By("succeeded", p, Boundary)
  BY <1>2, <1>4, <1>5, PaymentAtBoundary
<1>7. ASSUME NEW o \in Order, By("placed", o, Boundary), p \in Mine(o)
      PROVE  p \notin Names(o) /\ ~Confirmed(o)
  <2>1. Known("placed", o)
    <3>1. <<"placed", o>> \in Event
      BY Kinds DEF OrderEvent
    <3>. QED  BY <1>7, <3>1, Knowledge DEF Known, By
  <2>2. p \notin Seen(o) \/ Conflict(s, OrderOf(o))
    <3>. SUFFICES ASSUME p \in Seen(o), ~Conflict(s, OrderOf(o)) PROVE FALSE
      OBVIOUS
    <3>1. OrderOf(o) \in Matched(s)
      BY <2>1, SnapshotIs, OrderIs DEF Matched
    <3>2. PaymentOf(p) \in Group(s, OrderOf(o))
      BY GroupIs DEF Seen
    <3>. QED  BY <1>4, <3>1, <3>2 DEF Claimants
  <2>3. p \in Names(o) => p \in Found(o)
    BY <1>2, <1>5 DEF Names, Found, Finds
  <2>4. p \notin Found(o)
    BY <1>4, <2>1, <2>2, DoubtfulByConflict DEF Seen
  <2>5. p \in Seen(o)
    BY <1>2, <1>7, <2>3, <2>4 DEF Mine, Seen, Hinted
  <2>6. ~Confirmed(o)
    BY <1>7, <2>2, <2>5, ConfirmedHasNoConflict
  <2>. QED  BY <2>3, <2>4, <2>6
<1>8. Orphan(p, Boundary)
  BY <1>5, <1>6, <1>7 DEF Orphan
<1>. QED  BY <1>1, <1>5, <1>8 DEF Real

(* What a run says of the orders that it judges. *)
Judgements(x) == UNION {PI001(s, x), PI003(s, x), PI004(s, x), PI005(s, x), RefundRules(s, x)}

LEMMA EvaluationIs ==
  ASSUME Judges
  PROVE  evaluate(s) = Result(s, PI010(s) \union PI002(s)
                                 \union UNION {Judgements(x) : x \in Decided(s)},
                              Rules, BlockedIds(s))
<1>1. Stale(s) = {} /\ s.link = "verified"
  BY SnapshotIs DEF Judges, s
<1>2. evaluate(s) = Result(s, PI010(s) \union PI002(s)
                   \union UNION {UNION {PI001(s, o), PI003(s, o), PI004(s, o), PI005(s, o),
                                        RefundRules(s, o)} : o \in Decided(s)},
                Rules, BlockedIds(s))
  BY <1>1 DEF evaluate
<1>. QED  BY <1>2, Zenon DEF Judgements

(* Whatever a run of the engine proposes about money.                      *)
LEMMA ProposalsAre ==
  ASSUME Judges, NEW q \in evaluate(s).proposals, q.rule \in Financial \union {"PI-002"}
  PROVE  \E r : /\ r.rule = q.rule /\ r.ids = q.ids
                /\ r \in PI002(s) \/ \E x \in Decided(s) : r \in Judgements(x)
<1>. DEFINE All == PI010(s) \union PI002(s) \union UNION {Judgements(x) : x \in Decided(s)}
<1>1. evaluate(s) = Result(s, All, Rules, BlockedIds(s))
  BY EvaluationIs
<1>. HIDE DEF All
<1>2. PICK r \in All : r.rule = q.rule /\ r.ids = q.ids
  BY <1>1 DEF Result
<1>3. r \notin PI010(s)
  <2>1. \A x \in PI010(s) : x.rule = "PI-010"
    BY DEF PI010, Says
  <2>. QED  BY <1>2, <2>1 DEF Financial
<1>. QED  BY <1>2, <1>3 DEF All

LEMMA RaisedFollows == ASSUME EvidenceInv PROVE RaisedIsReal
<1>. SUFFICES ASSUME Judges, Undisturbed, NEW q \in evaluate(s).proposals,
                     q.rule \in Financial \union {"PI-002"}
              PROVE  Real(q.rule, q.ids, Boundary)
  BY DEF RaisedIsReal, s, Boundary
<1>1. PICK r : /\ r.rule = q.rule /\ r.ids = q.ids
               /\ r \in PI002(s) \/ \E x \in Decided(s) : r \in Judgements(x)
  BY ProposalsAre
<1>2. CASE r \in PI002(s)
  BY <1>1, <1>2, PI002IsReal
<1>3. ASSUME NEW x \in Decided(s), r \in Judgements(x) PROVE Real(q.rule, q.ids, Boundary)
  <2>1. PICK o \in Order : x = OrderOf(o) /\ Judged(o)
    BY DecidedIs DEF Judged
  <2>2. CASE r \in PI001(s, OrderOf(o))
    BY <1>1, <2>1, <2>2, PI001IsReal
  <2>3. CASE r \in PI003(s, OrderOf(o))
    BY <1>1, <2>1, <2>3, PI003IsReal
  <2>4. CASE r \in PI004(s, OrderOf(o))
    BY <1>1, <2>1, <2>4, PI004IsReal
  <2>5. CASE r \in PI005(s, OrderOf(o))
    BY <1>1, <2>1, <2>5, PI005IsReal
  <2>6. CASE r \in RefundRules(s, OrderOf(o))
    BY <1>1, <2>1, <2>6, RefundRulesAreReal
  <2>. QED  BY <1>3, <2>1, <2>2, <2>3, <2>4, <2>5, <2>6 DEF Judgements
<1>. QED  BY <1>1, <1>2, <1>3

(* A financial finding is raised only for a disagreement that existed at   *)
(* the boundary, of any orders, payments and prices (engine.py:99, 187,    *)
(* 203, 246, 303).                                                         *)
THEOREM RaisedIsRealAlways == EvidenceSpec => []RaisedIsReal
<1>1. EvidenceInv => RaisedIsReal
  BY RaisedFollows
<1>. QED  BY <1>1, EvidenceInvariant, PTL

----------------------------------------------------------------------------
(* What is so is said, or its order is blocked: CleanIsReal. *)

LEMMA CleanMeans ==
  ASSUME Judges, NEW rule, NEW ids, Clean(evaluate(s), rule, ids)
  PROVE  /\ ids \cap BlockedIds(s) = {}
         /\ \A r \in PI002(s) : ~(r.rule = rule /\ r.ids = ids)
         /\ \A x \in Decided(s) : \A r \in Judgements(x) : ~(r.rule = rule /\ r.ids = ids)
<1>. DEFINE All == PI010(s) \union PI002(s) \union UNION {Judgements(x) : x \in Decided(s)}
            proposal(q) == [rule |-> q.rule, ids |-> q.ids, eligible |-> q.eligible,
                            ready |-> s.now >= q.eligible]
            enabled == Rules \ s.policy.disabled_rules
<1>1. evaluate(s) = Result(s, All, Rules, BlockedIds(s))
  BY EvaluationIs
<1>. HIDE DEF All
<1>2. /\ evaluate(s).proposals = {proposal(q) : q \in {r \in All : r.rule \in enabled}}
      /\ evaluate(s).rules = Rules \cap enabled /\ evaluate(s).blocked = BlockedIds(s)
  <2>1. Result(s, All, Rules, BlockedIds(s)) =
          [proposals |-> {proposal(q) : q \in {r \in All : r.rule \in enabled}},
           rules |-> Rules \cap enabled, blocked |-> BlockedIds(s)]
    BY Zenon DEF Result
  <2>. HIDE DEF proposal, enabled
  <2>. QED  BY <1>1, <2>1
<1>3. /\ \A q \in evaluate(s).proposals : <<q.rule, q.ids>> # <<rule, ids>>
      /\ rule \in evaluate(s).rules /\ ids \cap evaluate(s).blocked = {}
  BY Zenon DEF Clean
<1>4. ASSUME NEW r \in All, r.rule = rule, r.ids = ids PROVE FALSE
  <2>1. proposal(r) \in evaluate(s).proposals
    <3>. HIDE DEF proposal, enabled
    <3>. QED  BY <1>2, <1>3, <1>4
  <2>2. proposal(r).rule = rule /\ proposal(r).ids = ids
    BY <1>4
  <2>. HIDE DEF proposal
  <2>. QED  BY <1>3, <2>1, <2>2
<1>5. ids \cap BlockedIds(s) = {}
  BY <1>2, <1>3
<1>. QED  BY <1>4, <1>5 DEF All

(* An order that is not spoken of is blocked. *)
LEMMA UnblockedIsJudged ==
  ASSUME EvidenceInv, Judges, Undisturbed, NEW o \in Order, By("placed", o, Boundary),
         Confirmed(o), <<"order", o>> \notin BlockedIds(s)
  PROVE  Judged(o) /\ ~RefundsHeld(s, OrderOf(o))
<1>1. Known("placed", o)
  <2>1. <<"placed", o>> \in Event
    BY Kinds DEF OrderEvent
  <2>. QED  BY <2>1, Knowledge DEF Known, By
<1>2. OrderOf(o) \in Matched(s)
  BY <1>1, ConfirmedHasNoConflict, SnapshotIs, OrderIs DEF Matched
<1>3. OrderId(OrderOf(o)) = <<"order", o>>
  BY NamesOfIds
<1>4. OrderOf(o) \notin Held(s)
  <2>. SUFFICES ASSUME OrderOf(o) \in Held(s) PROVE FALSE
    OBVIOUS
  <2>1. <<"order", o>> \notin Doubtful(s)
    BY DEF BlockedIds
  <2>2. <<"order", o>> \in GroupIds(s, OrderOf(o))
    BY <1>3 DEF GroupIds
  <2>. QED  BY <1>3, <2>1, <2>2 DEF BlockedIds
<1>5. OrderOf(o) \in Decided(s)
  BY <1>2, <1>4 DEF Decided
<1>6. ~RefundsHeld(s, OrderOf(o))
  BY <1>3, <1>5 DEF BlockedIds
<1>. QED  BY <1>1, <1>5, <1>6 DEF Judged

LEMMA PI001IsSaid ==
  ASSUME EvidenceInv, Judges, Undisturbed, NEW o, Judged(o), NEW p \in Payers(o, Boundary),
         ~By("paid", o, Boundary)
  PROVE  \E r \in PI001(s, OrderOf(o)) :
           r.rule = "PI-001" /\ r.ids = {<<"order", o>>, <<"payment", p>>}
<1>1. o \in Order /\ p \in Payment /\ PaymentOf(p) \in Succeeded(s, OrderOf(o))
  BY SucceededIs DEF Judged
<1>2. OrderOf(o).status \in UNPAID
  <2>1. /\ <<"paid", o>> \in Event /\ <<"refunded", o>> \in Event
        /\ when[<<"paid", o>>] <= when[<<"refunded", o>>]
    BY <1>1, Kinds DEF EvidenceInv, InOrder, OrderEvent
  <2>2. /\ when[<<"paid", o>>] \in Int /\ when[<<"refunded", o>>] \in Int /\ Boundary \in Int
    BY <2>1, Knowledge, BoundaryIs
  <2>3. ~By("refunded", o, Boundary)
    BY <2>1, <2>2 DEF By
  <2>4. ~Known("paid", o) /\ ~Known("refunded", o)
    BY <2>3, JudgedAtBoundary DEF OrderEvent
  <2>5. OrderOf(o).status = "pending"
    BY <1>1, <2>4, OrderIs
  <2>. QED  BY <2>5 DEF UNPAID
<1>. DEFINE r == [rule |-> "PI-001", ids |-> {OrderId(OrderOf(o)), PaymentId(PaymentOf(p))},
                  eligible |-> Due(PaymentOf(p), s)]
<1>3. r \in PI001(s, OrderOf(o))
  BY <1>1, <1>2 DEF PI001, Says
<1>4. r.rule = "PI-001" /\ r.ids = {<<"order", o>>, <<"payment", p>>}
  BY <1>1, NamesOfIds
<1>. QED  BY <1>3, <1>4

LEMMA PI003IsSaid ==
  ASSUME EvidenceInv, Judges, Undisturbed, NEW o, Judged(o), Payers(o, Boundary) = {},
         By("paid", o, Boundary), ~By("refunded", o, Boundary)
  PROVE  \E r \in PI003(s, OrderOf(o)) : r.rule = "PI-003" /\ r.ids = {<<"order", o>>}
<1>1. o \in Order /\ Succeeded(s, OrderOf(o)) = {}
  BY SucceededIs DEF Judged
<1>2. OrderOf(o).status \in PAID
  <2>1. Known("paid", o) /\ ~Known("refunded", o)
    BY JudgedAtBoundary DEF OrderEvent
  <2>2. OrderOf(o).status = "processing"
    BY <1>1, <2>1, OrderIs
  <2>. QED  BY <2>2 DEF PAID
<1>. DEFINE e == (IF OrderOf(o).paid_at = Missing THEN OrderOf(o).changed_at
                  ELSE OrderOf(o).paid_at) + s.policy.instant_grace
            r == [rule |-> "PI-003", ids |-> {OrderId(OrderOf(o))}, eligible |-> e]
<1>3. PI003(s, OrderOf(o)) = Says("PI-003", {OrderId(OrderOf(o))}, e)
  BY <1>1, <1>2 DEF PI003
<1>. HIDE DEF e
<1>4. r \in PI003(s, OrderOf(o))
  BY <1>3 DEF Says
<1>5. r.rule = "PI-003" /\ r.ids = {<<"order", o>>}
  BY <1>1, NamesOfIds
<1>. QED  BY <1>4, <1>5

LEMMA PI004IsSaid ==
  ASSUME EvidenceInv, Judges, Undisturbed, NEW o, Judged(o),
         Cardinality(Payers(o, Boundary)) > 1, Corrected(o, Boundary) = {}
  PROVE  \E r \in PI004(s, OrderOf(o)) :
           /\ r.rule = "PI-004"
           /\ r.ids = {<<"order", o>>} \union
                {<<"payment", q>> : q \in {x \in Mine(o) : By("created", x, Boundary)}}
<1>. DEFINE e == Max({Due(p, s) : p \in Succeeded(s, OrderOf(o))})
            r == [rule |-> "PI-004", ids |-> GroupIds(s, OrderOf(o)), eligible |-> e]
<1>1. PI004(s, OrderOf(o)) = Says("PI-004", GroupIds(s, OrderOf(o)), e)
  BY CorrectedIs DEF PI004
<1>. HIDE DEF e
<1>2. r \in PI004(s, OrderOf(o))
  BY <1>1 DEF Says
<1>3. r.rule = "PI-004" /\ r.ids = GroupIds(s, OrderOf(o))
  OBVIOUS
<1>. QED  BY <1>2, <1>3, GroupIdsAre

LEMMA PI005IsSaid ==
  ASSUME EvidenceInv, Judges, Undisturbed, NEW o, Judged(o), NEW p \in Payers(o, Boundary),
         ~SamePrice(o, p)
  PROVE  \E r \in PI005(s, OrderOf(o)) :
           r.rule = "PI-005" /\ r.ids = {<<"order", o>>, <<"payment", p>>}
<1>1. o \in Order /\ p \in Payment /\ PaymentOf(p) \in Succeeded(s, OrderOf(o))
  BY SucceededIs DEF Judged
<1>2. PaymentOf(p).received # OrderOf(o).amount
  <2>1. PaymentOf(p).received = WooPrice(p) /\ OrderOf(o).amount = WooPrice(o)
    BY <1>1, AmountIs, PaymentIs, OrderIs
  <2>. QED  BY <1>1, <2>1, AmountIs DEF SamePrice
<1>. DEFINE r == [rule |-> "PI-005", ids |-> {OrderId(OrderOf(o)), PaymentId(PaymentOf(p))},
                  eligible |-> Due(PaymentOf(p), s)]
<1>3. r \in PI005(s, OrderOf(o))
  BY <1>1, <1>2 DEF PI005, Says
<1>4. r.rule = "PI-005" /\ r.ids = {<<"order", o>>, <<"payment", p>>}
  BY <1>1, NamesOfIds
<1>. QED  BY <1>3, <1>4

LEMMA RefundsAreSaid ==
  ASSUME EvidenceInv, Judges, Undisturbed, NEW o, Judged(o), ~RefundsHeld(s, OrderOf(o)),
         NEW rule, NEW p, rule \in {"PI-006", "PI-007", "PI-008"}, Disagrees(rule, o, p, Boundary)
  PROVE  \E r \in RefundRules(s, OrderOf(o)) : r.rule = rule /\ r.ids = {<<"order", o>>}
<1>. DEFINE x == OrderOf(o)
            R == Returned(o, Boundary)
            sr == Sum(StripeRefunds(s, x))
            wr == x.refunded.minor
            times == {r.changed_at : r \in OrderRefunds(s, x)}
            eligible == s.policy.refund_grace
              + Max({IF wr > 0 \/ x.status = "refunded" THEN x.changed_at ELSE s.window_from}
                    \union times)
            other == s.policy.refund_grace + Max({x.changed_at} \union times)
            Judgement == CASE sr > 0 /\ wr = 0 -> Says("PI-006", {OrderId(x)}, eligible)
              [] sr = 0 /\ (wr > 0 \/ x.status = "refunded")
                   -> Says("PI-007", {OrderId(x)}, eligible)
              [] sr > 0 /\ wr > 0 /\ sr # wr -> Says("PI-008", {OrderId(x)}, eligible)
              [] OTHER -> {}
<1>1. RefundRules(s, x) = IF RefundsHeld(s, x) THEN {}
                          ELSE IF OtherCurrency(s, x) THEN Says("PI-008", {OrderId(x)}, other)
                          ELSE Judgement
  BY Zenon DEF RefundRules
<1>2. o \in Order /\ ~LateRefund(s, x) /\ OrderId(x) = <<"order", o>>
  BY NamesOfIds DEF Judged, RefundsHeld
<1>3. /\ OtherCurrency(s, x) <=> Abroad(o, Boundary)
      /\ sr \in Nat /\ (sr = 0 <=> R = {}) /\ sr = Total(R)
      /\ wr = IF By("refunded", o, Boundary) THEN WooPrice(o).minor ELSE 0
  BY <1>2, RefundSums
<1>4. WooPrice(o).minor \in Nat \ {0}
  BY <1>2, AmountIs
<1>5. /\ Disagrees("PI-006", o, p, Boundary) =>
           R # {} /\ ~By("refunded", o, Boundary) /\ ~Abroad(o, Boundary)
      /\ Disagrees("PI-007", o, p, Boundary) => R = {} /\ By("refunded", o, Boundary)
      /\ Disagrees("PI-008", o, p, Boundary) =>
           \/ Abroad(o, Boundary)
           \/ R # {} /\ By("refunded", o, Boundary) /\ Total(R) # WooPrice(o).minor
  BY DEF Disagrees
<1>6. R = {} => ~Abroad(o, Boundary)
  BY DEF Abroad
<1>. HIDE DEF x, R, sr, wr, times, eligible, other
<1>7. ASSUME NEW e, Says(rule, {OrderId(x)}, e) = RefundRules(s, x)
      PROVE  \E r \in RefundRules(s, x) : r.rule = rule /\ r.ids = {<<"order", o>>}
  <2>. DEFINE r == [rule |-> rule, ids |-> {OrderId(x)}, eligible |-> e]
  <2>1. r \in RefundRules(s, x) /\ r.rule = rule /\ r.ids = {<<"order", o>>}
    BY <1>2, <1>7 DEF Says
  <2>. QED  BY <2>1
<1>8. CASE rule = "PI-006"
  <2>1. ~OtherCurrency(s, x) /\ sr > 0 /\ wr = 0
    BY <1>3, <1>5, <1>8
  <2>2. Judgement = Says("PI-006", {OrderId(x)}, eligible)
    BY <2>1
  <2>. QED  BY <1>1, <1>7, <1>8, <2>1, <2>2 DEF x
<1>9. CASE rule = "PI-007"
  <2>1. ~OtherCurrency(s, x) /\ sr = 0 /\ wr > 0
    BY <1>3, <1>4, <1>5, <1>6, <1>9
  <2>2. Judgement = Says("PI-007", {OrderId(x)}, eligible)
    BY <2>1
  <2>. QED  BY <1>1, <1>7, <1>9, <2>1, <2>2 DEF x
<1>10. CASE rule = "PI-008" /\ OtherCurrency(s, x)
  BY <1>1, <1>7, <1>10 DEF x
<1>11. CASE rule = "PI-008" /\ ~OtherCurrency(s, x)
  <2>1. sr > 0 /\ wr > 0 /\ sr # wr
    BY <1>3, <1>4, <1>5, <1>11
  <2>2. Judgement = Says("PI-008", {OrderId(x)}, eligible)
    BY <2>1
  <2>. QED  BY <1>1, <1>7, <1>11, <2>1, <2>2 DEF x
<1>. QED  BY <1>8, <1>9, <1>10, <1>11

LEMMA DisagreementIsSaid ==
  ASSUME EvidenceInv, Judges, Undisturbed, NEW o \in Order, NEW p \in Payment,
         NEW rule \in Financial, Disagrees(rule, o, p, Boundary)
  PROVE  ~Clean(evaluate(s), rule, IdsOf(rule, o, p, Boundary))
<1>. DEFINE ids == IdsOf(rule, o, p, Boundary)
<1>. SUFFICES ASSUME Clean(evaluate(s), rule, ids) PROVE FALSE
  OBVIOUS
<1>1. /\ ids \cap BlockedIds(s) = {}
      /\ \A x \in Decided(s) : \A r \in Judgements(x) : ~(r.rule = rule /\ r.ids = ids)
  BY CleanMeans
<1>2. <<"order", o>> \in ids
  BY DEF IdsOf
<1>3. By("placed", o, Boundary) /\ Clear(o, Boundary) /\ Confirmed(o)
  BY DEF Disagrees, Clear
<1>4. Judged(o) /\ ~RefundsHeld(s, OrderOf(o))
  BY <1>1, <1>2, <1>3, UnblockedIsJudged
<1>5. \A r \in Judgements(OrderOf(o)) : ~(r.rule = rule /\ r.ids = ids)
  BY <1>1, <1>4 DEF Judged
<1>6. /\ rule = "PI-001" => p \in Payers(o, Boundary) /\ ~By("paid", o, Boundary)
      /\ rule = "PI-003" => By("paid", o, Boundary) /\ ~By("refunded", o, Boundary)
                              /\ Payers(o, Boundary) = {}
      /\ rule = "PI-004" => Cardinality(Payers(o, Boundary)) > 1 /\ Corrected(o, Boundary) = {}
      /\ rule = "PI-005" => p \in Payers(o, Boundary) /\ ~SamePrice(o, p)
  BY DEF Disagrees
<1>7. CASE rule = "PI-001"
  <2>1. ids = {<<"order", o>>, <<"payment", p>>}
    BY <1>7 DEF IdsOf
  <2>. QED  BY <1>4, <1>5, <1>6, <1>7, <2>1, PI001IsSaid DEF Judgements
<1>8. CASE rule = "PI-003"
  <2>1. ids = {<<"order", o>>}
    BY <1>8 DEF IdsOf
  <2>. QED  BY <1>4, <1>5, <1>6, <1>8, <2>1, PI003IsSaid DEF Judgements
<1>9. CASE rule = "PI-004"
  <2>1. ids = {<<"order", o>>} \union
          {<<"payment", q>> : q \in {x \in Mine(o) : By("created", x, Boundary)}}
    BY <1>9 DEF IdsOf
  <2>. HIDE DEF ids
  <2>. QED  BY <1>4, <1>5, <1>6, <1>9, <2>1, PI004IsSaid DEF Judgements
<1>10. CASE rule = "PI-005"
  <2>1. ids = {<<"order", o>>, <<"payment", p>>}
    BY <1>10 DEF IdsOf
  <2>. QED  BY <1>4, <1>5, <1>6, <1>10, <2>1, PI005IsSaid DEF Judgements
<1>11. CASE rule \in {"PI-006", "PI-007", "PI-008"}
  <2>1. ids = {<<"order", o>>}
    BY <1>11 DEF IdsOf
  <2>. QED  BY <1>4, <1>5, <1>11, <2>1, RefundsAreSaid DEF Judgements
<1>. QED  BY <1>7, <1>8, <1>9, <1>10, <1>11 DEF Financial

(* An order placed after the boundary is held back, with its payments.     *)
LEMMA LaterIsBlocked ==
  ASSUME EvidenceInv, Judges, Undisturbed, NEW q \in Order, Known("placed", q),
         ~By("placed", q, Boundary), ~Conflict(s, OrderOf(q)), Clear(q, time), NEW p \in Seen(q)
  PROVE  <<"payment", p>> \in BlockedIds(s)
<1>1. OrderOf(q) \in Matched(s)
  BY SnapshotIs, OrderIs DEF Matched
<1>2. OrderOf(q) \in Held(s)
  <2>1. OrderOf(q).changed_at > Boundary
    BY OrderAtBoundary DEF OrderEvent
  <2>. QED  BY <1>1, <2>1 DEF Held, Boundary, s
<1>3. OrderId(OrderOf(q)) \notin Doubtful(s)
  <2>1. ASSUME NEW x \in Conflicting(s), OrderId(OrderOf(q)) \in ConflictIds(s, x) PROVE FALSE
    <3>1. PICK y \in Order : x = OrderOf(y) /\ Conflict(s, OrderOf(y))
      BY SnapshotIs DEF Conflicting
    <3>2. <<"order", q>> \in ConflictIds(s, OrderOf(y))
      BY <2>1, <3>1, NamesOfIds
    <3>3. <<"order", q>> = <<"order", y>>
      BY <3>1, <3>2, NamesOfIds DEF ConflictIds, PaymentId
    <3>. QED  BY <3>1, <3>3
  <2>2. ASSUME NEW x \in Contested(s), OrderId(OrderOf(q)) \in ContestIds(s, x) PROVE FALSE
    <3>1. PICK r \in Payment : x = PaymentOf(r) /\ Known("created", r)
      BY SnapshotIs DEF Contested
    <3>2. \A y \in Claimants(s, x) : \E o \in Order :
            y = OrderOf(o) /\ Known("placed", o) /\ ~Conflict(s, OrderOf(o)) /\ r \in Seen(o)
      <4>. SUFFICES ASSUME NEW y \in Claimants(s, x)
                    PROVE  \E o \in Order : y = OrderOf(o) /\ Known("placed", o)
                             /\ ~Conflict(s, OrderOf(o)) /\ r \in Seen(o)
        OBVIOUS
      <4>1. PICK o \in Order : y = OrderOf(o) /\ Known("placed", o)
        BY SnapshotIs DEF Claimants, Matched
      <4>2. ~Conflict(s, OrderOf(o)) /\ PaymentOf(r) \in Group(s, OrderOf(o))
        BY <3>1, <4>1 DEF Claimants, Matched
      <4>3. PICK z \in Seen(o) : PaymentOf(r) = PaymentOf(z) /\ z \in Payment
        BY <4>1, <4>2, GroupIs DEF Seen, Found, Hinted
      <4>. QED  BY <3>1, <4>1, <4>2, <4>3, SamePayment
    <3>3. OrderOf(q) \in Claimants(s, x)
      <4>1. <<"order", q>> \in {PaymentId(x)} \union {OrderId(y) : y \in Claimants(s, x)}
        BY <2>2, NamesOfIds DEF ContestIds
      <4>2. PICK y \in Claimants(s, x) : <<"order", q>> = OrderId(y)
        BY <4>1 DEF PaymentId
      <4>3. PICK o \in Order : y = OrderOf(o)
        BY <3>2, <4>2
      <4>. QED  BY <4>2, <4>3, NamesOfIds
    <3>4. PICK y \in Claimants(s, x) : y # OrderOf(q)
      <4>1. IsFiniteSet(Claimants(s, x))
        BY OrdersAreFinite, FS_Subset DEF Claimants, Matched
      <4>2. Cardinality(Claimants(s, x)) > 1
        BY DEF Contested
      <4>. QED  BY <4>1, <4>2, MoreThanOne
    <3>5. PICK o \in Order :
            y = OrderOf(o) /\ Known("placed", o) /\ ~Conflict(s, OrderOf(o)) /\ r \in Seen(o)
      BY <3>2, <3>4
    <3>6. r \in Seen(q)
      <4>1. PICK z \in Order : OrderOf(q) = OrderOf(z) /\ r \in Seen(z)
        BY <3>2, <3>3
      <4>2. OrderId(OrderOf(q)) = OrderId(OrderOf(z))
        BY <4>1
      <4>. QED  BY <4>1, <4>2, NamesOfIds
    <3>7. r \in Mine(o) /\ r \in Mine(q)
      BY <3>5, <3>6, NoConflict DEF Seen, Hinted, Mine
    <3>8. By("placed", o, time)
      <4>1. <<"placed", o>> \in Event
        BY Kinds DEF OrderEvent
      <4>2. /\ time \in 0 .. LastTime /\ when[<<"placed", o>>] \in 0 .. LastTime \union {Never}
            /\ stamp[<<"placed", o>>] \in when[<<"placed", o>>] .. time \union {Never}
        BY <4>1 DEF EvidenceInv, EvidenceTypeOK, Time
      <4>. QED  BY <3>5, <4>2, Bounds DEF By, Known
    <3>9. o # q
      BY <3>4, <3>5
    <3>. QED  BY <3>7, <3>8, <3>9 DEF Clear
  <2>. QED  BY <2>1, <2>2 DEF Doubtful
<1>4. <<"payment", p>> \in GroupIds(s, OrderOf(q))
  <2>1. p \in Payment /\ PaymentOf(p) \in Group(s, OrderOf(q))
    BY GroupIs DEF Seen, Found, Hinted
  <2>2. PaymentId(PaymentOf(p)) = <<"payment", p>>
    BY <2>1, NamesOfIds
  <2>. QED  BY <2>1, <2>2 DEF GroupIds
<1>. QED  BY <1>2, <1>3, <1>4 DEF BlockedIds

LEMMA OrphanIsSaid ==
  ASSUME EvidenceInv, Judges, Undisturbed, NEW p \in Payment, Orphan(p, Boundary),
         \A q \in Order : p \in Mine(q) => By("placed", q, Boundary) \/ Clear(q, time)
  PROVE  ~Clean(evaluate(s), "PI-002", {<<"payment", p>>})
<1>. SUFFICES ASSUME Clean(evaluate(s), "PI-002", {<<"payment", p>>}) PROVE FALSE
  OBVIOUS
<1>1. /\ <<"payment", p>> \notin BlockedIds(s)
      /\ \A r \in PI002(s) : ~(r.rule = "PI-002" /\ r.ids = {<<"payment", p>>})
  BY CleanMeans
<1>2. Known("created", p) /\ Known("succeeded", p)
  <2>1. <<"succeeded", p>> \in Event /\ <<"created", p>> \in Event
    BY Kinds DEF PaymentEvent
  <2>2. /\ when[<<"created", p>>] \in Int /\ when[<<"succeeded", p>>] \in Int /\ Boundary \in Int
        /\ when[<<"created", p>>] <= when[<<"succeeded", p>>]
        /\ when[<<"succeeded", p>>] <= Boundary
    BY <2>1, Knowledge, BoundaryIs DEF EvidenceInv, InOrder, Orphan, By
  <2>3. when[<<"created", p>>] <= Boundary
    BY <2>2
  <2>. QED  BY <2>1, <2>2, <2>3, Knowledge DEF Known
<1>3. /\ PaymentOf(p).status = "succeeded" /\ PaymentOf(p).store_hint = Store
      /\ PaymentId(PaymentOf(p)) = <<"payment", p>> /\ s.store = Store
  <2>1. PaymentOf(p).status = IF Known("succeeded", p) THEN "succeeded"
                              ELSE "requires_payment_method"
    BY PaymentIs
  <2>2. PaymentOf(p).store_hint = shop.store[p]
    BY PaymentIs
  <2>. QED  BY <1>2, <2>1, <2>2, NamesOfIds, SnapshotIs DEF Orphan
<1>4. PaymentOf(p) \in s.payments
  BY <1>2, SnapshotIs
<1>5. Claimants(s, PaymentOf(p)) = {}
  <2>. SUFFICES ASSUME NEW x \in Claimants(s, PaymentOf(p)) PROVE FALSE
    OBVIOUS
  <2>1. PICK q \in Order : x = OrderOf(q) /\ Known("placed", q)
    BY SnapshotIs DEF Claimants, Matched
  <2>2. ~Conflict(s, OrderOf(q)) /\ PaymentOf(p) \in Group(s, OrderOf(q))
    BY <2>1 DEF Claimants, Matched
  <2>3. PICK z \in Seen(q) : PaymentOf(p) = PaymentOf(z) /\ z \in Payment
    BY <2>1, <2>2, GroupIs DEF Seen, Found, Hinted
  <2>4. p \in Seen(q)
    BY <2>3, SamePayment
  <2>5. Confirmed(q) /\ p \in Mine(q)
    BY <2>1, <2>2, <2>4, NoConflict DEF Seen, Hinted, Mine
  <2>6. ~By("placed", q, Boundary)
    BY <2>5 DEF Orphan
  <2>. QED  BY <1>1, <2>1, <2>2, <2>4, <2>5, <2>6, LaterIsBlocked
<1>6. PaymentOf(p) \in Unclaimed(s)
  BY <1>1, <1>3, <1>4, <1>5 DEF Unclaimed, BlockedIds
<1>7. PaymentOf(p) \notin OutOfReach(s)
  BY <1>1, <1>3 DEF BlockedIds
<1>. DEFINE r == [rule |-> "PI-002", ids |-> {PaymentId(PaymentOf(p))},
                  eligible |-> Due(PaymentOf(p), s)]
<1>8. r \in PI002(s)
  BY <1>3, <1>6, <1>7 DEF PI002, Says
<1>. QED  BY <1>1, <1>3, <1>8

LEMMA CleanFollows == ASSUME EvidenceInv PROVE CleanIsReal
<1>1. ASSUME Judges, Undisturbed, NEW o \in Order, NEW p \in Payment
      PROVE  /\ \A rule \in Financial :
                  Disagrees(rule, o, p, Boundary)
                    => ~Clean(evaluate(s), rule, IdsOf(rule, o, p, Boundary))
             /\ Orphan(p, Boundary)
                  /\ (\A q \in Order : p \in Mine(q) => By("placed", q, Boundary) \/ Clear(q, time))
                  => ~Clean(evaluate(s), "PI-002", {<<"payment", p>>})
  BY <1>1, DisagreementIsSaid, OrphanIsSaid
<1>. QED  BY <1>1 DEF CleanIsReal, s, Boundary

(* No evaluation is clean evidence against a disagreement that exists at   *)
(* the boundary: either it is proposed, or one of its identities is        *)
(* blocked (engine.py:131-133, 179-189, 246-248, 266-274, 304).            *)
THEOREM CleanIsRealAlways == EvidenceSpec => []CleanIsReal
<1>1. EvidenceInv => CleanIsReal
  BY CleanFollows
<1>. QED  BY <1>1, EvidenceInvariant, PTL

----------------------------------------------------------------------------
(* Nothing is ready in a healthy shop: HealthyIsSilent. *)

(* The grace covers what a healthy shop takes and what a run may be late.  *)
LEMMA GraceIs ==
  ASSUME EvidenceInv, Judges, FitsGrace, NEW t \in Int,
         NEW least \in {shop.policy.instant_grace, shop.policy.refund_grace}, t + least <= time
  PROVE  t + Delay <= Boundary
<1>1. /\ shop.policy.instant_grace \in Nat /\ shop.policy.refund_grace \in Nat
      /\ shop.policy.freshness \in Nat /\ Delay \in Nat /\ time \in Int
      /\ Boundary \in Int
  BY ShopIsOK, EvidenceAssumption, BoundaryIs, Bounds
     DEF EvidenceInv, EvidenceTypeOK, CaseOK, Time
<1>2. Delay + shop.policy.freshness <= least
  BY <1>1, MinOfTwo DEF FitsGrace
<1>3. time - Boundary <= shop.policy.freshness
  <2>1. \A d \in Side : time - through[d] <= shop.policy.freshness
    <3>1. ASSUME NEW k \in Required
          PROVE  s.now - s.coverage[k].covered_through <= s.policy.freshness
      BY DEF Judges, Stale, fresh, s
    <3>2. Required \subseteq Covered
      <4>1. ASSUME NEW k \in Required PROVE k \in DOMAIN s.coverage
        BY DEF Judges, Stale, s
      <4>. QED  BY <4>1, SnapshotIs
    <3>3. /\ s.coverage["woo_orders"].covered_through = through["woo"]
          /\ s.coverage["stripe_payments"].covered_through = through["stripe"]
          /\ "woo_orders" \in Required /\ "stripe_payments" \in Required
      BY <3>2, CoverageIs DEF Required
    <3>. QED  BY <3>1, <3>3, SnapshotIs DEF Side
  <2>2. \E d \in Side : Boundary = through[d]
    BY BoundaryIs
  <2>. QED  BY <2>1, <2>2
<1>. QED  BY <1>1, <1>2, <1>3

(* What follows within the delay had followed by the boundary. *)
LEMMA FollowedBy ==
  ASSUME EvidenceInv, Judges, Undisturbed, NEW e \in Event, NEW f \in Event,
         when[e] = Never \/ when[f] <= when[e] + Delay \/ time <= when[e] + Delay,
         NEW t \in Int, when[e] <= t, t + Delay <= Boundary
  PROVE  when[f] <= Boundary
<1>1. /\ when[e] \in Int /\ when[f] \in Int /\ Boundary \in Int /\ Delay \in Nat
      /\ Boundary < Never /\ Boundary < time /\ time \in Int /\ Never \in Int
  BY Knowledge, BoundaryIs, EvidenceAssumption, Bounds DEF EvidenceInv, EvidenceTypeOK, Time
<1>. QED  BY <1>1

(* A proposal is ready when its time has come. *)
LEMMA ReadyIs ==
  ASSUME Judges, NEW q \in evaluate(s).proposals, q.ready
  PROVE  \E r : /\ r.rule = q.rule /\ time >= r.eligible
                /\ \/ r \in PI010(s) \/ r \in PI002(s)
                   \/ \E x \in Decided(s) : r \in Judgements(x)
<1>. DEFINE All == PI010(s) \union PI002(s) \union UNION {Judgements(x) : x \in Decided(s)}
            proposal(r) == [rule |-> r.rule, ids |-> r.ids, eligible |-> r.eligible,
                            ready |-> s.now >= r.eligible]
            enabled == Rules \ s.policy.disabled_rules
<1>1. evaluate(s) = Result(s, All, Rules, BlockedIds(s))
  BY EvaluationIs
<1>. HIDE DEF All
<1>2. evaluate(s).proposals = {proposal(r) : r \in {x \in All : x.rule \in enabled}}
  <2>1. Result(s, All, Rules, BlockedIds(s)) =
          [proposals |-> {proposal(r) : r \in {x \in All : x.rule \in enabled}},
           rules |-> Rules \cap enabled, blocked |-> BlockedIds(s)]
    BY Zenon DEF Result
  <2>. HIDE DEF proposal, enabled
  <2>. QED  BY <1>1, <2>1
<1>3. PICK r \in All : q = proposal(r)
  <2>. HIDE DEF proposal, enabled
  <2>. QED  BY <1>2
<1>4. r.rule = q.rule /\ time >= r.eligible
  BY <1>3, SnapshotIs
<1>. QED  BY <1>3, <1>4 DEF All

(* When the payment of an order is due. *)
LEMMA DueIs ==
  ASSUME EvidenceInv, NEW p \in Payment, Known("succeeded", p)
  PROVE  /\ Due(PaymentOf(p), s) = stamp[<<"succeeded", p>>] + shop.policy.instant_grace
         /\ stamp[<<"succeeded", p>>] \in Int
         /\ when[<<"succeeded", p>>] <= stamp[<<"succeeded", p>>]
<1>1. <<"succeeded", p>> \in Event
  BY Kinds DEF PaymentEvent
<1>2. /\ time \in 0 .. LastTime /\ when[<<"succeeded", p>>] \in 0 .. LastTime \union {Never}
      /\ stamp[<<"succeeded", p>>] \in when[<<"succeeded", p>>] .. time \union {Never}
  BY <1>1 DEF EvidenceInv, EvidenceTypeOK, Time
<1>3. stamp[<<"succeeded", p>>] \in Nat /\ when[<<"succeeded", p>>] <= stamp[<<"succeeded", p>>]
  BY <1>2, Bounds
<1>4. SucceededAt(PaymentOf(p)) = stamp[<<"succeeded", p>>]
  <2>1. PaymentOf(p).succeeded_at = stamp[<<"succeeded", p>>]
    BY PaymentIs
  <2>2. stamp[<<"succeeded", p>>] # Missing
    BY <1>3 DEF Missing
  <2>. QED  BY <2>1, <2>2 DEF SucceededAt
<1>5. grace(PaymentOf(p), s) = shop.policy.instant_grace
  <2>1. PaymentOf(p).instant = TRUE /\ s.policy = shop.policy
    BY PaymentIs, SnapshotIs
  <2>. QED  BY <2>1 DEF grace
<1>. QED  BY <1>3, <1>4, <1>5 DEF Due

(* A judged order of a healthy shop has one payment, which is its own.     *)
LEMMA HealthyOrder ==
  ASSUME EvidenceInv, Judges, Undisturbed, Healthy, NEW o, Judged(o)
  PROVE  \E p \in Payment : HealthySale(o, p) /\ Payers(o, Boundary) \subseteq {p}
                            /\ ~(Cardinality(Payers(o, Boundary)) > 1)
                            /\ Corrected(o, Boundary) = {}
<1>1. o \in Order /\ By("placed", o, Boundary)
  BY JudgedIsClear DEF Judged
<1>2. By("placed", o, time)
  <2>1. <<"placed", o>> \in Event
    BY <1>1, Kinds DEF OrderEvent
  <2>2. when[<<"placed", o>>] \in Int /\ Boundary \in Int /\ Boundary < time /\ time \in Int
    BY <2>1, Knowledge, BoundaryIs, Bounds DEF EvidenceInv, EvidenceTypeOK, Time
  <2>. QED  BY <1>1, <2>2 DEF By
<1>3. PICK p \in Payment : HealthySale(o, p)
  BY <1>1, <1>2 DEF Healthy
<1>4. Payers(o, Boundary) \subseteq {p}
  BY <1>3 DEF HealthySale, Payers
<1>5. ~(Cardinality(Payers(o, Boundary)) > 1)
  <2>1. IsFiniteSet(Payers(o, Boundary))
    BY <1>4, FS_Singleton, FS_Subset
  <2>. QED  BY <1>4, <2>1, MoreThanOne
<1>6. Corrected(o, Boundary) = {}
  BY <1>5 DEF Corrected
<1>. QED  BY <1>3, <1>4, <1>5, <1>6

LEMMA EventsOf ==
  ASSUME EvidenceInv, NEW o \in Order, NEW p \in Payment
  PROVE  /\ \A k \in OrderEvent : <<k, o>> \in Event /\ when[<<k, o>>] \in Nat
         /\ \A k \in PaymentEvent : <<k, p>> \in Event /\ when[<<k, p>>] \in Nat
<1>1. \A e \in Event : when[e] \in Nat
  BY Bounds DEF EvidenceInv, EvidenceTypeOK, Time
<1>. QED  BY <1>1, Kinds

LEMMA PI001Waits ==
  ASSUME EvidenceInv, Judges, Undisturbed, FitsGrace, Healthy, NEW o, Judged(o),
         NEW r \in PI001(s, OrderOf(o)), time >= r.eligible
  PROVE  FALSE
<1>1. PICK x \in Succeeded(s, OrderOf(o)) : OrderOf(o).status \in UNPAID /\ r.eligible = Due(x, s)
  BY DEF PI001, Says
<1>2. PICK p \in Payers(o, Boundary) : x = PaymentOf(p) /\ p \in Payment /\ Known("succeeded", p)
  BY SucceededIs, JudgedAtBoundary
<1>3. o \in Order /\ HealthySale(o, p) /\ ~By("paid", o, Boundary)
  BY <1>1, <1>2, HealthyOrder, StatusIs DEF Judged
<1>. DEFINE t == stamp[<<"succeeded", p>>]
<1>4. t \in Int /\ when[<<"succeeded", p>>] <= t /\ r.eligible = t + shop.policy.instant_grace
  BY <1>1, <1>2, DueIs
<1>5. shop.policy.instant_grace \in Nat /\ time \in Int
  BY ShopIsOK, Bounds DEF EvidenceInv, EvidenceTypeOK, CaseOK, Time
<1>. HIDE DEF t
<1>6. t + Delay <= Boundary
  BY <1>4, <1>5, GraceIs
<1>7. <<"succeeded", p>> \in Event /\ <<"paid", o>> \in Event
  BY <1>2, <1>3, Kinds DEF OrderEvent, PaymentEvent
<1>8. when[<<"paid", o>>] <= Boundary
  BY <1>3, <1>4, <1>6, <1>7, FollowedBy DEF HealthySale, Follow
<1>. QED  BY <1>3, <1>8 DEF By

LEMMA PI003Waits ==
  ASSUME EvidenceInv, Judges, Undisturbed, FitsGrace, Healthy, NEW o, Judged(o),
         NEW r \in PI003(s, OrderOf(o)), time >= r.eligible
  PROVE  FALSE
<1>1. /\ Succeeded(s, OrderOf(o)) = {} /\ OrderOf(o).status \in PAID
      /\ r.eligible = (IF OrderOf(o).paid_at = Missing THEN OrderOf(o).changed_at
                       ELSE OrderOf(o).paid_at) + s.policy.instant_grace
  BY DEF PI003, Says
<1>2. o \in Order /\ Payers(o, Boundary) = {} /\ By("paid", o, Boundary)
  BY <1>1, SucceededIs, StatusIs DEF Judged
<1>3. PICK p \in Payment : HealthySale(o, p)
  BY HealthyOrder
<1>. DEFINE t == when[<<"paid", o>>]
<1>4. /\ <<"succeeded", p>> \in Event /\ <<"paid", o>> \in Event /\ t \in Nat
  BY <1>2, EventsOf DEF OrderEvent, PaymentEvent
<1>5. r.eligible = t + shop.policy.instant_grace
  <2>1. Known("paid", o)
    BY <1>2, JudgedAtBoundary DEF OrderEvent
  <2>2. OrderOf(o).paid_at = t
    BY <1>2, <2>1, OrderIs
  <2>3. t # Missing /\ s.policy = shop.policy
    BY <1>4, SnapshotIs DEF Missing
  <2>. QED  BY <1>1, <2>2, <2>3
<1>6. shop.policy.instant_grace \in Nat /\ time \in Int
  BY ShopIsOK, Bounds DEF EvidenceInv, EvidenceTypeOK, CaseOK, Time
<1>. HIDE DEF t
<1>7. t + Delay <= Boundary
  BY <1>4, <1>5, <1>6, GraceIs
<1>8. when[<<"succeeded", p>>] <= Boundary
  <2>1. when[<<"paid", o>>] <= t
    BY <1>4 DEF t
  <2>. QED  BY <1>3, <1>4, <1>7, <2>1, FollowedBy DEF HealthySale, Follow
<1>9. p \in Payers(o, Boundary)
  BY <1>3, <1>8 DEF Payers, By, HealthySale
<1>. QED  BY <1>2, <1>9

LEMMA PI004Waits ==
  ASSUME EvidenceInv, Judges, Undisturbed, Healthy, NEW o, Judged(o), NEW r \in PI004(s, OrderOf(o))
  PROVE  FALSE
<1>1. Cardinality(Succeeded(s, OrderOf(o))) > 1
  BY DEF PI004, Says
<1>. QED  BY <1>1, CorrectedIs, HealthyOrder

LEMMA PI005Waits ==
  ASSUME EvidenceInv, Judges, Undisturbed, Healthy, NEW o, Judged(o), NEW r \in PI005(s, OrderOf(o))
  PROVE  FALSE
<1>1. PICK x \in Succeeded(s, OrderOf(o)) : x.received # OrderOf(o).amount
  BY DEF PI005, Says
<1>2. PICK p \in Payers(o, Boundary) : x = PaymentOf(p) /\ p \in Payment
  BY SucceededIs
<1>3. o \in Order /\ HealthySale(o, p)
  BY <1>2, HealthyOrder DEF Judged
<1>4. x.received = WooPrice(p) /\ OrderOf(o).amount = WooPrice(o)
  BY <1>2, <1>3, AmountIs, PaymentIs, OrderIs
<1>5. SamePrice(o, p)
  BY <1>3 DEF HealthySale
<1>. QED  BY <1>1, <1>2, <1>3, <1>4, <1>5, AmountIs DEF SamePrice

LEMMA PI002Waits ==
  ASSUME EvidenceInv, Judges, Undisturbed, FitsGrace, Healthy,
         NEW r \in PI002(s), time >= r.eligible
  PROVE  FALSE
<1>1. PICK x \in Unclaimed(s) :
        r.eligible = Due(x, s) /\ r.rule = "PI-002" /\ r.ids = {PaymentId(x)}
  BY DEF PI002, Says
<1>2. PICK p \in Payment : x = PaymentOf(p) /\ Known("created", p)
  BY SnapshotIs DEF Unclaimed
<1>3. Known("succeeded", p)
  <2>1. PaymentOf(p).status = IF Known("succeeded", p) THEN "succeeded"
                              ELSE "requires_payment_method"
    BY PaymentIs
  <2>2. PaymentOf(p).status = "succeeded"
    BY <1>2 DEF Unclaimed
  <2>. QED  BY <2>1, <2>2
<1>4. Orphan(p, Boundary)
  <2>1. Real("PI-002", {<<"payment", p>>}, Boundary)
    BY <1>1, <1>2, NamesOfIds, PI002IsReal
  <2>2. ASSUME NEW o \in Order, NEW z \in Payment, Disagrees("PI-002", o, z, Boundary) PROVE FALSE
    BY <2>2 DEF Disagrees
  <2>3. PICK z \in Payment : {<<"payment", p>>} = {<<"payment", z>>} /\ Orphan(z, Boundary)
    BY <2>1, <2>2 DEF Real
  <2>4. <<"payment", p>> = <<"payment", z>>
    BY <2>3
  <2>. QED  BY <2>3, <2>4
<1>5. By("succeeded", p, time)
  <2>1. <<"succeeded", p>> \in Event
    BY Kinds DEF PaymentEvent
  <2>2. when[<<"succeeded", p>>] \in Int /\ Boundary \in Int /\ Boundary < time /\ time \in Int
    BY <2>1, Knowledge, BoundaryIs, Bounds DEF EvidenceInv, EvidenceTypeOK, Time
  <2>. QED  BY <1>4, <2>2 DEF By, Orphan
<1>6. PICK o \in Order : HealthySale(o, p)
  BY <1>5 DEF Healthy
<1>. DEFINE t == stamp[<<"succeeded", p>>]
<1>7. t \in Int /\ when[<<"succeeded", p>>] <= t /\ r.eligible = t + shop.policy.instant_grace
  BY <1>1, <1>2, <1>3, DueIs
<1>8. shop.policy.instant_grace \in Nat /\ time \in Int
  BY ShopIsOK, Bounds DEF EvidenceInv, EvidenceTypeOK, CaseOK, Time
<1>. HIDE DEF t
<1>9. t + Delay <= Boundary
  BY <1>7, <1>8, GraceIs
<1>10. <<"succeeded", p>> \in Event /\ <<"placed", o>> \in Event
  BY Kinds DEF OrderEvent, PaymentEvent
<1>11. when[<<"placed", o>>] <= Boundary
  BY <1>6, <1>7, <1>9, <1>10, FollowedBy DEF HealthySale, Follow
<1>12. p \in Mine(o) /\ Confirmed(o)
  BY <1>6 DEF HealthySale, Clear
<1>. QED  BY <1>4, <1>11, <1>12 DEF Orphan, By

(* The refund rules speak no earlier than the grace after the last refund. *)
LEMMA RefundsWait ==
  ASSUME EvidenceInv, Judges, Undisturbed, NEW o, Judged(o), NEW r \in RefundRules(s, OrderOf(o)),
         ~OtherCurrency(s, OrderOf(o)), NEW x \in OrderRefunds(s, OrderOf(o))
  PROVE  \E t \in Int : x.changed_at <= t /\ r.eligible = t + shop.policy.refund_grace
<1>. DEFINE base == IF OrderOf(o).refunded.minor > 0 \/ OrderOf(o).status = "refunded"
                    THEN OrderOf(o).changed_at ELSE s.window_from
            times == {y.changed_at : y \in OrderRefunds(s, OrderOf(o))}
            S == {base} \union times
<1>1. r.eligible = s.policy.refund_grace + Max(S)
  BY RefundRulesSay
<1>2. o \in Order /\ Known("placed", o)
  BY DEF Judged
<1>3. \A e \in Event : when[e] \in Nat /\ when[e] <= Never /\ stamp[e] \in Nat /\ stamp[e] <= Never
  <2>1. ASSUME NEW e \in Event
        PROVE  when[e] \in Nat /\ when[e] <= Never /\ stamp[e] \in Nat /\ stamp[e] <= Never
    <3>1. /\ time \in 0 .. LastTime /\ when[e] \in 0 .. LastTime \union {Never}
          /\ stamp[e] \in when[e] .. time \union {Never}
      BY DEF EvidenceInv, EvidenceTypeOK, Time
    <3>. QED  BY <3>1, Bounds
  <2>. QED  BY <2>1
<1>4. base \in Int
  <2>1. OrderOf(o).changed_at \in Int
    <3>1. <<"placed", o>> \in OrderEvent \X {o} /\ OrderEvent \X {o} \in SUBSET Event
      BY <1>2, Kinds DEF OrderEvent, Event
    <3>2. Revision(OrderEvent \X {o}) \in Int
      BY <1>2, <3>1, RevisionIs DEF Known
    <3>3. OrderOf(o).changed_at = Revision(OrderEvent \X {o})
      BY <1>2, OrderIs
    <3>. QED  BY <3>2, <3>3
  <2>2. s.window_from \in Int
    BY SnapshotIs, Bounds DEF EvidenceInv, EvidenceTypeOK, Time
  <2>. QED  BY <2>1, <2>2
<1>5. \A y \in OrderRefunds(s, OrderOf(o)) : y.changed_at \in Int /\ y.changed_at <= Never
  <2>1. \A y \in WooRefunds(s, OrderOf(o)) : y = WooRefundOf(o)
    BY <1>2, RefundsAre
  <2>2. <<"refunded", o>> \in Event /\ WooRefundOf(o).changed_at = when[<<"refunded", o>>]
    BY <1>2, Kinds, WooRefundIs DEF OrderEvent
  <2>3. \A y \in StripeRefunds(s, OrderOf(o)) : \E p \in Payment : y = StripeRefundOf(p)
    BY StripeRefundsAre, RefundRulesSay
  <2>4. \A p \in Payment : <<"returned", p>> \in Event
                           /\ StripeRefundOf(p).changed_at = stamp[<<"returned", p>>]
    BY Kinds, StripeRefundIs DEF PaymentEvent
  <2>5. Never \in Int
    BY Bounds
  <2>6. ASSUME NEW y \in StripeRefunds(s, OrderOf(o))
        PROVE  y.changed_at \in Int /\ y.changed_at <= Never
    <3>1. PICK p \in Payment : y = StripeRefundOf(p)
      BY <2>3
    <3>2. <<"returned", p>> \in Event /\ y.changed_at = stamp[<<"returned", p>>]
      BY <2>4, <3>1
    <3>3. stamp[<<"returned", p>>] \in Nat /\ stamp[<<"returned", p>>] <= Never
      BY <1>3, <3>2
    <3>. QED  BY <3>2, <3>3
  <2>7. ASSUME NEW y \in WooRefunds(s, OrderOf(o))
        PROVE  y.changed_at \in Int /\ y.changed_at <= Never
    BY <1>3, <2>1, <2>2
  <2>8. \A y \in OrderRefunds(s, OrderOf(o)) :
          y \in StripeRefunds(s, OrderOf(o)) \/ y \in WooRefunds(s, OrderOf(o))
    BY DEF OrderRefunds
  <2>. QED  BY <2>6, <2>7, <2>8
<1>6. x.changed_at \in times
  OBVIOUS
<1>7. S \in SUBSET Int /\ S # {} /\ x.changed_at \in S
  <2>. HIDE DEF base
  <2>. QED  BY <1>4, <1>5, <1>6
<1>8. PICK n \in Int : \A y \in S : y <= n
  <2>. DEFINE n == IF base >= Never THEN base ELSE Never
  <2>1. n \in Int /\ base <= n /\ Never <= n /\ Never \in Int
    <3>. HIDE DEF base
    <3>. QED  BY <1>4, Bounds
  <2>2. \A y \in times : y \in Int /\ y <= Never
    BY <1>5
  <2>. HIDE DEF n, base, times
  <2>3. \A y \in S : y <= n
    BY <1>4, <2>1, <2>2
  <2>. QED  BY <2>1, <2>3
<1>9. Max(S) \in S /\ \A y \in S : y <= Max(S)
  <2>. HIDE DEF S
  <2>1. S \in SUBSET Int /\ S # {}
    BY <1>7
  <2>. QED  BY <1>8, <2>1, MaxIs, Zenon
<1>10. s.policy.refund_grace = shop.policy.refund_grace /\ shop.policy.refund_grace \in Nat
  BY SnapshotIs, ShopIsOK DEF EvidenceInv, EvidenceTypeOK, CaseOK
<1>. HIDE DEF S
<1>11. Max(S) \in Int /\ x.changed_at <= Max(S)
  BY <1>7, <1>9
<1>12. PICK m \in Int : m = Max(S)
  BY <1>11
<1>13. PICK g \in Nat : g = shop.policy.refund_grace
  BY <1>10
<1>14. r.eligible = g + m
  BY <1>1, <1>10, <1>12, <1>13, Zenon
<1>. QED  BY <1>11, <1>12, <1>13, <1>14

LEMMA RefundRulesWait ==
  ASSUME EvidenceInv, Judges, Undisturbed, FitsGrace, Healthy, NEW o, Judged(o),
         NEW r \in RefundRules(s, OrderOf(o)), time >= r.eligible
  PROVE  FALSE
<1>. DEFINE R == Returned(o, Boundary)
            sr == Sum(StripeRefunds(s, OrderOf(o)))
            wr == OrderOf(o).refunded.minor
            wait == shop.policy.refund_grace
<1>1. o \in Order /\ ~LateRefund(s, OrderOf(o))
  BY RefundRulesSay DEF Judged
<1>2. PICK p \in Payment :
        /\ HealthySale(o, p) /\ Payers(o, Boundary) \subseteq {p} /\ Corrected(o, Boundary) = {}
  BY HealthyOrder
<1>3. R \subseteq {p} /\ SamePrice(o, p)
  BY <1>2 DEF Returned, HealthySale
<1>4. /\ OtherCurrency(s, OrderOf(o)) <=> Abroad(o, Boundary)
      /\ sr \in Nat /\ (sr = 0 <=> R = {}) /\ sr = Total(R)
      /\ wr = IF By("refunded", o, Boundary) THEN WooPrice(o).minor ELSE 0
  BY <1>1, RefundSums
<1>5. ~OtherCurrency(s, OrderOf(o))
  BY <1>3, <1>4 DEF Abroad, SamePrice
<1>6. WooPrice(o).minor \in Nat \ {0} /\ WooPrice(p) = WooPrice(o)
  BY <1>1, <1>3, AmountIs DEF SamePrice
<1>7. ~(sr > 0 /\ wr > 0 /\ sr # wr)
  <2>. SUFFICES ASSUME sr > 0, wr > 0, sr # wr PROVE FALSE
    OBVIOUS
  <2>1. R = {p}
    BY <1>3, <1>4
  <2>2. sr = WooPrice(p).minor
    BY <1>4, <1>6, <2>1, TotalOfOne
  <2>. HIDE DEF sr, wr
  <2>. QED  BY <1>4, <1>6, <2>2
<1>8. /\ <<"returned", p>> \in Event /\ <<"refunded", o>> \in Event
      /\ <<"succeeded", p>> \in Event
      /\ when[<<"refunded", o>>] \in Nat /\ when[<<"returned", p>>] \in Nat
      /\ when[<<"succeeded", p>>] \in Nat
  BY <1>1, EventsOf DEF OrderEvent, PaymentEvent
<1>9. wait \in Nat /\ time \in Int /\ Boundary \in Int
  BY ShopIsOK, Bounds, BoundaryIs DEF EvidenceInv, EvidenceTypeOK, CaseOK, Time
<1>10. OrderOf(o).status = "refunded" => By("refunded", o, Boundary)
  BY StatusIs
<1>11. /\ Follow(<<"returned", p>>, <<"refunded", o>>)
       /\ Follow(<<"refunded", o>>, <<"returned", p>>)
       /\ Mine(o) = {p}
  BY <1>2 DEF HealthySale
<1>. HIDE DEF wait
(* What Stripe returned is refunded in the shop. *)
<1>12. ASSUME sr > 0, wr = 0 PROVE FALSE
  <2>1. R = {p} /\ ~By("refunded", o, Boundary)
    BY <1>3, <1>4, <1>6, <1>12
  <2>2. StripeRefundOf(p) \in OrderRefunds(s, OrderOf(o))
    BY <1>1, <2>1, StripeRefundsAre DEF OrderRefunds
  <2>3. PICK t \in Int : StripeRefundOf(p).changed_at <= t /\ r.eligible = t + wait
    BY <1>5, <2>2, RefundsWait DEF wait
  <2>4. t + Delay <= Boundary
    BY <1>9, <2>3, GraceIs DEF wait
  <2>5. when[<<"returned", p>>] <= t
    <3>1. StripeRefundOf(p).changed_at = stamp[<<"returned", p>>]
      BY StripeRefundIs
    <3>2. stamp[<<"returned", p>>] \in Int /\ when[<<"returned", p>>] <= stamp[<<"returned", p>>]
      BY <1>8, Knowledge
    <3>. QED  BY <1>8, <2>3, <3>1, <3>2
  <2>6. when[<<"refunded", o>>] <= Boundary
    BY <1>8, <1>11, <2>4, <2>5, FollowedBy DEF Follow
  <2>. QED  BY <2>1, <2>6 DEF By
(* What the shop refunded is returned by Stripe. *)
<1>13. ASSUME sr = 0, wr > 0 \/ OrderOf(o).status = "refunded" PROVE FALSE
  <2>1. R = {} /\ By("refunded", o, Boundary)
    BY <1>4, <1>10, <1>13
  <2>2. WooRefundOf(o) \in OrderRefunds(s, OrderOf(o))
    <3>1. Known("refunded", o)
      BY <2>1, JudgedAtBoundary DEF OrderEvent
    <3>. QED  BY <1>1, <3>1, RefundsAre DEF OrderRefunds
  <2>3. PICK t \in Int : WooRefundOf(o).changed_at <= t /\ r.eligible = t + wait
    BY <1>5, <2>2, RefundsWait DEF wait
  <2>4. t + Delay <= Boundary
    BY <1>9, <2>3, GraceIs DEF wait
  <2>5. when[<<"refunded", o>>] <= t
    <3>1. WooRefundOf(o).changed_at = when[<<"refunded", o>>]
      BY <1>1, WooRefundIs
    <3>. QED  BY <2>3, <3>1
  <2>6. when[<<"returned", p>>] <= Boundary
    BY <1>8, <1>11, <2>4, <2>5, FollowedBy DEF Follow
  <2>7. when[<<"succeeded", p>>] <= Boundary
    <3>1. when[<<"succeeded", p>>] <= when[<<"returned", p>>]
      BY DEF EvidenceInv, InOrder
    <3>. QED  BY <1>8, <1>9, <2>6, <3>1
  <2>8. p \in R
    BY <1>2, <1>11, <2>6, <2>7 DEF Returned, Payers, By
  <2>. QED  BY <2>1, <2>8
<1>. QED  BY <1>5, <1>7, <1>12, <1>13, RefundRulesSay

LEMMA SilentFollows == ASSUME EvidenceInv PROVE HealthyIsSilent
<1>. SUFFICES ASSUME FitsGrace, Healthy, Undisturbed, NEW q \in evaluate(s).proposals, q.ready
              PROVE  q.rule \in {"PI-009", "PI-010"}
  BY DEF HealthyIsSilent, Evaluation, s
<1>1. CASE Stale(s) # {}
  <2>1. evaluate(s) = Result(s, Says("PI-009", {StoreId(s)}, s.now), {"PI-009"}, {})
    BY <1>1 DEF evaluate
  <2>. QED  BY <2>1 DEF Result, Says
<1>2. CASE Stale(s) = {} /\ s.link # "verified"
  <2>1. evaluate(s) = Result(s, IF s.link = "conflict" THEN Says("PI-010", {StoreId(s)}, s.now)
                                ELSE {}, {"PI-009", "PI-010"}, {})
    BY <1>2 DEF evaluate
  <2>. QED  BY <2>1 DEF Result, Says
<1>3. CASE Stale(s) = {} /\ s.link = "verified"
  <2>1. Judges
    BY <1>3, SnapshotIs DEF Judges, s
  <2>2. PICK r : /\ r.rule = q.rule /\ time >= r.eligible
                 /\ \/ r \in PI010(s) \/ r \in PI002(s)
                    \/ \E x \in Decided(s) : r \in Judgements(x)
    BY <2>1, ReadyIs
  <2>3. CASE r \in PI010(s)
    <3>1. \A x \in PI010(s) : x.rule = "PI-010"
      BY DEF PI010, Says
    <3>. QED  BY <2>2, <2>3, <3>1
  <2>4. CASE r \in PI002(s)
    BY <2>1, <2>2, <2>4, PI002Waits
  <2>5. ASSUME NEW x \in Decided(s), r \in Judgements(x) PROVE FALSE
    <3>1. PICK o \in Order : x = OrderOf(o) /\ Judged(o)
      BY DecidedIs DEF Judged
    <3>2. \/ r \in PI001(s, OrderOf(o)) \/ r \in PI003(s, OrderOf(o)) \/ r \in PI004(s, OrderOf(o))
          \/ r \in PI005(s, OrderOf(o)) \/ r \in RefundRules(s, OrderOf(o))
      BY <2>5, <3>1 DEF Judgements
    <3>3. CASE r \in PI001(s, OrderOf(o))
      BY <2>1, <2>2, <3>1, <3>3, PI001Waits
    <3>4. CASE r \in PI003(s, OrderOf(o))
      BY <2>1, <2>2, <3>1, <3>4, PI003Waits
    <3>5. CASE r \in PI004(s, OrderOf(o))
      BY <2>1, <3>1, <3>5, PI004Waits
    <3>6. CASE r \in PI005(s, OrderOf(o))
      BY <2>1, <3>1, <3>6, PI005Waits
    <3>7. CASE r \in RefundRules(s, OrderOf(o))
      BY <2>1, <2>2, <3>1, <3>7, RefundRulesWait
    <3>. QED  BY <3>2, <3>3, <3>4, <3>5, <3>6, <3>7
  <2>. QED  BY <2>2, <2>3, <2>4, <2>5
<1>. QED  BY <1>1, <1>2, <1>3

(* A shop that follows each payment and refund within Delay is never       *)
(* alerted, whenever Delay and the freshness limit fit into both graces    *)
(* (engine.py:228).                                                        *)
THEOREM HealthyIsSilentAlways == EvidenceSpec => []HealthyIsSilent
<1>1. EvidenceInv => HealthyIsSilent
  BY SilentFollows
<1>. QED  BY <1>1, EvidenceInvariant, PTL
=============================================================================
