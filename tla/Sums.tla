-------------------------------- MODULE Sums ---------------------------------
(***************************************************************************)
(* Sums of weights over finite sets.  The library's MapThenSumSet is a     *)
(* recursive function on the subsets of a set, which takes their elements  *)
(* in an order of its own.  Folding says what such a function is, AddsUp   *)
(* that the order does not matter; what is proved by induction over data   *)
(* elsewhere is proved here of a smallest counterexample.                  *)
(***************************************************************************)
EXTENDS Integers, FiniteSetTheorems, TLAPS

LEMMA LeastOf ==
  ASSUME NEW T \in SUBSET Nat, T # {}
  PROVE  \E n \in T : \A m \in T : n <= m
<1>1. PICK n \in T : \A m \in T : ~ <<m, n>> \in OpToRel(<, Nat)
  BY NatLessThanWellFounded, WFMin
<1>2. \A m \in T : ~(m < n)
  BY <1>1 DEF OpToRel
<1>. QED  BY <1>2

LEMMA SubsetsAreFinite ==
  ASSUME NEW S, IsFiniteSet(S), NEW t \in SUBSET S
  PROVE  /\ IsFiniteSet(t) /\ Cardinality(t) \in Nat
         /\ \A x \in t : t \ {x} \in SUBSET S /\ Cardinality(t \ {x}) = Cardinality(t) - 1
<1>1. IsFiniteSet(t) /\ Cardinality(t) \in Nat
  BY FS_Subset, FS_CardinalityType
<1>. QED  BY <1>1, FS_RemoveElement

LEMMA MinimalSet ==
  ASSUME NEW S, IsFiniteSet(S), NEW W \in SUBSET (SUBSET S), W # {}
  PROVE  \E t \in W : \A x \in t : t \ {x} \notin W
<1>. DEFINE T == {Cardinality(t) : t \in W}
<1>1. T \in SUBSET Nat /\ T # {}
  BY SubsetsAreFinite
<1>2. PICK n \in T : \A m \in T : n <= m
  BY <1>1, LeastOf
<1>3. PICK t \in W : n = Cardinality(t)
  BY <1>2
<1>4. ASSUME NEW x \in t, t \ {x} \in W PROVE FALSE
  <2>1. Cardinality(t \ {x}) \in T
    BY <1>4
  <2>2. Cardinality(t) \in Nat /\ Cardinality(t \ {x}) = Cardinality(t) - 1
    BY SubsetsAreFinite
  <2>3. Cardinality(t) <= Cardinality(t \ {x})
    <3>. HIDE DEF T
    <3>. QED  BY <1>2, <1>3, <2>1
  <2>. QED  BY <2>2, <2>3
<1>. QED  BY <1>4

Pick(t) == CHOOSE x \in t : TRUE

(* f sums the weights w over each subset of S. *)
Folding(f, S, w) ==
  f = [t \in SUBSET S |-> IF t = {} THEN 0 ELSE w[Pick(t)] + f[t \ {Pick(t)}]]

LEMMA PickIs == ASSUME NEW t, t # {} PROVE Pick(t) \in t
  BY DEF Pick

LEMMA FoldingExists == ASSUME NEW S, IsFiniteSet(S), NEW w PROVE \E f : Folding(f, S, w)
<1>. DEFINE Upto(n) == {t \in SUBSET S : Cardinality(t) <= n}
            Next(f, t) == IF t = {} THEN 0 ELSE w[Pick(t)] + f[t \ {Pick(t)}]
            Good(f, n) == f = [t \in Upto(n) |-> Next(f, t)]
            T == {n \in Nat : ~\E f : Good(f, n)}
<1>1. \A t \in SUBSET S : Cardinality(t) \in Nat
  BY SubsetsAreFinite
<1>2. ASSUME NEW t \in SUBSET S, t # {}
      PROVE  /\ t \ {Pick(t)} \in SUBSET S
             /\ Cardinality(t \ {Pick(t)}) = Cardinality(t) - 1
  BY <1>2, PickIs, SubsetsAreFinite
<1>3. T = {}
  <2>. SUFFICES ASSUME T # {} PROVE FALSE
    OBVIOUS
  <2>1. PICK n \in T : \A m \in T : n <= m
    BY LeastOf
  <2>2. CASE n = 0
    <3>1. \A t \in Upto(0) : t = {}
      <4>1. ASSUME NEW t \in Upto(0) PROVE t = {}
        <5>1. IsFiniteSet(t) /\ Cardinality(t) = 0
          BY SubsetsAreFinite
        <5>. QED  BY <5>1, FS_EmptySet
      <4>. QED  BY <4>1
    <3>2. Good([t \in Upto(0) |-> 0], 0)
      BY <3>1, Zenon
    <3>. QED  BY <2>1, <2>2, <3>2
  <2>3. CASE n # 0
    <3>1. n - 1 \in Nat /\ n - 1 \notin T
      <4>1. n \in Nat
        OBVIOUS
      <4>. HIDE DEF T
      <4>. QED  BY <2>1, <2>3, <4>1
    <3>2. PICK g : Good(g, n - 1)
      BY <3>1
    <3>. DEFINE h == [t \in Upto(n) |-> Next(g, t)]
    <3>3. ASSUME NEW t \in Upto(n - 1) PROVE g[t] = Next(g, t)
      BY <3>2, Zenon
    <3>4. Upto(n - 1) \subseteq Upto(n)
      BY <1>1, <3>1
    <3>5. ASSUME NEW t \in Upto(n - 1) PROVE h[t] = g[t]
      <4>1. t \in Upto(n)
        BY <3>4
      <4>2. h[t] = Next(g, t)
        BY <4>1
      <4>. QED  BY <3>3, <4>2
    <3>6. ASSUME NEW t \in Upto(n), t # {} PROVE t \ {Pick(t)} \in Upto(n - 1)
      BY <1>1, <1>2, <3>1, <3>6
    <3>7. ASSUME NEW t \in Upto(n) PROVE Next(g, t) = Next(h, t)
      <4>1. t # {} => h[t \ {Pick(t)}] = g[t \ {Pick(t)}]
        BY <3>5, <3>6
      <4>. HIDE DEF h
      <4>. QED  BY <4>1
    <3>8. h = [t \in Upto(n) |-> Next(h, t)]
      <4>1. ASSUME NEW t \in Upto(n) PROVE h[t] = Next(h, t)
        BY <3>7
      <4>. HIDE DEF Upto, Next
      <4>. QED  BY <4>1
    <3>. QED  BY <2>1, <3>8, Zenon
  <2>. QED  BY <2>2, <2>3
<1>4. Cardinality(S) \in Nat /\ Upto(Cardinality(S)) = SUBSET S
  BY <1>1, FS_Subset
<1>5. PICK f : Good(f, Cardinality(S))
  BY <1>3, <1>4
<1>. QED  BY <1>4, <1>5 DEF Folding

(* The order in which the elements are taken does not matter. *)
AddsUp(f, S, w) ==
  /\ f[{}] = 0
  /\ \A t \in SUBSET S : f[t] \in Nat /\ \A x \in t : f[t] = w[x] + f[t \ {x}]

LEMMA FoldingStep ==
  ASSUME NEW S, IsFiniteSet(S), NEW w \in [S -> Nat], NEW f, Folding(f, S, w)
  PROVE  AddsUp(f, S, w)
<1>1. ASSUME NEW t \in SUBSET S
      PROVE  /\ t = {} => f[t] = 0
             /\ t # {} => f[t] = w[Pick(t)] + f[t \ {Pick(t)}]
  <2>1. f[t] = IF t = {} THEN 0 ELSE w[Pick(t)] + f[t \ {Pick(t)}]
    BY Zenon DEF Folding
  <2>. QED  BY <2>1
<1>2. f[{}] = 0
  BY <1>1
<1>3. \A t \in SUBSET S : f[t] \in Nat
  <2>. DEFINE W == {t \in SUBSET S : f[t] \notin Nat}
  <2>. SUFFICES ASSUME W # {} PROVE FALSE
    OBVIOUS
  <2>1. PICK t \in W : \A x \in t : t \ {x} \notin W
    BY MinimalSet
  <2>2. t \in SUBSET S /\ t # {}
    BY <1>2
  <2>3. Pick(t) \in t /\ f[t] = w[Pick(t)] + f[t \ {Pick(t)}]
    BY <1>1, <2>2, PickIs
  <2>4. f[t \ {Pick(t)}] \in Nat /\ w[Pick(t)] \in Nat
    BY <2>1, <2>2, <2>3
  <2>. QED  BY <2>3, <2>4
<1>4. \A t \in SUBSET S : \A x \in t : f[t] = w[x] + f[t \ {x}]
  <2>. DEFINE Ok(t) == \A x \in t : f[t] = w[x] + f[t \ {x}]
              W == {t \in SUBSET S : ~Ok(t)}
  <2>. SUFFICES ASSUME W # {} PROVE FALSE
    BY Zenon
  <2>1. PICK t \in W : \A x \in t : t \ {x} \notin W
    BY MinimalSet
  <2>2. t \in SUBSET S /\ \A x \in t : Ok(t \ {x}) /\ w[x] \in Nat
    BY <2>1
  <2>. SUFFICES ASSUME NEW x \in t PROVE f[t] = w[x] + f[t \ {x}]
    BY Zenon
  <2>3. Pick(t) \in t /\ f[t] = w[Pick(t)] + f[t \ {Pick(t)}]
    BY <1>1, <2>2, PickIs
  <2>4. CASE x = Pick(t)
    BY <2>3, <2>4
  <2>5. CASE x # Pick(t)
    <3>. DEFINE c == Pick(t)
                rest == (t \ {x}) \ {c}
    <3>. HIDE DEF c
    <3>1. c \in t /\ x # c /\ f[t] = w[c] + f[t \ {c}]
      BY <2>3, <2>5 DEF c
    <3>2. (t \ {c}) \ {x} = rest
      OBVIOUS
    <3>3. f[t \ {c}] = w[x] + f[rest]
      BY <2>2, <3>1, <3>2
    <3>4. f[t \ {x}] = w[c] + f[rest]
      BY <2>2, <3>1
    <3>5. f[rest] \in Nat /\ w[c] \in Nat /\ w[x] \in Nat
      BY <1>3, <2>2, <3>1
    <3>. HIDE DEF rest
    <3>. QED  BY <3>1, <3>3, <3>4, <3>5
  <2>. QED  BY <2>4, <2>5
<1>. QED  BY <1>2, <1>3, <1>4 DEF AddsUp

(* Sums agree where the weights do, element by element. *)
LEMMA FoldingsAgree ==
  ASSUME NEW S, IsFiniteSet(S), NEW w \in [S -> Nat], NEW f, Folding(f, S, w),
         NEW T, IsFiniteSet(T), NEW v \in [T -> Nat], NEW g, Folding(g, T, v),
         NEW h \in [S -> T], \A x, y \in S : h[x] = h[y] => x = y,
         \A y \in T : \E x \in S : h[x] = y, \A x \in S : v[h[x]] = w[x]
  PROVE  f[S] = g[T]
<1>. DEFINE Image(t) == {h[x] : x \in t}
            W == {t \in SUBSET S : f[t] # g[Image(t)]}
<1>1. /\ f[{}] = 0 /\ g[{}] = 0
      /\ \A t \in SUBSET S : \A x \in t : f[t] = w[x] + f[t \ {x}]
      /\ \A t \in SUBSET T : \A y \in t : g[t] = v[y] + g[t \ {y}]
  <2>1. AddsUp(f, S, w) /\ AddsUp(g, T, v)
    BY FoldingStep
  <2>. QED  BY <2>1 DEF AddsUp
<1>2. W = {}
  <2>. SUFFICES ASSUME W # {} PROVE FALSE
    OBVIOUS
  <2>1. PICK t \in W : \A x \in t : t \ {x} \notin W
    BY MinimalSet
  <2>2. t \in SUBSET S /\ f[t] # g[Image(t)]
    BY <2>1
  <2>3. t # {}
    <3>1. Image({}) = {}
      OBVIOUS
    <3>. QED  BY <1>1, <2>2, <3>1
  <2>4. PICK x \in t : TRUE
    BY <2>3
  <2>5. t \ {x} \in SUBSET S /\ f[t \ {x}] = g[Image(t \ {x})]
    BY <2>1, <2>2
  <2>6. Image(t) \in SUBSET T /\ h[x] \in Image(t) /\ Image(t) \ {h[x]} = Image(t \ {x})
    BY <2>2
  <2>. HIDE DEF Image, W
  <2>7. f[t] = w[x] + f[t \ {x}] /\ g[Image(t)] = v[h[x]] + g[Image(t) \ {h[x]}]
    BY <1>1, <2>2, <2>6
  <2>. QED  BY <2>2, <2>4, <2>5, <2>6, <2>7
<1>3. Image(S) = T
  OBVIOUS
<1>4. f[S] = g[Image(S)]
  BY <1>2
<1>. QED  BY <1>3, <1>4

(* The sum of the weights w of the elements of S. *)
SumOver(S, w) == (CHOOSE f : Folding(f, S, w))[S]

LEMMA SumOverFolds ==
  ASSUME NEW S, IsFiniteSet(S), NEW w
  PROVE  \E f : Folding(f, S, w) /\ SumOver(S, w) = f[S]
<1>1. \E f : Folding(f, S, w)
  BY FoldingExists
<1>. QED  BY <1>1, Zenon DEF SumOver

(* All foldings end in the same sum. *)
LEMMA FoldingIsSum ==
  ASSUME NEW S, IsFiniteSet(S), NEW w \in [S -> Nat], NEW f, Folding(f, S, w)
  PROVE  f[S] = SumOver(S, w)
<1>1. PICK g : Folding(g, S, w) /\ SumOver(S, w) = g[S]
  BY SumOverFolds
<1>. DEFINE h == [x \in S |-> x]
<1>2. /\ h \in [S -> S] /\ \A x, y \in S : h[x] = h[y] => x = y
      /\ \A y \in S : \E x \in S : h[x] = y
      /\ \A x \in S : w[h[x]] = w[x]
  OBVIOUS
<1>. HIDE DEF h
<1>3. f[S] = g[S]
  BY <1>1, <1>2, FoldingsAgree
<1>. QED  BY <1>1, <1>3

(* Smaller weights have a smaller sum, on every subset. *)
LEMMA FoldingsGrow ==
  ASSUME NEW S, IsFiniteSet(S), NEW w \in [S -> Nat], NEW f, AddsUp(f, S, w),
         NEW v \in [S -> Nat], NEW g, AddsUp(g, S, v),
         NEW T \in SUBSET S, \A x \in T : w[x] <= v[x]
  PROVE  f[T] <= g[T]
<1>. DEFINE W == {t \in SUBSET T : ~(f[t] <= g[t])}
<1>1. /\ f[{}] = 0 /\ g[{}] = 0
      /\ \A t \in SUBSET S : f[t] \in Nat /\ \A x \in t : f[t] = w[x] + f[t \ {x}]
      /\ \A t \in SUBSET S : g[t] \in Nat /\ \A x \in t : g[t] = v[x] + g[t \ {x}]
  BY DEF AddsUp
<1>2. W = {}
  <2>. SUFFICES ASSUME W # {} PROVE FALSE
    OBVIOUS
  <2>1. IsFiniteSet(T) /\ W \in SUBSET (SUBSET T)
    BY FS_Subset
  <2>2. PICK t \in W : \A x \in t : t \ {x} \notin W
    BY <2>1, MinimalSet
  <2>3. t \in SUBSET S /\ t \in SUBSET T /\ ~(f[t] <= g[t])
    BY <2>2
  <2>4. t # {}
    <3>1. t = {} => f[t] = 0 /\ g[t] = 0
      BY <1>1
    <3>2. 0 <= 0
      OBVIOUS
    <3>. QED  BY <2>3, <3>1, <3>2
  <2>5. PICK x \in t : TRUE
    BY <2>4
  <2>6. t \ {x} \in SUBSET S /\ f[t \ {x}] <= g[t \ {x}]
    BY <2>2, <2>3, <2>5
  <2>7. f[t] = w[x] + f[t \ {x}] /\ g[t] = v[x] + g[t \ {x}]
    BY <1>1, <2>3, <2>5
  <2>8. /\ w[x] \in Nat /\ v[x] \in Nat /\ w[x] <= v[x]
        /\ f[t \ {x}] \in Nat /\ g[t \ {x}] \in Nat
    BY <1>1, <2>3, <2>5, <2>6
  <2>. HIDE DEF W
  <2>. QED  BY <2>3, <2>6, <2>7, <2>8
<1>. QED  BY <1>2

LEMMA SumIsAdded ==
  ASSUME NEW S, IsFiniteSet(S), NEW w \in [S -> Nat]
  PROVE  \E f : AddsUp(f, S, w) /\ SumOver(S, w) = f[S]
  BY SumOverFolds, FoldingStep

(* No weight is more than the sum; what has no weight has no sum. *)
LEMMA SumBounds ==
  ASSUME NEW S, IsFiniteSet(S), NEW w \in [S -> Nat]
  PROVE  /\ SumOver(S, w) \in Nat
         /\ \A x \in S : w[x] <= SumOver(S, w)
         /\ (\A x \in S : w[x] = 0) => SumOver(S, w) = 0
<1>1. PICK f : AddsUp(f, S, w) /\ SumOver(S, w) = f[S]
  BY SumIsAdded
<1>2. f[S] \in Nat
  BY <1>1 DEF AddsUp
<1>3. ASSUME NEW x \in S PROVE w[x] <= f[S]
  <2>1. f[S] = w[x] + f[S \ {x}] /\ f[S \ {x}] \in Nat /\ w[x] \in Nat
    BY <1>1 DEF AddsUp
  <2>. QED  BY <2>1
<1>4. ASSUME \A x \in S : w[x] = 0 PROVE f[S] = 0
  <2>. DEFINE W == {t \in SUBSET S : f[t] # 0}
  <2>. SUFFICES ASSUME W # {} PROVE FALSE
    OBVIOUS
  <2>1. PICK t \in W : \A x \in t : t \ {x} \notin W
    BY MinimalSet
  <2>2. t # {}
    BY <1>1, <2>1 DEF AddsUp
  <2>3. PICK x \in t : TRUE
    BY <2>2
  <2>4. f[t] = 0 + f[t \ {x}] /\ f[t \ {x}] = 0
    BY <1>1, <1>4, <2>1, <2>3 DEF AddsUp
  <2>. QED  BY <2>1, <2>4
<1>. QED  BY <1>1, <1>2, <1>3, <1>4

LEMMA SumGrows ==
  ASSUME NEW S, IsFiniteSet(S), NEW w \in [S -> Nat], NEW v \in [S -> Nat],
         \A x \in S : w[x] <= v[x]
  PROVE  SumOver(S, w) <= SumOver(S, v)
<1>1. PICK f : AddsUp(f, S, w) /\ SumOver(S, w) = f[S]
  BY SumIsAdded
<1>2. PICK g : AddsUp(g, S, v) /\ SumOver(S, v) = g[S]
  BY SumIsAdded
<1>. QED  BY <1>1, <1>2, FoldingsGrow

(* One weight more makes the sum one more. *)
LEMMA SumOfOneMore ==
  ASSUME NEW S, IsFiniteSet(S), NEW w \in [S -> Nat], NEW v \in [S -> Nat],
         NEW d \in S, v[d] = w[d] + 1, \A x \in S \ {d} : v[x] = w[x]
  PROVE  SumOver(S, v) = SumOver(S, w) + 1
<1>1. PICK f : AddsUp(f, S, w) /\ SumOver(S, w) = f[S]
  BY SumIsAdded
<1>2. PICK g : AddsUp(g, S, v) /\ SumOver(S, v) = g[S]
  BY SumIsAdded
<1>. DEFINE T == S \ {d}
<1>3. T \in SUBSET S /\ \A x \in T : w[x] <= v[x] /\ v[x] <= w[x]
  OBVIOUS
<1>4. f[S] = w[d] + f[T] /\ g[S] = v[d] + g[T] /\ f[T] \in Nat /\ g[T] \in Nat
  BY <1>1, <1>2 DEF AddsUp
<1>. HIDE DEF T
<1>5. f[T] <= g[T] /\ g[T] <= f[T]
  BY <1>1, <1>2, <1>3, FoldingsGrow
<1>6. w[d] \in Nat
  OBVIOUS
<1>. QED  BY <1>1, <1>2, <1>4, <1>5, <1>6
=============================================================================
