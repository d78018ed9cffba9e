--------------------------- MODULE RateLimitProofs ---------------------------
(***************************************************************************)
(* Theorems about RateLimit, for every limit set, every set of requests    *)
(* and every schedule of their steps and of the clock.                     *)
(***************************************************************************)
EXTENDS RateLimit, FiniteSetTheorems, WellFoundedInduction, TLAPS

(* What a request consumes of a window is a natural number                 *)
(* (ratelimit.go:86-101).                                                  *)
LEMMA AmountNat ==
  ASSUME NEW w \in Window, NEW c \in Cost
  PROVE  AmountOf(w, c) \in Nat
<1>1. c.tokens \in Nat /\ c.chars \in Nat /\ c.audioSec \in Nat
  BY DEF Cost
<1>2. (c.audioSec + 59) \div 60 \in Nat
  BY <1>1
<1>. QED
  BY <1>1, <1>2 DEF AmountOf, Window, TokenWindows

(* A bucket label is an integer (ratelimit.go:208-216).                    *)
LEMMA LabelInt ==
  ASSUME NEW w \in Window, NEW t \in Int
  PROVE  WindowStart(w, t) \in Int
  BY ClockAssumption DEF WindowStart

(* The bucket a caller finds is well formed, and never fuller than the one *)
(* it replaces (ratelimit.go:231-239).                                     *)
LEMMA CounterForType ==
  ASSUME TypeOK, NEW w \in Window, NEW t \in Int
  PROVE  /\ CounterFor(w, t) \in [start : Int, count : Nat]
         /\ CounterFor(w, t) = cell[w] \/ CounterFor(w, t).count = 0
  BY LabelInt DEF CounterFor, TypeOK

(* A ceiling is a natural number (ratelimit.go:54-60).                     *)
LEMMA LimitNat ==
  ASSUME NEW w \in Limited
  PROVE  Limit[w] \in Nat
  BY LimitAssumption DEF Limited

(* A credit keeps the counters well formed, and raises none of them        *)
(* (rollback and Refund, ratelimit.go:285-313).                            *)
LEMMA CreditType ==
  ASSUME TypeOK, NEW r \in Requests, NEW w \in Window, NEW t \in Int, Credit(r, w, t)
  PROVE  cell' \in [Window -> [start : Int, count : Nat]]
<1>1. AtLeastZero(cell[w].count - AmountOf(w, cost[r])) \in Nat
  BY AmountNat DEF TypeOK, AtLeastZero
<1>. QED
  BY <1>1 DEF Credit, TypeOK

LEMMA CreditLowers ==
  ASSUME TypeOK, NEW r \in Requests, NEW w \in Window, NEW t \in Int, Credit(r, w, t),
         NEW v \in Window
  PROVE  cell'[v].count <= cell[v].count
<1>1. AtLeastZero(cell[w].count - AmountOf(w, cost[r])) <= cell[w].count
  BY AmountNat DEF TypeOK, AtLeastZero
<1>. QED
  BY <1>1 DEF Credit, TypeOK

(* The empty limiter is well typed (ratelimit.go:145-157).                 *)
LEMMA InitTypeOK == Init => TypeOK
  BY DEF Init, TypeOK, NoCounter, PC, Cost, Limited

(* Each step keeps the types: one step per action of the limiter.          *)
LEMMA NextTypeOK == TypeOK /\ [Next]_vars => TypeOK'
<1>. SUFFICES ASSUME TypeOK, [Next]_vars
              PROVE  TypeOK'
  OBVIOUS
<1>. USE DEF TypeOK
<1>1. CASE Tick
  BY <1>1 DEF Tick
<1>2. CASE StartPurge
  BY <1>2 DEF StartPurge
<1>3. CASE PurgeStale
  BY <1>3 DEF PurgeStale, NoCounter
<1>4. ASSUME NEW r \in Requests, NEW c \in CostSet, CallCheckAndReserve(r, c)
      PROVE  TypeOK'
  <2>1. c \in Cost
    BY CostAssumption
  <2>. QED
    BY <1>4, <2>1 DEF CallCheckAndReserve, PC, Limited
<1>5. ASSUME NEW r \in Requests, CallRefund(r)
      PROVE  TypeOK'
  BY <1>5 DEF CallRefund, PC, Limited
<1>6. ASSUME NEW r \in Requests, NEW a \in ActualSet, CallReconcile(r, a)
      PROVE  TypeOK'
  <2>1. a \in Nat
    BY CostAssumption
  <2>. QED
    BY <1>6, <2>1 DEF CallReconcile, PC, TokenWindows, Window
<1>7. ASSUME NEW r \in Requests, NEW w \in Window, Charge(r, w)
      PROVE  TypeOK'
  <2>. DEFINE c == CounterFor(w, reservedAt[r])
  <2>1. c \in [start : Int, count : Nat]
    BY CounterForType
  <2>2. AmountOf(w, cost[r]) \in Nat
    BY AmountNat
  <2>3. [c EXCEPT !.count = @ + AmountOf(w, cost[r])] \in [start : Int, count : Nat]
    BY <2>1, <2>2
  <2>. HIDE DEF c
  <2>4. cell' \in [Window -> [start : Int, count : Nat]] /\ skewed' \subseteq Window
    BY <1>7, <2>3 DEF Charge, Touch, c
  <2>5. surplus' \in [Window -> Nat]
    BY <1>7 DEF Charge
  <2>6. todo' \in [Requests -> SUBSET Window] /\ pc' \in [Requests -> PC]
    BY <1>7 DEF Charge, PC
  <2>7. \A q \in Requests :
          pc'[q] \in {"checking", "rollback", "refunding"} => todo'[q] \subseteq Limited
    BY <1>7 DEF Charge
  <2>. QED
    BY <1>7, <2>4, <2>5, <2>6, <2>7 DEF Charge, Limited
<1>8. ASSUME NEW r \in Requests, NEW w \in Window, Reject(r, w)
      PROVE  TypeOK'
  <2>. DEFINE c == CounterFor(w, reservedAt[r])
  <2>1. c \in [start : Int, count : Nat]
    BY CounterForType
  <2>. HIDE DEF c
  <2>2. cell' \in [Window -> [start : Int, count : Nat]] /\ skewed' \subseteq Window
    BY <1>8, <2>1 DEF Reject, Touch, c
  <2>3. surplus' \in [Window -> Nat]
    BY <1>8 DEF Reject
  <2>4. todo' \in [Requests -> SUBSET Window] /\ pc' \in [Requests -> PC]
    BY <1>8 DEF Reject, PC, Limited
  <2>5. \A q \in Requests :
          pc'[q] \in {"checking", "rollback", "refunding"} => todo'[q] \subseteq Limited
    BY <1>8 DEF Reject
  <2>. QED
    BY <1>8, <2>2, <2>3, <2>4, <2>5 DEF Reject, Limited
<1>9. ASSUME NEW r \in Requests, NEW w \in Window, Rollback(r, w)
      PROVE  TypeOK'
  <2>1. cell' \in [Window -> [start : Int, count : Nat]]
    <3>1. reservedAt[r] \in Int
      OBVIOUS
    <3>. QED
      BY <1>9, <3>1, CreditType DEF Rollback
  <2>. QED
    BY <1>9, <2>1 DEF Rollback, PC, Limited
<1>10. ASSUME NEW r \in Requests, NEW w \in Window, Refund(r, w)
      PROVE  TypeOK'
  <2>1. cell' \in [Window -> [start : Int, count : Nat]]
    <3>1. finishedAt[r] \in Int
      OBVIOUS
    <3>. QED
      BY <1>10, <3>1, CreditType DEF Refund
  <2>. QED
    BY <1>10, <2>1 DEF Refund, PC, Limited
<1>11. ASSUME NEW r \in Requests, NEW w \in Window, Reconcile(r, w)
      PROVE  TypeOK'
  <2>. DEFINE c == CounterFor(w, finishedAt[r])
              delta == actual[r] - cost[r].tokens
  <2>1. c \in [start : Int, count : Nat]
    BY CounterForType
  <2>2. delta \in Int
    BY DEF Cost
  <2>3. AtLeastZero(delta) \in Nat /\ AtLeastZero(c.count + delta) \in Nat
    BY <2>1, <2>2 DEF AtLeastZero
  <2>4. [c EXCEPT !.count = AtLeastZero(@ + delta)] \in [start : Int, count : Nat]
    BY <2>1, <2>3
  <2>. HIDE DEF c, delta
  <2>5. cell' \in [Window -> [start : Int, count : Nat]] /\ skewed' \subseteq Window
    BY <1>11, <2>4 DEF Reconcile, c, delta
  <2>6. surplus' \in [Window -> Nat]
    BY <1>11, <2>3 DEF Reconcile, delta
  <2>7. todo' \in [Requests -> SUBSET Window] /\ pc' \in [Requests -> PC]
    BY <1>11 DEF Reconcile, PC
  <2>. QED
    BY <1>11, <2>5, <2>6, <2>7 DEF Reconcile, Limited
<1>12. CASE UNCHANGED vars
  BY <1>12 DEF vars, Limited
<1>. QED
  BY <1>1, <1>2, <1>3, <1>4, <1>5, <1>6, <1>7, <1>8, <1>9, <1>10, <1>11, <1>12
  DEF Next, Step

(* The limiter is well typed at every moment; above all, no refund,        *)
(* rollback or reconciliation drives a counter below zero.                 *)
THEOREM TypeCorrect == Spec => []TypeOK
  BY InitTypeOK, NextTypeOK, PTL DEF Spec

-----------------------------------------------------------------------------
(* The ceiling.  The invariant is inductive as it stands, beside the types:*)
(* a charge is tested and committed under one lock, every other step only  *)
(* lowers a counter, starts an empty one, or raises the counter and the    *)
(* surplus by the same amount.                                             *)
LEMMA NextNeverOverLimit ==
  TypeOK /\ NeverOverLimit /\ [Next]_vars => NeverOverLimit'
<1>. SUFFICES ASSUME TypeOK, NeverOverLimit, [Next]_vars, NEW v \in Limited
              PROVE  cell'[v].count <= Limit[v] + surplus'[v]
  BY DEF NeverOverLimit, Limited
<1>. USE LimitNat DEF TypeOK
<1>0. /\ cell[v].count <= Limit[v] + surplus[v]
      /\ v \in Window /\ cell[v].count \in Nat /\ surplus[v] \in Nat
      /\ Limit[v] \in Nat
  BY DEF NeverOverLimit, Limited
<1>1. CASE UNCHANGED << cell, surplus >>
  BY <1>0, <1>1
<1>2. CASE PurgeStale
  BY <1>0, <1>2 DEF PurgeStale, NoCounter
<1>3. ASSUME NEW r \in Requests, NEW w \in Window, Charge(r, w)
      PROVE  cell'[v].count <= Limit[v] + surplus'[v]
  <2>. DEFINE c == CounterFor(w, reservedAt[r])
  <2>1. c \in [start : Int, count : Nat] /\ AmountOf(w, cost[r]) \in Nat
    BY CounterForType, AmountNat
  <2>2. c.count + AmountOf(w, cost[r]) <= Limit[w]
    BY <1>3 DEF Charge, Fits
  <2>. HIDE DEF c
  <2>3. cell'[w].count = c.count + AmountOf(w, cost[r]) /\ surplus'[w] \in Nat
    BY <1>3, <2>1 DEF Charge, Touch, c
  <2>4. w # v => cell'[v] = cell[v] /\ surplus'[v] = surplus[v]
    BY <1>3 DEF Charge, Touch
  <2>5. CASE w = v
    BY <1>0, <2>1, <2>2, <2>3, <2>5
  <2>. QED
    BY <1>0, <2>4, <2>5
<1>4. ASSUME NEW r \in Requests, NEW w \in Window, Reject(r, w)
      PROVE  cell'[v].count <= Limit[v] + surplus'[v]
  <2>1. CounterFor(w, reservedAt[r]) = cell[w]
          \/ CounterFor(w, reservedAt[r]).count = 0
    BY CounterForType
  <2>. QED
    BY <1>0, <1>4, <2>1 DEF Reject, Touch
<1>5. ASSUME NEW r \in Requests, NEW w \in Window, NEW t \in Int,
             Credit(r, w, t), UNCHANGED surplus
      PROVE  cell'[v].count <= Limit[v] + surplus'[v]
  <2>1. cell'[v].count <= cell[v].count
    BY <1>0, <1>5, CreditLowers
  <2>2. cell'[v].count \in Nat
    BY <1>0, <1>5, CreditType
  <2>. QED
    BY <1>0, <1>5, <2>1, <2>2
<1>6. ASSUME NEW r \in Requests, NEW w \in Window, Reconcile(r, w)
      PROVE  cell'[v].count <= Limit[v] + surplus'[v]
  <2>. DEFINE c == CounterFor(w, finishedAt[r])
              delta == actual[r] - cost[r].tokens
  <2>1. c \in [start : Int, count : Nat] /\ (c = cell[w] \/ c.count = 0)
    BY CounterForType
  <2>2. delta \in Int
    BY DEF Cost
  <2>. HIDE DEF c, delta
  <2>3. /\ cell'[w].count = AtLeastZero(c.count + delta)
        /\ surplus'[w] = (IF c = cell[w] THEN surplus[w] ELSE 0) + AtLeastZero(delta)
    BY <1>6, <2>1 DEF Reconcile, c, delta
  <2>4. w # v => cell'[v] = cell[v] /\ surplus'[v] = surplus[v]
    BY <1>6 DEF Reconcile
  <2>5. CASE w = v
    BY <1>0, <2>1, <2>2, <2>3, <2>5 DEF AtLeastZero
  <2>. QED
    BY <1>0, <2>4, <2>5
<1>7. ASSUME NEW r \in Requests, Step(r)
      PROVE  cell'[v].count <= Limit[v] + surplus'[v]
  <2>1. CASE \E c \in CostSet : CallCheckAndReserve(r, c)
    BY <1>1, <2>1 DEF CallCheckAndReserve
  <2>2. CASE CallRefund(r) \/ \E a \in ActualSet : CallReconcile(r, a)
    BY <1>1, <2>2 DEF CallRefund, CallReconcile
  <2>3. ASSUME NEW w \in Window, Rollback(r, w)
        PROVE  cell'[v].count <= Limit[v] + surplus'[v]
    <3>1. reservedAt[r] \in Int
      OBVIOUS
    <3>. QED
      BY <1>5, <2>3, <3>1 DEF Rollback
  <2>4. ASSUME NEW w \in Window, Refund(r, w)
        PROVE  cell'[v].count <= Limit[v] + surplus'[v]
    <3>1. finishedAt[r] \in Int
      OBVIOUS
    <3>. QED
      BY <1>5, <2>4, <3>1 DEF Refund
  <2>. QED
    BY <1>3, <1>4, <1>6, <1>7, <2>1, <2>2, <2>3, <2>4 DEF Step
<1>8. CASE Tick \/ StartPurge \/ UNCHANGED vars
  BY <1>1, <1>8 DEF Tick, StartPurge, vars
<1>. QED
  BY <1>2, <1>7, <1>8 DEF Next

(* However many requests race, a window is never reserved beyond its       *)
(* ceiling: what exceeds it was added by Reconcile, once the provider had  *)
(* reported more tokens than were reserved.                                *)
THEOREM LimitHolds == Spec => []NeverOverLimit
<1>1. Init => NeverOverLimit
  BY LimitNat DEF Init, NeverOverLimit, NoCounter, Limited
<1>. QED
  BY <1>1, TypeCorrect, NextNeverOverLimit, PTL DEF Spec
-----------------------------------------------------------------------------
(* Sums.                                                                   *)

(* A family of subsets of a finite set has a member none of whose strict   *)
(* subsets is in the family.                                               *)
LEMMA SmallestSubset ==
  ASSUME NEW S, IsFiniteSet(S), NEW F \in SUBSET SUBSET S, F # {}
  PROVE  \E s \in F : \A t \in F : t \subseteq s => t = s
<1>. DEFINE R == StrictSubsetOrdering(S)
<1>1. IsWellFoundedOn(R, SUBSET S)
  BY FS_StrictSubsetOrderingWellFounded, FS_FiniteSubsetsOfFinite
<1>2. \E s \in F : \A t \in F : ~ (<< t, s >> \in R)
  <2>. HIDE DEF R
  <2>. QED
    BY <1>1, WFMin
<1>. QED
  BY <1>2 DEF StrictSubsetOrdering

(* The units of a family of natural numbers: as many for each member as it *)
(* counts.  Their number is the sum of the family.                         *)
Units(f, s) == { p \in s \X Nat : p[2] < f[p[1]] }

LEMMA UnitsOfOne ==
  ASSUME NEW S, NEW f \in [S -> Nat], NEW x \in S
  PROVE  /\ IsFiniteSet(Units(f, {x}))
         /\ Cardinality(Units(f, {x})) = f[x]
<1>1. Units(f, {x}) = {x} \X (0 .. (f[x] - 1))
  BY DEF Units
<1>2. /\ IsFiniteSet(0 .. (f[x] - 1))
      /\ Cardinality(0 .. (f[x] - 1)) = f[x]
  BY FS_Interval
<1>3. IsFiniteSet({x}) /\ Cardinality({x}) = 1
  BY FS_Singleton
<1>4. /\ IsFiniteSet({x} \X (0 .. (f[x] - 1)))
      /\ Cardinality({x} \X (0 .. (f[x] - 1)))
           = Cardinality({x}) * Cardinality(0 .. (f[x] - 1))
  BY <1>2, <1>3, FS_Product
<1>5. Cardinality({x} \X (0 .. (f[x] - 1))) = 1 * f[x]
  BY <1>2, <1>3, <1>4
<1>6. 1 * f[x] = f[x]
  OBVIOUS
<1>. QED
  BY <1>1, <1>4, <1>5, <1>6, Zenon

LEMMA UnitsSplit ==
  ASSUME NEW S, NEW f \in [S -> Nat], NEW s \in SUBSET S, NEW x \in s,
         IsFiniteSet(Units(f, s \ {x}))
  PROVE  /\ IsFiniteSet(Units(f, s))
         /\ Cardinality(Units(f, s)) = f[x] + Cardinality(Units(f, s \ {x}))
<1>1. /\ Units(f, s) = Units(f, {x}) \cup Units(f, s \ {x})
      /\ Units(f, {x}) \cap Units(f, s \ {x}) = {}
  BY DEF Units
<1>2. IsFiniteSet(Units(f, {x})) /\ Cardinality(Units(f, {x})) = f[x]
  BY UnitsOfOne
<1>. DEFINE A == Units(f, {x})
            B == Units(f, s \ {x})
<1>3. Cardinality(B) \in Nat /\ f[x] \in Nat
  BY FS_CardinalityType
<1>4. IsFiniteSet(B)
  OBVIOUS
<1>. HIDE DEF A, B
<1>5. /\ IsFiniteSet(A \cup B)
      /\ Cardinality(A \cup B)
           = Cardinality(A) + Cardinality(B) - Cardinality(A \cap B)
  BY <1>2, <1>4, FS_Union DEF A
<1>6. Cardinality(A \cap B) = 0 /\ A \cup B = Units(f, s) /\ Cardinality(A) = f[x]
  BY <1>1, <1>2, FS_EmptySet DEF A, B
<1>7. Cardinality(A \cup B) = f[x] + Cardinality(B)
  BY <1>3, <1>5, <1>6
<1>. QED
  BY <1>5, <1>6, <1>7, Zenon DEF B

LEMMA UnitsFinite ==
  ASSUME NEW S, IsFiniteSet(S), NEW f \in [S -> Nat]
  PROVE  \A s \in SUBSET S : IsFiniteSet(Units(f, s))
<1>. DEFINE F == { s \in SUBSET S : ~ IsFiniteSet(Units(f, s)) }
<1>1. SUFFICES ASSUME F # {} PROVE FALSE
  OBVIOUS
<1>2. PICK s \in F : \A t \in F : t \subseteq s => t = s
  <2>1. F \in SUBSET SUBSET S
    OBVIOUS
  <2>. HIDE DEF F
  <2>. QED
    BY <1>1, <2>1, SmallestSubset
<1>3. s # {}
  BY FS_EmptySet DEF Units
<1>4. PICK x \in s : TRUE
  BY <1>3
<1>5. IsFiniteSet(Units(f, s \ {x}))
  BY <1>2, <1>4
<1>. QED
  BY <1>4, <1>5, UnitsSplit

(* The fold by which SumFunction is defined.                               *)
IsFold(f, it) ==
  it = [s \in SUBSET DOMAIN f |->
          IF s = {} THEN 0
          ELSE f[CHOOSE x \in s : TRUE] + it[s \ {CHOOSE x \in s : TRUE}]]

LEMMA SumUnfold ==
  ASSUME NEW f
  PROVE  SumFunction(f) = (CHOOSE it : IsFold(f, it))[DOMAIN f]
  BY Zenon DEF SumFunction, SumFunctionOnSet, FoldFunctionOnSet, MapThenFoldSet,
     IsFold

LEMMA SumIsUnits ==
  ASSUME NEW S, IsFiniteSet(S), NEW f \in [S -> Nat]
  PROVE  /\ IsFiniteSet(Units(f, S))
         /\ SumFunction(f) = Cardinality(Units(f, S))
<1>. DEFINE count == [s \in SUBSET S |-> Cardinality(Units(f, s))]
            it == CHOOSE g : IsFold(f, g)
<1>1. IsFold(f, count)
  <2>1. ASSUME NEW s \in SUBSET S, s # {}, NEW x \in s
        PROVE  count[s] = f[x] + count[s \ {x}]
    BY <2>1, UnitsFinite, UnitsSplit
  <2>2. count[{}] = 0
    <3>1. Units(f, {}) = {}
      BY DEF Units
    <3>. QED
      BY <3>1, FS_EmptySet
  <2>3. \A s \in SUBSET S : count[s] =
          IF s = {} THEN 0
          ELSE f[CHOOSE x \in s : TRUE] + count[s \ {CHOOSE x \in s : TRUE}]
    BY <2>1, <2>2
  <2>. QED
    BY <2>3 DEF IsFold
<1>2. IsFold(f, it)
  BY <1>1
<1>. HIDE DEF it
<1>3. \A s \in SUBSET S : it[s] = count[s]
  <2>. DEFINE F == { s \in SUBSET S : it[s] # count[s] }
  <2>1. SUFFICES ASSUME F # {} PROVE FALSE
    OBVIOUS
  <2>2. PICK s \in F : \A t \in F : t \subseteq s => t = s
    <3>1. F \in SUBSET SUBSET S
      OBVIOUS
    <3>. HIDE DEF F
    <3>. QED
      BY <2>1, <3>1, SmallestSubset
  <2>3. CASE s = {}
    BY <1>1, <1>2, <2>2, <2>3 DEF IsFold
  <2>4. CASE s # {}
    <3>. DEFINE x == CHOOSE x \in s : TRUE
    <3>1. x \in s
      BY <2>4
    <3>2. it[s \ {x}] = count[s \ {x}]
      <4>. HIDE DEF x, count
      <4>1. s \ {x} \in SUBSET S /\ s \ {x} \subseteq s /\ s \ {x} # s
        BY <3>1
      <4>2. s \ {x} \notin F
        BY <2>2, <4>1
      <4>. QED
        BY <4>1, <4>2
    <3>3. it[s] = f[x] + it[s \ {x}] /\ count[s] = f[x] + count[s \ {x}]
      BY <1>1, <1>2, <2>4 DEF IsFold
    <3>. QED
      BY <3>2, <3>3
  <2>. QED
    BY <2>3, <2>4
<1>. QED
  BY <1>3, SumUnfold, UnitsFinite DEF it

(* What follows of sums: their type, and what changes them.                *)
LEMMA SumNat ==
  ASSUME NEW S, IsFiniteSet(S), NEW f \in [S -> Nat]
  PROVE  SumFunction(f) \in Nat
  BY SumIsUnits, FS_CardinalityType

LEMMA SumZero ==
  ASSUME NEW S, IsFiniteSet(S), NEW f \in [S -> Nat], \A x \in S : f[x] = 0
  PROVE  SumFunction(f) = 0
<1>1. Units(f, S) = {}
  BY DEF Units
<1>. QED
  BY <1>1, SumIsUnits, FS_EmptySet

LEMMA SumMonotone ==
  ASSUME NEW S, IsFiniteSet(S), NEW f \in [S -> Nat], NEW g \in [S -> Nat],
         \A x \in S : f[x] <= g[x]
  PROVE  SumFunction(f) <= SumFunction(g)
<1>1. Units(f, S) \in SUBSET Units(g, S)
  BY DEF Units
<1>2. Cardinality(Units(f, S)) <= Cardinality(Units(g, S))
  BY <1>1, SumIsUnits, FS_Subset
<1>. QED
  BY <1>2, SumIsUnits

(* A sum over part of a set is one over the set with zeros elsewhere.      *)
LEMMA SumWidened ==
  ASSUME NEW S, IsFiniteSet(S), NEW T \in SUBSET S, NEW f \in [T -> Nat],
         NEW g \in [S -> Nat],
         \A x \in S : g[x] = IF x \in T THEN f[x] ELSE 0
  PROVE  SumFunction(f) = SumFunction(g)
<1>1. Units(f, T) = Units(g, S)
  BY DEF Units
<1>2. IsFiniteSet(T)
  BY FS_Subset
<1>. QED
  BY <1>1, <1>2, SumIsUnits

(* A sum changes by as much as its only member that changes, and is at     *)
(* least as large as each.                                                 *)
LEMMA SumChanges ==
  ASSUME NEW S, IsFiniteSet(S), NEW f \in [S -> Nat], NEW g \in [S -> Nat],
         NEW x \in S, \A y \in S \ {x} : g[y] = f[y]
  PROVE  /\ SumFunction(g) = SumFunction(f) - f[x] + g[x]
         /\ f[x] <= SumFunction(f)
<1>. DEFINE rest == Cardinality(Units(f, S \ {x}))
<1>1. IsFiniteSet(Units(f, S \ {x})) /\ IsFiniteSet(Units(g, S \ {x}))
  BY UnitsFinite
<1>2. Units(g, S \ {x}) = Units(f, S \ {x})
  BY DEF Units
<1>3. SumFunction(f) = f[x] + rest
  BY <1>1, SumIsUnits, UnitsSplit
<1>4. SumFunction(g) = g[x] + rest
  BY <1>1, <1>2, SumIsUnits, UnitsSplit
<1>5. rest \in Nat /\ f[x] \in Nat /\ g[x] \in Nat
  BY <1>1, FS_CardinalityType
<1>. QED
  BY <1>3, <1>4, <1>5

-----------------------------------------------------------------------------
(* The ledger.                                                             *)

(* What a request holds of its reservation, but not what it was found to   *)
(* have used beyond it.                                                    *)
Kept(r, w) ==
  IF Holds(r, w) < AmountOf(w, cost[r]) THEN Holds(r, w)
                                        ELSE AmountOf(w, cost[r])

InBucket(r, w, b) == WindowStart(w, reservedAt[r]) = b

HeldBy(w, b) == [r \in Requests |-> IF InBucket(r, w, b) THEN Holds(r, w) ELSE 0]
KeptBy(w, b) == [r \in Requests |-> IF InBucket(r, w, b) THEN Kept(r, w) ELSE 0]

(* A counter says what the requests hold of its bucket, and what they kept *)
(* of their reservations is within the ceiling.                            *)
Balanced(w, c) ==
  /\ c.count = SumFunction(HeldBy(w, c.start))
  /\ SumFunction(KeptBy(w, c.start)) <= Limit[w]

(* Once somebody is charged in the present bucket, the counter is that of  *)
(* the present bucket: nobody puts another one in its place.               *)
Fresh(w) ==
  \A r \in Requests :
    w \in Charged(r) /\ ~ Late(w, reservedAt[r]) =>
      cell[w].start = WindowStart(w, clock)

LedgerFor(w) == Balanced(w, cell[w]) /\ Fresh(w)

LedgerInv == \A w \in Limited \ skewed : LedgerFor(w)

(* No reservation is of a time to come, and Reconcile visits the token     *)
(* windows.                                                                *)
TimesInv ==
  \A r \in Requests :
    /\ reservedAt[r] <= clock
    /\ pc[r] = "reconciling" => todo[r] \subseteq TokenWindows

(* The buckets follow each other as time does.                             *)
LEMMA Quotients ==
  ASSUME NEW m \in Int, m > 0, NEW t \in Nat, NEW u \in Nat, t <= u
  PROVE  t \div m \in Nat /\ t \div m <= u \div m
<1>. DEFINE p == t \div m
            q == u \div m
<1>1. /\ p \in Int /\ m * p <= t /\ t < m * p + m
      /\ q \in Int /\ m * q <= u /\ u < m * q + m
  OBVIOUS
<1>2. t \div m \in Nat
  OBVIOUS
<1>. HIDE DEF p, q
<1>3. m * p < m * q + m
  BY <1>1
<1>4. m * (q + 1) = m * q + m
  BY <1>1
<1>5. p < q + 1
  BY <1>1, <1>3, <1>4
<1>. QED
  BY <1>1, <1>2, <1>5 DEF p, q

LEMMA Labels ==
  ASSUME NEW w \in Window, NEW t \in Nat, NEW u \in Nat, t <= u
  PROVE  WindowStart(w, t) \in Nat /\ WindowStart(w, t) <= WindowStart(w, u)
  BY ClockAssumption, Quotients DEF WindowStart

(* What a request holds is a natural number, and nothing where it has no   *)
(* charge.                                                                 *)
LEMMA HoldsNat ==
  ASSUME TypeOK, NEW r \in Requests, NEW w \in Window
  PROVE  /\ AmountOf(w, cost[r]) \in Nat
         /\ Holds(r, w) \in Nat /\ Kept(r, w) \in Nat
         /\ Kept(r, w) <= Holds(r, w) /\ Kept(r, w) <= AmountOf(w, cost[r])
         /\ w \notin Charged(r) => Holds(r, w) = 0 /\ Kept(r, w) = 0
<1>1. AmountOf(w, cost[r]) \in Nat /\ actual[r] \in Nat
  BY AmountNat DEF TypeOK
<1>2. Holds(r, w) \in Nat /\ (w \notin Charged(r) => Holds(r, w) = 0)
  BY <1>1 DEF Holds
<1>. QED
  BY <1>1, <1>2 DEF Kept

LEMMA HeldType ==
  ASSUME TypeOK, NEW w \in Window, NEW b
  PROVE  /\ HeldBy(w, b) \in [Requests -> Nat]
         /\ KeptBy(w, b) \in [Requests -> Nat]
         /\ SumFunction(HeldBy(w, b)) \in Nat
         /\ SumFunction(KeptBy(w, b)) \in Nat
         /\ SumFunction(KeptBy(w, b)) <= SumFunction(HeldBy(w, b))
<1>1. /\ HeldBy(w, b) \in [Requests -> Nat]
      /\ KeptBy(w, b) \in [Requests -> Nat]
      /\ \A r \in Requests : KeptBy(w, b)[r] <= HeldBy(w, b)[r]
  BY HoldsNat DEF HeldBy, KeptBy
<1>. QED
  BY <1>1, RequestAssumption, SumNat, SumMonotone

(* The counter that a caller on time finds is balanced: if it starts an    *)
(* empty one, nobody holds anything of that bucket yet.                    *)
LEMMA FoundIsBalanced ==
  ASSUME TypeOK, NEW w \in Limited, LedgerFor(w), NEW t \in Nat, ~ Late(w, t)
  PROVE  Balanced(w, CounterFor(w, t)) /\ CounterFor(w, t).start = WindowStart(w, t)
<1>. DEFINE b == WindowStart(w, t)
<1>0. w \in Window /\ b = WindowStart(w, clock) /\ Limit[w] \in Nat
  BY LimitNat DEF Limited, Late
<1>1. CASE cell[w].start = b
  BY <1>1 DEF CounterFor, LedgerFor
<1>2. CASE cell[w].start # b
  <2>1. CounterFor(w, t) = [start |-> b, count |-> 0]
    BY <1>2 DEF CounterFor
  <2>2. \A r \in Requests : InBucket(r, w, b) => w \notin Charged(r)
    BY <1>0, <1>2 DEF LedgerFor, Fresh, Late, InBucket
  <2>3. \A r \in Requests : HeldBy(w, b)[r] = 0 /\ KeptBy(w, b)[r] = 0
    BY <1>0, <2>2, HoldsNat DEF HeldBy, KeptBy
  <2>4. SumFunction(HeldBy(w, b)) = 0 /\ SumFunction(KeptBy(w, b)) = 0
    BY <1>0, <2>3, HeldType, RequestAssumption, SumZero
  <2>. QED
    BY <1>0, <2>1, <2>4 DEF Balanced
<1>. QED
  BY <1>1, <1>2

(* What a step leaves alone of a request's entry in the ledger of w.       *)
Same(r, w) ==
  /\ (w \in Charged(r))' <=> w \in Charged(r)
  /\ Holds(r, w)' = Holds(r, w)
  /\ Kept(r, w)' = Kept(r, w)
  /\ w \in Charged(r) => reservedAt'[r] = reservedAt[r]

LEMMA SameEntries ==
  ASSUME TypeOK, TypeOK', NEW w \in Window, NEW b, NEW R \in SUBSET Requests,
         \A r \in R : Same(r, w)
  PROVE  \A r \in R : /\ HeldBy(w, b)'[r] = HeldBy(w, b)[r]
                      /\ KeptBy(w, b)'[r] = KeptBy(w, b)[r]
<1>. SUFFICES ASSUME NEW r \in R
              PROVE  /\ HeldBy(w, b)'[r] = HeldBy(w, b)[r]
                     /\ KeptBy(w, b)'[r] = KeptBy(w, b)[r]
  OBVIOUS
<1>1. CASE w \in Charged(r)
  BY <1>1 DEF Same, HeldBy, KeptBy, InBucket
<1>2. CASE w \notin Charged(r)
  <2>1. Holds(r, w) = 0 /\ Kept(r, w) = 0 /\ Holds(r, w)' = 0 /\ Kept(r, w)' = 0
    BY <1>2, HoldsNat DEF Same
  <2>. QED
    BY <2>1 DEF HeldBy, KeptBy
<1>. QED
  BY <1>1, <1>2

(* What is charged, and what of it adjusted, at each place of a request.   *)
Places ==
  \A r \in Requests :
    /\ pc[r] = "checking" => Charged(r) = Limited \ todo[r] /\ Adjusted(r) = {}
    /\ pc[r] \in { "rollback", "refunding" } =>
         Charged(r) = todo[r] /\ Adjusted(r) = {}
    /\ pc[r] = "reserved" => Charged(r) = Limited /\ Adjusted(r) = {}
    /\ pc[r] = "reconciling" =>
         Charged(r) = Limited /\ Adjusted(r) = TokenWindows \ todo[r]
    /\ pc[r] = "settled" => Charged(r) = Limited /\ Adjusted(r) = TokenWindows
    /\ pc[r] \in { "idle", "rejected", "refunded" } =>
         Charged(r) = {} /\ Adjusted(r) = {}

LEMMA PlacesHold == Places /\ Places'
<1>1. Places
  BY DEF Places, Charged, Adjusted
<1>. QED
  BY <1>1, PTL

(* A request that takes no step keeps its entries.                         *)
Rests(r) ==
  UNCHANGED << pc[r], todo[r], cost[r], actual[r], reservedAt[r] >>

LEMMA RestsSame ==
  ASSUME NEW r \in Requests, Rests(r), NEW w \in Window
  PROVE  Same(r, w)
<1>1. Charged(r)' = Charged(r) /\ Adjusted(r)' = Adjusted(r)
  BY DEF Rests, Charged, Adjusted
<1>2. AmountOf(w, cost[r])' = AmountOf(w, cost[r])
  BY DEF Rests
<1>. QED
  BY <1>1, <1>2 DEF Same, Holds, Kept, Rests

(* A step that changes no entry, and not the counter either, changes       *)
(* nothing of the ledger.                                                  *)
LEMMA QuietLedger ==
  ASSUME TypeOK, TypeOK', NEW w \in Limited, LedgerFor(w),
         \A r \in Requests : Same(r, w), cell'[w] = cell[w], clock' = clock
  PROVE  LedgerFor(w)'
<1>. PICK b : b = cell[w].start
  OBVIOUS
<1>0. w \in Window
  BY DEF Limited
<1>1. \A r \in Requests : /\ HeldBy(w, b)'[r] = HeldBy(w, b)[r]
                          /\ KeptBy(w, b)'[r] = KeptBy(w, b)[r]
  BY <1>0, SameEntries
<1>2. HeldBy(w, b)' = HeldBy(w, b) /\ KeptBy(w, b)' = KeptBy(w, b)
  BY <1>1 DEF HeldBy, KeptBy
<1>3. Balanced(w, cell[w])'
  BY <1>2 DEF LedgerFor, Balanced
<1>4. Fresh(w)'
  BY DEF LedgerFor, Fresh, Late, Same
<1>. QED
  BY <1>3, <1>4 DEF LedgerFor

(* What is held is a natural number after a step as well.                  *)
Measured ==
  \A r \in Requests : \A w \in Window : Holds(r, w) \in Nat /\ Kept(r, w) \in Nat

LEMMA MeasuredNext == TypeOK' => Measured'
<1>1. TypeOK => Measured
  BY HoldsNat DEF Measured
<1>. QED
  BY <1>1, PTL

(* A step of one request changes the sums by as much as its entry.         *)
LEMMA OneMoves ==
  ASSUME TypeOK, TypeOK', NEW w \in Window, NEW b, NEW r \in Requests,
         \A q \in Requests \ {r} : Same(q, w), reservedAt'[r] = reservedAt[r]
  PROVE  /\ InBucket(r, w, b) =>
              /\ SumFunction(HeldBy(w, b))'
                   = SumFunction(HeldBy(w, b)) - Holds(r, w) + Holds(r, w)'
              /\ SumFunction(KeptBy(w, b))'
                   = SumFunction(KeptBy(w, b)) - Kept(r, w) + Kept(r, w)'
              /\ Holds(r, w) <= SumFunction(HeldBy(w, b))
         /\ ~ InBucket(r, w, b) =>
              /\ SumFunction(HeldBy(w, b))' = SumFunction(HeldBy(w, b))
              /\ SumFunction(KeptBy(w, b))' = SumFunction(KeptBy(w, b))
<1>. DEFINE H == HeldBy(w, b)
            K == KeptBy(w, b)
<1>1. \A q \in Requests \ {r} : H'[q] = H[q] /\ K'[q] = K[q]
  BY SameEntries
<1>2. /\ H \in [Requests -> Nat] /\ K \in [Requests -> Nat]
      /\ H' \in [Requests -> Nat] /\ K' \in [Requests -> Nat]
  BY HeldType, MeasuredNext DEF Measured, HeldBy, KeptBy
<1>3. /\ H[r] = IF InBucket(r, w, b) THEN Holds(r, w) ELSE 0
      /\ H'[r] = IF InBucket(r, w, b) THEN Holds(r, w)' ELSE 0
      /\ K[r] = IF InBucket(r, w, b) THEN Kept(r, w) ELSE 0
      /\ K'[r] = IF InBucket(r, w, b) THEN Kept(r, w)' ELSE 0
  BY DEF HeldBy, KeptBy, InBucket
<1>4. /\ SumFunction(H) \in Nat /\ SumFunction(K) \in Nat
  BY HeldType
<1>. HIDE DEF H, K
<1>5. /\ SumFunction(H') = SumFunction(H) - H[r] + H'[r]
      /\ H[r] <= SumFunction(H)
  BY <1>1, <1>2, RequestAssumption, SumChanges
<1>6. SumFunction(K') = SumFunction(K) - K[r] + K'[r]
  BY <1>1, <1>2, RequestAssumption, SumChanges
<1>7. CASE InBucket(r, w, b)
  BY <1>3, <1>5, <1>6, <1>7 DEF H, K
<1>8. CASE ~ InBucket(r, w, b)
  <2>1. H[r] = 0 /\ H'[r] = 0 /\ K[r] = 0 /\ K'[r] = 0
    BY <1>3, <1>8
  <2>2. SumFunction(H') = SumFunction(H) /\ SumFunction(K') = SumFunction(K)
    BY <1>4, <1>5, <1>6, <2>1
  <2>. QED
    BY <1>8, <2>2 DEF H, K
<1>. QED
  BY <1>7, <1>8

(* A charge adds to a balanced counter what the request holds from now on; *)
(* the test leaves room for it (ratelimit.go:268-281).                     *)
LEMMA ChargeLedger ==
  ASSUME TypeOK, TypeOK', NEW r \in Requests, NEW w \in Window, Charge(r, w),
         NEW v \in Limited, LedgerFor(v), v \notin skewed'
  PROVE  LedgerFor(v)'
<1>. USE LimitNat
<1>1. /\ pc[r] = "checking" /\ w \in todo[r] /\ w \in Limited /\ v \in Window
      /\ pc'[r] = (IF todo[r] = {w} THEN "reserved" ELSE "checking")
      /\ todo'[r] = todo[r] \ {w}
      /\ UNCHANGED << clock, cost, actual, reservedAt >>
  BY DEF Charge, IsNext, TypeOK, Limited
<1>2. \A u \in Window : \A q \in Requests \ {r} : Same(q, u)
  <2>1. \A q \in Requests \ {r} : Rests(q)
    BY DEF Charge, Rests, TypeOK
  <2>. QED
    BY <2>1, RestsSame
<1>3. /\ Charged(r) = Limited \ todo[r] /\ Adjusted(r) = {}
      /\ Charged(r)' = (Limited \ todo[r]) \cup {w} /\ Adjusted(r)' = {}
  <2>1. Limited' = Limited
    BY DEF Limited
  <2>2. CASE todo[r] = {w}
    BY <1>1, <2>1, <2>2, PlacesHold DEF Places
  <2>3. CASE todo[r] # {w}
    BY <1>1, <2>1, <2>3, PlacesHold DEF Places
  <2>. QED
    BY <2>2, <2>3
<1>4. AmountOf(v, cost[r])' = AmountOf(v, cost[r])
  BY <1>1
<1>5. CASE v # w
  <2>1. Same(r, v)
    BY <1>1, <1>3, <1>4, <1>5 DEF Same, Holds, Kept
  <2>2. cell'[v] = cell[v]
    BY <1>5 DEF Charge, Touch, TypeOK
  <2>. QED
    BY <1>1, <1>2, <2>1, <2>2, QuietLedger
<1>6. CASE v = w
  <2>. PICK b : b = WindowStart(w, reservedAt[r])
    OBVIOUS
  <2>. PICK c : c = CounterFor(w, reservedAt[r])
    OBVIOUS
  <2>. DEFINE amount == AmountOf(w, cost[r])
  <2>1. ~ Late(w, reservedAt[r]) /\ reservedAt[r] \in Nat
    BY <1>6 DEF Charge, Touch, TypeOK
  <2>2. Balanced(w, c) /\ c.start = b /\ c \in [start : Int, count : Nat]
    BY <1>1, <1>6, <2>1, FoundIsBalanced, CounterForType
  <2>3. amount \in Nat /\ c.count + amount <= Limit[w]
    BY HoldsNat DEF Charge, Fits
  <2>4. cell'[w].start = b /\ cell'[w].count = c.count + amount
    BY <2>2, <2>3 DEF Charge, Touch, TypeOK
  <2>5. /\ Holds(r, w) = 0 /\ Kept(r, w) = 0
        /\ Holds(r, w)' = amount /\ Kept(r, w)' = amount
    <3>1. w \notin Charged(r) /\ w \in Charged(r)' /\ w \notin Adjusted(r)'
      BY <1>1, <1>3
    <3>2. Holds(r, w) = 0 /\ Kept(r, w) = 0
      BY <3>1, HoldsNat
    <3>3. Holds(r, w)' = amount
      BY <1>4, <1>6, <3>1 DEF Holds
    <3>. QED
      BY <1>4, <1>6, <2>3, <3>2, <3>3 DEF Kept
  <2>. HIDE DEF amount
  <2>6. InBucket(r, w, b)
    BY DEF InBucket
  <2>7. /\ SumFunction(HeldBy(w, b))' = SumFunction(HeldBy(w, b)) + amount
        /\ SumFunction(KeptBy(w, b))' = SumFunction(KeptBy(w, b)) + amount
        /\ SumFunction(KeptBy(w, b)) <= SumFunction(HeldBy(w, b))
        /\ SumFunction(KeptBy(w, b)) \in Nat /\ SumFunction(HeldBy(w, b)) \in Nat
    <3>1. /\ SumFunction(HeldBy(w, b)) \in Nat /\ SumFunction(KeptBy(w, b)) \in Nat
          /\ SumFunction(KeptBy(w, b)) <= SumFunction(HeldBy(w, b))
      BY HeldType
    <3>2. /\ SumFunction(HeldBy(w, b))'
               = SumFunction(HeldBy(w, b)) - Holds(r, w) + Holds(r, w)'
          /\ SumFunction(KeptBy(w, b))'
               = SumFunction(KeptBy(w, b)) - Kept(r, w) + Kept(r, w)'
      BY <1>1, <1>2, <2>6, OneMoves
    <3>. QED
      BY <2>3, <2>5, <3>1, <3>2
  <2>8. c.count = SumFunction(HeldBy(w, b))
    BY <2>2 DEF Balanced
  <2>9. /\ cell'[w].count = SumFunction(HeldBy(w, b))'
        /\ SumFunction(KeptBy(w, b))' <= Limit[w]
    BY <1>1, <2>3, <2>4, <2>7, <2>8
  <2>10. Balanced(w, cell[w])'
    BY <2>4, <2>9 DEF Balanced
  <2>11. Fresh(w)'
    BY <1>1, <2>1, <2>4 DEF Fresh, Late
  <2>. QED
    BY <1>6, <2>10, <2>11 DEF LedgerFor
<1>. QED
  BY <1>5, <1>6

(* A refusal may leave an empty counter of the present bucket.             *)
LEMMA RejectLedger ==
  ASSUME TypeOK, TypeOK', NEW r \in Requests, NEW w \in Window, Reject(r, w),
         NEW v \in Limited, LedgerFor(v), v \notin skewed'
  PROVE  LedgerFor(v)'
<1>1. /\ pc[r] = "checking" /\ todo[r] \subseteq Limited /\ v \in Window
      /\ pc'[r] = (IF Limited = todo[r] THEN "rejected" ELSE "rollback")
      /\ todo'[r] = Limited \ todo[r]
      /\ UNCHANGED << clock, cost, actual, reservedAt >>
  BY DEF Reject, TypeOK, Limited
<1>2. \A q \in Requests : Same(q, v)
  <2>1. \A q \in Requests \ {r} : Rests(q)
    BY DEF Reject, Rests, TypeOK
  <2>2. /\ Charged(r) = Limited \ todo[r] /\ Adjusted(r) = {}
        /\ Charged(r)' = Limited \ todo[r] /\ Adjusted(r)' = {}
    <3>1. CASE Limited = todo[r]
      BY <1>1, <3>1, PlacesHold DEF Places
    <3>2. CASE Limited # todo[r]
      BY <1>1, <3>2, PlacesHold DEF Places
    <3>. QED
      BY <3>1, <3>2
  <2>3. Same(r, v)
    BY <1>1, <2>2 DEF Same, Holds, Kept
  <2>. QED
    BY <1>1, <2>1, <2>3, RestsSame
<1>3. CASE cell'[v] = cell[v]
  BY <1>1, <1>2, <1>3, QuietLedger
<1>4. CASE cell'[v] # cell[v]
  <2>. PICK c : c = CounterFor(v, reservedAt[r])
    OBVIOUS
  <2>1. v = w /\ cell'[v] = c
    BY <1>4 DEF Reject, Touch, TypeOK
  <2>2. ~ Late(v, reservedAt[r]) /\ reservedAt[r] \in Nat
    BY <2>1 DEF Reject, Touch, TypeOK
  <2>3. Balanced(v, c) /\ c.start = WindowStart(v, reservedAt[r])
    BY <2>2, FoundIsBalanced
  <2>. PICK b : b = c.start
    OBVIOUS
  <2>4. \A q \in Requests : /\ HeldBy(v, b)'[q] = HeldBy(v, b)[q]
                            /\ KeptBy(v, b)'[q] = KeptBy(v, b)[q]
    BY <1>1, <1>2, SameEntries
  <2>5. HeldBy(v, b)' = HeldBy(v, b) /\ KeptBy(v, b)' = KeptBy(v, b)
    BY <2>4 DEF HeldBy, KeptBy
  <2>6. Balanced(v, cell[v])'
    BY <2>1, <2>3, <2>5 DEF Balanced
  <2>7. Fresh(v)'
    BY <1>1, <2>1, <2>2, <2>3 DEF Fresh, Late
  <2>. QED
    BY <2>6, <2>7 DEF LedgerFor
<1>. QED
  BY <1>3, <1>4

(* A rollback or a refund takes off exactly what the request holds: the    *)
(* counter of its bucket is never below that, so the clamp does not bite   *)
(* (ratelimit.go:285-313).                                                 *)
LEMMA CreditLedger ==
  ASSUME TypeOK, TypeOK', NEW r \in Requests, NEW w \in Window,
         Rollback(r, w) \/ Refund(r, w),
         NEW v \in Limited, LedgerFor(v), v \notin skewed'
  PROVE  LedgerFor(v)'
<1>. USE LimitNat
<1>1. /\ pc[r] \in { "rollback", "refunding" } /\ w \in todo[r] /\ v \in Window
      /\ IF todo[r] = {w} THEN pc'[r] \in { "rejected", "refunded" }
                          ELSE pc'[r] = pc[r]
      /\ todo'[r] = todo[r] \ {w}
      /\ UNCHANGED << clock, cost, actual, reservedAt >>
  BY DEF Rollback, Refund, IsNext, TypeOK, Limited
<1>2. \A u \in Window : \A q \in Requests \ {r} : Same(q, u)
  <2>1. \A q \in Requests \ {r} : Rests(q)
    BY DEF Rollback, Refund, Rests, TypeOK
  <2>. QED
    BY <2>1, RestsSame
<1>3. /\ Charged(r) = todo[r] /\ Adjusted(r) = {}
      /\ Charged(r)' = todo[r] \ {w} /\ Adjusted(r)' = {}
  <2>1. CASE todo[r] = {w}
    BY <1>1, <2>1, PlacesHold DEF Places
  <2>2. CASE todo[r] # {w}
    BY <1>1, <2>2, PlacesHold DEF Places
  <2>. QED
    BY <2>1, <2>2
<1>4. PICK t \in Nat : /\ Credit(r, w, t)
                       /\ v = w => WindowStart(w, t) = WindowStart(w, reservedAt[r])
  <2>1. CASE Rollback(r, w)
    BY <2>1 DEF Rollback, TypeOK
  <2>2. CASE Refund(r, w)
    <3>1. Credit(r, w, finishedAt[r]) /\ finishedAt[r] \in Nat
      BY <2>2 DEF Refund, TypeOK
    <3>2. v = w => ~ Straddles(r, w)
      BY <2>2 DEF Refund
    <3>. QED
      BY <3>1, <3>2 DEF Straddles
  <2>. QED
    BY <2>1, <2>2
<1>5. CASE v # w
  <2>1. Same(r, v)
    BY <1>1, <1>3, <1>5 DEF Same, Holds, Kept
  <2>2. cell'[v] = cell[v]
    BY <1>4, <1>5 DEF Credit, TypeOK
  <2>. QED
    BY <1>1, <1>2, <2>1, <2>2, QuietLedger
<1>6. CASE v = w
  <2>. DEFINE amount == AmountOf(w, cost[r])
  <2>. PICK b : b = cell[w].start
    OBVIOUS
  <2>1. /\ Holds(r, w) = amount /\ Holds(r, w)' = 0 /\ amount \in Nat
        /\ Kept(r, w) = amount /\ Kept(r, w)' = 0
    <3>1. w \in Charged(r) /\ w \notin Adjusted(r) /\ w \notin Charged(r)'
      BY <1>1, <1>3
    <3>2. Holds(r, w) = amount /\ amount \in Nat /\ Holds(r, w)' = 0
      BY <3>1, HoldsNat DEF Holds
    <3>3. AmountOf(w, cost[r])' = amount
      BY <1>1
    <3>. QED
      BY <3>2, <3>3 DEF Kept
  <2>2. /\ cell[w].count = SumFunction(HeldBy(w, b))
        /\ SumFunction(KeptBy(w, b)) <= Limit[w]
        /\ SumFunction(HeldBy(w, b)) \in Nat /\ SumFunction(KeptBy(w, b)) \in Nat
        /\ Limit[w] \in Nat
    BY <1>6, HeldType DEF LedgerFor, Balanced, Limited
  <2>3. /\ cell'[w].start = b
        /\ cell'[w].count = IF InBucket(r, w, b)
                            THEN AtLeastZero(cell[w].count - amount)
                            ELSE cell[w].count
    BY <1>4, <1>6 DEF Credit, InBucket, TypeOK
  <2>. HIDE DEF amount
  <2>4. ASSUME InBucket(r, w, b)
        PROVE  Balanced(w, cell[w])'
    <3>1. /\ SumFunction(HeldBy(w, b))' = SumFunction(HeldBy(w, b)) - amount + 0
          /\ SumFunction(KeptBy(w, b))' = SumFunction(KeptBy(w, b)) - amount + 0
          /\ amount <= SumFunction(HeldBy(w, b))
      BY <1>1, <1>2, <2>1, <2>4, OneMoves
    <3>2. /\ cell'[w].count = SumFunction(HeldBy(w, b))'
          /\ SumFunction(KeptBy(w, b))' <= Limit[w]
      BY <2>1, <2>2, <2>3, <2>4, <3>1 DEF AtLeastZero
    <3>. QED
      BY <2>3, <3>2 DEF Balanced
  <2>5. ASSUME ~ InBucket(r, w, b)
        PROVE  Balanced(w, cell[w])'
    <3>1. /\ SumFunction(HeldBy(w, b))' = SumFunction(HeldBy(w, b))
          /\ SumFunction(KeptBy(w, b))' = SumFunction(KeptBy(w, b))
      BY <1>1, <1>2, <2>5, OneMoves
    <3>. QED
      BY <2>2, <2>3, <2>5, <3>1 DEF Balanced
  <2>6. Balanced(w, cell[w])'
    BY <2>4, <2>5
  <2>7. Fresh(w)'
    <3>1. \A q \in Requests : w \in Charged(q)' => w \in Charged(q)
      BY <1>2, <1>3, <1>6 DEF Same
    <3>. QED
      BY <1>1, <1>6, <2>3, <3>1 DEF LedgerFor, Fresh, Late
  <2>. QED
    BY <1>6, <2>6, <2>7 DEF LedgerFor
<1>. QED
  BY <1>5, <1>6

(* Reconcile puts the usage in the place of the estimate: on time and in   *)
(* the bucket it charged, it finds the counter that holds the estimate     *)
(* (ratelimit.go:318-330).                                                 *)
LEMMA ReconcileLedger ==
  ASSUME TypeOK, TypeOK', TimesInv, NEW r \in Requests, NEW w \in Window,
         Reconcile(r, w), NEW v \in Limited, LedgerFor(v), v \notin skewed'
  PROVE  LedgerFor(v)'
<1>. USE LimitNat
<1>1. /\ pc[r] = "reconciling" /\ w \in todo[r] /\ w \in TokenWindows
      /\ v \in Window
      /\ pc'[r] = (IF todo[r] = {w} THEN "settled" ELSE "reconciling")
      /\ todo'[r] = todo[r] \ {w}
      /\ UNCHANGED << clock, cost, actual, reservedAt >>
  BY DEF Reconcile, IsNext, TypeOK, TimesInv, Limited
<1>2. \A u \in Window : \A q \in Requests \ {r} : Same(q, u)
  <2>1. \A q \in Requests \ {r} : Rests(q)
    BY DEF Reconcile, Rests, TypeOK
  <2>. QED
    BY <2>1, RestsSame
<1>3. /\ Charged(r) = Limited /\ Adjusted(r) = TokenWindows \ todo[r]
      /\ Charged(r)' = Limited /\ Adjusted(r)' = (TokenWindows \ todo[r]) \cup {w}
  <2>1. Limited' = Limited
    BY DEF Limited
  <2>2. todo[r] \subseteq TokenWindows
    BY <1>1 DEF TimesInv
  <2>3. CASE todo[r] = {w}
    BY <1>1, <2>1, <2>2, <2>3, PlacesHold DEF Places
  <2>4. CASE todo[r] # {w}
    BY <1>1, <2>1, <2>2, <2>4, PlacesHold DEF Places
  <2>. QED
    BY <2>3, <2>4
<1>5. CASE v # w
  <2>1. Same(r, v)
    BY <1>1, <1>3, <1>5 DEF Same, Holds, Kept
  <2>2. cell'[v] = cell[v]
    BY <1>5 DEF Reconcile, TypeOK
  <2>. QED
    BY <1>1, <1>2, <2>1, <2>2, QuietLedger
<1>6. CASE v = w
  <2>. PICK b : b = WindowStart(w, reservedAt[r])
    OBVIOUS
  <2>1. /\ cost[r].tokens \in Nat /\ actual[r] \in Nat
        /\ AmountOf(w, cost[r]) = cost[r].tokens
    BY <1>1 DEF TypeOK, Cost, AmountOf, TokenWindows
  <2>2. /\ ~ Late(w, finishedAt[r]) /\ ~ Straddles(r, w)
        /\ finishedAt[r] \in Nat
    BY <1>6 DEF Reconcile, TypeOK
  <2>3. /\ WindowStart(w, finishedAt[r]) = b /\ WindowStart(w, clock) = b
        /\ cell[w].start = b
    BY <1>3, <1>6, <2>2 DEF Late, Straddles, LedgerFor, Fresh
  <2>4. CounterFor(w, finishedAt[r]) = cell[w]
    BY <2>3 DEF CounterFor
  <2>5. /\ cell'[w].start = b
        /\ cell'[w].count =
             AtLeastZero(cell[w].count + (actual[r] - cost[r].tokens))
    BY <1>6, <2>3, <2>4 DEF Reconcile, TypeOK
  <2>6. /\ Holds(r, w) = cost[r].tokens /\ Holds(r, w)' = actual[r]
        /\ Kept(r, w) = cost[r].tokens
        /\ Kept(r, w)' \in Nat /\ Kept(r, w)' <= cost[r].tokens
    <3>1. /\ w \in Charged(r) /\ w \notin Adjusted(r)
          /\ w \in Charged(r)' /\ w \in Adjusted(r)'
      BY <1>1, <1>3, <1>6
    <3>2. Holds(r, w) = cost[r].tokens /\ Holds(r, w)' = actual[r]
      BY <1>1, <2>1, <3>1 DEF Holds
    <3>3. AmountOf(w, cost[r])' = cost[r].tokens
      BY <1>1, <2>1
    <3>. QED
      BY <2>1, <3>2, <3>3 DEF Kept
  <2>7. /\ cell[w].count = SumFunction(HeldBy(w, b))
        /\ SumFunction(KeptBy(w, b)) <= Limit[w]
        /\ SumFunction(HeldBy(w, b)) \in Nat /\ SumFunction(KeptBy(w, b)) \in Nat
        /\ Limit[w] \in Nat
    BY <1>6, <2>3, HeldType DEF LedgerFor, Balanced
  <2>8. InBucket(r, w, b)
    BY DEF InBucket
  <2>9. /\ SumFunction(HeldBy(w, b))'
             = SumFunction(HeldBy(w, b)) - cost[r].tokens + actual[r]
        /\ SumFunction(KeptBy(w, b))'
             = SumFunction(KeptBy(w, b)) - cost[r].tokens + Kept(r, w)'
        /\ cost[r].tokens <= SumFunction(HeldBy(w, b))
    BY <1>1, <1>2, <2>6, <2>8, OneMoves
  <2>10. cell'[w].count = SumFunction(HeldBy(w, b))'
    BY <2>1, <2>5, <2>7, <2>9 DEF AtLeastZero
  <2>11. SumFunction(KeptBy(w, b))' <= Limit[w]
    BY <2>1, <2>6, <2>7, <2>9
  <2>12. Balanced(w, cell[w])'
    BY <2>5, <2>10, <2>11 DEF Balanced
  <2>13. Fresh(w)'
    BY <1>1, <2>3, <2>5 DEF Fresh
  <2>. QED
    BY <1>6, <2>12, <2>13 DEF LedgerFor
<1>. QED
  BY <1>5, <1>6

(* The purge drops only counters of buckets that are over, in which nobody *)
(* has anything at stake (ratelimit.go:178-206).                           *)
LEMMA PurgeLedger ==
  ASSUME TypeOK, TypeOK', PurgeStale, NEW v \in Limited, LedgerFor(v),
         v \notin skewed'
  PROVE  LedgerFor(v)'
<1>. USE LimitNat
<1>1. /\ v \in Window /\ UNCHANGED << clock, pc, todo, cost, actual, reservedAt >>
      /\ cell'[v] = IF Stale(v) THEN NoCounter ELSE cell[v]
      /\ Stale(v) => ~ Late(v, sweepAt)
  BY DEF PurgeStale, Limited
<1>2. \A q \in Requests : Same(q, v)
  BY <1>1, RestsSame DEF Rests
<1>3. CASE ~ Stale(v)
  BY <1>1, <1>2, <1>3, QuietLedger
<1>4. CASE Stale(v)
  <2>1. cell'[v].start = -1 /\ cell'[v].count = 0
    BY <1>1, <1>4 DEF NoCounter
  <2>2. \A q \in Requests : ~ InBucket(q, v, -1)
    <3>. SUFFICES ASSUME NEW q \in Requests
                  PROVE  WindowStart(v, reservedAt[q]) # -1
      BY DEF InBucket
    <3>1. reservedAt[q] \in Nat
      BY DEF TypeOK
    <3>. QED
      BY <1>1, <3>1, Labels
  <2>3. \A q \in Requests : HeldBy(v, -1)'[q] = 0 /\ KeptBy(v, -1)'[q] = 0
    BY <1>1, <2>2 DEF HeldBy, KeptBy, InBucket
  <2>4. SumFunction(HeldBy(v, -1)') = 0 /\ SumFunction(KeptBy(v, -1)') = 0
    <3>1. HeldBy(v, -1)' \in [Requests -> Nat] /\ KeptBy(v, -1)' \in [Requests -> Nat]
      BY <1>1, MeasuredNext DEF Measured, HeldBy, KeptBy
    <3>. QED
      BY <2>3, <3>1, RequestAssumption, SumZero
  <2>5. Balanced(v, cell[v])'
    BY <2>1, <2>4 DEF Balanced
  <2>6. cell[v].start # WindowStart(v, clock)
    BY <1>1, <1>4 DEF Stale, Late
  <2>7. \A q \in Requests : v \in Charged(q) => Late(v, reservedAt[q])
    BY <2>6 DEF LedgerFor, Fresh
  <2>8. Fresh(v)'
    BY <1>1, <1>2, <2>7 DEF Fresh, Late, Same
  <2>. QED
    BY <2>5, <2>8 DEF LedgerFor
<1>. QED
  BY <1>3, <1>4

(* Time passes: in a bucket that begins now nobody is charged yet.         *)
LEMMA TickLedger ==
  ASSUME TypeOK, TypeOK', TimesInv, Tick, NEW v \in Limited, LedgerFor(v)
  PROVE  LedgerFor(v)'
<1>1. /\ v \in Window /\ clock \in Nat /\ clock' = clock + 1
      /\ UNCHANGED << cell, pc, todo, cost, actual, reservedAt >>
  BY DEF Tick, Limited, TypeOK
<1>2. \A q \in Requests : Same(q, v)
  BY <1>1, RestsSame DEF Rests
<1>. PICK b : b = cell[v].start
  OBVIOUS
<1>3. \A q \in Requests : /\ HeldBy(v, b)'[q] = HeldBy(v, b)[q]
                          /\ KeptBy(v, b)'[q] = KeptBy(v, b)[q]
  BY <1>1, <1>2, SameEntries
<1>4. HeldBy(v, b)' = HeldBy(v, b) /\ KeptBy(v, b)' = KeptBy(v, b)
  BY <1>3 DEF HeldBy, KeptBy
<1>5. Balanced(v, cell[v])'
  BY <1>1, <1>4 DEF LedgerFor, Balanced
<1>6. ASSUME NEW q \in Requests, v \in Charged(q)', ~ Late(v, reservedAt[q])'
      PROVE  cell'[v].start = WindowStart(v, clock')
  <2>1. reservedAt[q] \in Nat /\ reservedAt[q] <= clock /\ clock <= clock'
    BY <1>1 DEF TypeOK, TimesInv
  <2>2. WindowStart(v, reservedAt[q]) = WindowStart(v, clock')
    BY <1>1, <1>6 DEF Late
  <2>3. /\ WindowStart(v, reservedAt[q]) <= WindowStart(v, clock)
        /\ WindowStart(v, clock) <= WindowStart(v, clock')
        /\ WindowStart(v, reservedAt[q]) \in Nat /\ WindowStart(v, clock) \in Nat
    BY <1>1, <2>1, Labels
  <2>4. WindowStart(v, reservedAt[q]) = WindowStart(v, clock)
    BY <2>2, <2>3
  <2>5. cell[v].start = WindowStart(v, clock)
    BY <1>2, <1>6, <2>4 DEF LedgerFor, Fresh, Late, Same
  <2>. QED
    BY <1>1, <2>2, <2>4, <2>5
<1>7. Fresh(v)'
  BY <1>6 DEF Fresh, Late
<1>. QED
  BY <1>5, <1>7 DEF LedgerFor

(* The calls that only read the clock, and a step of another part.         *)
LEMMA CallLedger ==
  ASSUME TypeOK, TypeOK', UNCHANGED << clock, cell >>, NEW v \in Limited,
         LedgerFor(v), NEW r \in Requests,
         \/ \E c \in CostSet : CallCheckAndReserve(r, c)
         \/ CallRefund(r)
         \/ \E a \in ActualSet : CallReconcile(r, a)
  PROVE  LedgerFor(v)'
<1>0. v \in Window /\ Limited' = Limited
  BY DEF Limited
<1>1. \A q \in Requests \ {r} : Rests(q)
  BY DEF CallCheckAndReserve, CallRefund, CallReconcile, Rests, TypeOK
<1>2. CASE \E c \in CostSet : CallCheckAndReserve(r, c)
  <2>1. Charged(r) = {}
    BY <1>2, PlacesHold DEF CallCheckAndReserve, Places
  <2>2. v \notin Charged(r)'
    <3>1. CASE Limited = {}
      BY <3>1
    <3>2. CASE Limited # {}
      <4>1. pc'[r] = "checking" /\ todo'[r] = Limited
        BY <1>2, <3>2 DEF CallCheckAndReserve, TypeOK
      <4>. QED
        BY <1>0, <4>1, PlacesHold DEF Places
    <3>. QED
      BY <3>1, <3>2
  <2>3. Holds(r, v) = 0 /\ Kept(r, v) = 0
    BY <1>0, <2>1, HoldsNat
  <2>4. Holds(r, v)' = 0 /\ Kept(r, v)' = 0
    <3>1. Holds(r, v)' = 0
      BY <2>2 DEF Holds
    <3>2. AmountOf(v, cost[r])' \in Nat
      BY <1>0, AmountNat DEF TypeOK
    <3>. QED
      BY <3>1, <3>2 DEF Kept
  <2>5. Same(r, v)
    BY <2>1, <2>2, <2>3, <2>4 DEF Same
  <2>. QED
    BY <1>0, <1>1, <2>5, RestsSame, QuietLedger
<1>3. CASE CallRefund(r)
  <2>1. /\ Charged(r) = Limited /\ Adjusted(r) = {}
        /\ UNCHANGED << cost, actual, reservedAt >>
    BY <1>3, PlacesHold DEF CallRefund, Places
  <2>2. Charged(r)' = Limited /\ Adjusted(r)' = {}
    <3>1. CASE Limited = {}
      BY <3>1, <1>0
    <3>2. CASE Limited # {}
      <4>1. pc'[r] = "refunding" /\ todo'[r] = Limited
        BY <1>3, <3>2 DEF CallRefund, TypeOK
      <4>. QED
        BY <1>0, <4>1, PlacesHold DEF Places
    <3>. QED
      BY <3>1, <3>2
  <2>3. Same(r, v)
    BY <2>1, <2>2 DEF Same, Holds, Kept
  <2>. QED
    BY <1>0, <1>1, <2>3, RestsSame, QuietLedger
<1>4. ASSUME NEW a \in ActualSet, CallReconcile(r, a)
      PROVE  LedgerFor(v)'
  <2>1. /\ Charged(r) = Limited /\ Adjusted(r) = {}
        /\ UNCHANGED << cost, reservedAt >>
    BY <1>4, PlacesHold DEF CallReconcile, Places
  <2>2. AmountOf(v, cost[r])' = AmountOf(v, cost[r])
    BY <2>1
  <2>3. CASE a # cost[r].tokens
    <3>1. pc'[r] = "reconciling" /\ todo'[r] = TokenWindows
      BY <1>4, <2>3 DEF CallReconcile, TypeOK
    <3>2. Charged(r)' = Limited /\ Adjusted(r)' = {}
      BY <1>0, <3>1, PlacesHold DEF Places, TokenWindows
    <3>3. Same(r, v)
      BY <2>1, <2>2, <3>2 DEF Same, Holds, Kept
    <3>. QED
      BY <1>0, <1>1, <3>3, RestsSame, QuietLedger
  <2>4. CASE a = cost[r].tokens
    <3>1. pc'[r] = "settled" /\ actual'[r] = cost[r].tokens
      BY <1>4, <2>4 DEF CallReconcile, TypeOK
    <3>2. Charged(r)' = Limited /\ Adjusted(r)' = TokenWindows
      BY <1>0, <3>1, PlacesHold DEF Places, TokenWindows
    <3>3. v \in TokenWindows => AmountOf(v, cost[r]) = cost[r].tokens
      BY <1>0 DEF AmountOf, TokenWindows
    <3>4. Holds(r, v)' = Holds(r, v)
      BY <2>1, <2>2, <3>1, <3>2, <3>3 DEF Holds
    <3>5. Same(r, v)
      BY <2>1, <2>2, <3>2, <3>4 DEF Same, Kept
    <3>. QED
      BY <1>0, <1>1, <3>5, RestsSame, QuietLedger
  <2>. QED
    BY <2>3, <2>4
<1>. QED
  BY <1>2, <1>3, <1>4

LEMMA NextTimesInv == TypeOK /\ TimesInv /\ [Next]_vars => TimesInv'
<1>. SUFFICES ASSUME TypeOK, TimesInv, [Next]_vars
              PROVE  TimesInv'
  OBVIOUS
<1>. USE DEF TypeOK, TimesInv
<1>1. CASE Tick
  BY <1>1 DEF Tick
<1>2. CASE StartPurge \/ PurgeStale \/ UNCHANGED vars
  BY <1>2 DEF StartPurge, PurgeStale, vars
<1>3. ASSUME NEW r \in Requests, NEW c \in CostSet, CallCheckAndReserve(r, c)
      PROVE  TimesInv'
  BY <1>3 DEF CallCheckAndReserve
<1>4. ASSUME NEW r \in Requests, CallRefund(r)
      PROVE  TimesInv'
  BY <1>4 DEF CallRefund
<1>5. ASSUME NEW r \in Requests, NEW a \in ActualSet, CallReconcile(r, a)
      PROVE  TimesInv'
  BY <1>5 DEF CallReconcile
<1>6. ASSUME NEW r \in Requests, NEW w \in Window,
             Charge(r, w) \/ Reject(r, w) \/ Rollback(r, w) \/ Refund(r, w)
      PROVE  TimesInv'
  BY <1>6 DEF Charge, Reject, Rollback, Refund
<1>7. ASSUME NEW r \in Requests, NEW w \in Window, Reconcile(r, w)
      PROVE  TimesInv'
  BY <1>7 DEF Reconcile
<1>. QED
  BY <1>1, <1>2, <1>3, <1>4, <1>5, <1>6, <1>7 DEF Next, Step

(* A window once worked on across a bucket boundary stays marked.          *)
LEMMA SkewGrows ==
  ASSUME [Next]_vars
  PROVE  skewed \subseteq skewed'
<1>1. CASE Tick \/ StartPurge \/ PurgeStale \/ UNCHANGED vars
  BY <1>1 DEF Tick, StartPurge, PurgeStale, vars
<1>2. ASSUME NEW r \in Requests, Step(r)
      PROVE  skewed \subseteq skewed'
  BY <1>2 DEF Step, CallCheckAndReserve, CallRefund, CallReconcile, Charge,
     Reject, Rollback, Refund, Reconcile, Touch
<1>. QED
  BY <1>1, <1>2 DEF Next

LEMMA NextLedgerInv ==
  TypeOK /\ TimesInv /\ LedgerInv /\ [Next]_vars => LedgerInv'
<1>. SUFFICES ASSUME TypeOK, TypeOK', TimesInv, LedgerInv, [Next]_vars,
                     NEW v \in Limited, v \notin skewed'
              PROVE  LedgerFor(v)'
  BY NextTypeOK DEF LedgerInv, Limited
<1>1. LedgerFor(v)
  BY SkewGrows DEF LedgerInv
<1>2. CASE Tick
  BY <1>1, <1>2, TickLedger
<1>3. CASE PurgeStale
  BY <1>1, <1>3, PurgeLedger
<1>4. CASE StartPurge \/ UNCHANGED vars
  <2>1. \A q \in Requests : Rests(q)
    BY <1>4 DEF StartPurge, vars, Rests
  <2>2. \A q \in Requests : Same(q, v)
    BY <2>1, RestsSame DEF Limited
  <2>. QED
    BY <1>1, <1>4, <2>2, QuietLedger DEF StartPurge, vars
<1>5. ASSUME NEW r \in Requests,
             \/ \E c \in CostSet : CallCheckAndReserve(r, c)
             \/ CallRefund(r)
             \/ \E a \in ActualSet : CallReconcile(r, a)
      PROVE  LedgerFor(v)'
  <2>1. UNCHANGED << clock, cell >>
    BY <1>5 DEF CallCheckAndReserve, CallRefund, CallReconcile
  <2>. QED
    BY <1>1, <1>5, <2>1, CallLedger
<1>6. ASSUME NEW r \in Requests, NEW w \in Window, Charge(r, w)
      PROVE  LedgerFor(v)'
  BY <1>1, <1>6, ChargeLedger
<1>7. ASSUME NEW r \in Requests, NEW w \in Window, Reject(r, w)
      PROVE  LedgerFor(v)'
  BY <1>1, <1>7, RejectLedger
<1>8. ASSUME NEW r \in Requests, NEW w \in Window, Rollback(r, w) \/ Refund(r, w)
      PROVE  LedgerFor(v)'
  BY <1>1, <1>8, CreditLedger
<1>9. ASSUME NEW r \in Requests, NEW w \in Window, Reconcile(r, w)
      PROVE  LedgerFor(v)'
  BY <1>1, <1>9, ReconcileLedger
<1>. QED
  BY <1>2, <1>3, <1>4, <1>5, <1>6, <1>7, <1>8, <1>9 DEF Next, Step

LEMMA InitLedgerInv == Init => TimesInv /\ LedgerInv
<1>. SUFFICES ASSUME Init, NEW v \in Limited
              PROVE  TimesInv /\ LedgerFor(v)
  BY DEF Init, LedgerInv, TimesInv
<1>1. TypeOK /\ v \in Window /\ Limit[v] \in Nat
  BY InitTypeOK, LimitNat DEF Limited
<1>2. \A r \in Requests : Charged(r) = {}
  BY PlacesHold DEF Init, Places
<1>3. \A r \in Requests : HeldBy(v, -1)[r] = 0 /\ KeptBy(v, -1)[r] = 0
  BY <1>1, <1>2, HoldsNat DEF HeldBy, KeptBy
<1>4. SumFunction(HeldBy(v, -1)) = 0 /\ SumFunction(KeptBy(v, -1)) = 0
  BY <1>1, <1>3, HeldType, RequestAssumption, SumZero
<1>5. Balanced(v, cell[v])
  BY <1>1, <1>4 DEF Init, Balanced, NoCounter
<1>. QED
  BY <1>2, <1>5 DEF Init, TimesInv, LedgerFor, Fresh

LEMMA LedgerHolds == Spec => [](TypeOK /\ TimesInv /\ LedgerInv)
  BY InitTypeOK, InitLedgerInv, NextTypeOK, NextTimesInv, NextLedgerInv, PTL
  DEF Spec

(* As long as no call has worked across a bucket boundary, each counter is *)
(* the sum of what the requests hold of its bucket, for any number of them *)
(* and any interleaving of their loops: nothing is lost, and nothing       *)
(* invented.                                                               *)
THEOREM ChargesAreConserved == Spec => []ChargesConserved
<1>1. TypeOK /\ LedgerInv => ChargesConserved
  <2>. SUFFICES ASSUME TypeOK, LedgerInv, NEW w \in Limited \ skewed
                PROVE  cell[w].count = HeldIn(w, cell[w].start)
    BY DEF ChargesConserved
  <2>. PICK b : b = cell[w].start
    OBVIOUS
  <2>1. w \in Window /\ cell[w].count = SumFunction(HeldBy(w, b))
    BY DEF LedgerInv, LedgerFor, Balanced, Limited
  <2>. DEFINE held == [r \in ReservedIn(w, b) |-> Holds(r, w)]
  <2>2. held \in [ReservedIn(w, b) -> Nat] /\ ReservedIn(w, b) \in SUBSET Requests
    BY <2>1, HoldsNat DEF ReservedIn
  <2>3. HeldBy(w, b) \in [Requests -> Nat]
    BY <2>1, HeldType
  <2>4. \A r \in Requests :
          HeldBy(w, b)[r] = IF r \in ReservedIn(w, b) THEN held[r] ELSE 0
    BY DEF HeldBy, ReservedIn, InBucket
  <2>5. SumFunction(held) = SumFunction(HeldBy(w, b))
    <3>. HIDE DEF held
    <3>. QED
      BY <2>2, <2>3, <2>4, RequestAssumption, SumWidened
  <2>. QED
    BY <2>1, <2>5 DEF HeldIn
<1>. QED
  BY <1>1, LedgerHolds, PTL

-----------------------------------------------------------------------------
(* The refinement.                                                         *)

(* What the atomic quota sees of a request, entry by entry.                *)
Amounts ==
  \A r \in Requests : \A w \in Window :
    /\ Reservation[r][w] = IF Counts(r, w) THEN AmountOf(w, cost[r]) ELSE 0
    /\ Usage[r][w] = IF Counts(r, w) THEN Holds(r, w) ELSE 0

LEMMA AmountsHold == Amounts /\ Amounts'
<1>1. Amounts
  BY DEF Amounts, Reservation, Usage
<1>. QED
  BY <1>1, PTL

(* What the requests that count for a window have kept of their            *)
(* reservations is within its ceiling.                                     *)
TotalsWithin ==
  \A w \in Limited \ skewed : Promise!Total(w) <= Limit[w]

LEMMA TotalsAreWithin == TypeOK /\ LedgerInv => TotalsWithin
<1>. SUFFICES ASSUME TypeOK, LedgerInv, NEW w \in Limited \ skewed
              PROVE  Promise!Total(w) <= Limit[w]
  BY DEF TotalsWithin
<1>. PICK b : b = cell[w].start
  OBVIOUS
<1>. DEFINE f == [r \in Requests |-> Promise!Kept(r, w)]
<1>1. /\ w \in Window /\ Limit[w] \in Nat
      /\ SumFunction(KeptBy(w, b)) <= Limit[w] /\ Fresh(w)
  BY LimitNat DEF LedgerInv, LedgerFor, Balanced, Limited
<1>2. ASSUME NEW r \in Requests
      PROVE  Promise!Kept(r, w) \in Nat /\ Promise!Kept(r, w) <= KeptBy(w, b)[r]
  <2>1. /\ AmountOf(w, cost[r]) \in Nat /\ Holds(r, w) \in Nat /\ Kept(r, w) \in Nat
    BY <1>1, HoldsNat
  <2>2. CASE Counts(r, w)
    <3>1. w \in Charged(r)
      BY <2>2, PlacesHold DEF Counts, Admitted, Places
    <3>2. InBucket(r, w, b)
      BY <1>1, <2>2, <3>1 DEF Fresh, Counts, Late, InBucket
    <3>3. KeptBy(w, b)[r] = Kept(r, w)
      BY <3>2 DEF KeptBy
    <3>4. Promise!Kept(r, w) = Kept(r, w)
      BY <1>1, <2>2, AmountsHold DEF Amounts, Promise!Kept, Kept
    <3>. QED
      BY <2>1, <3>3, <3>4
  <2>3. CASE ~ Counts(r, w)
    <3>1. Promise!Kept(r, w) = 0
      BY <1>1, <2>3, AmountsHold DEF Amounts, Promise!Kept
    <3>2. KeptBy(w, b)[r] \in Nat
      BY <2>1 DEF KeptBy
    <3>. QED
      BY <3>1, <3>2
  <2>. QED
    BY <2>2, <2>3
<1>3. f \in [Requests -> Nat] /\ KeptBy(w, b) \in [Requests -> Nat]
  BY <1>1, <1>2, HeldType
<1>4. \A r \in Requests : f[r] <= KeptBy(w, b)[r]
  BY <1>2
<1>5. Promise!Total(w) = SumFunction(f)
  BY Zenon DEF Promise!Total, Promise!SumFunction, Promise!SumFunctionOnSet,
     Promise!FoldFunctionOnSet, Promise!MapThenFoldSet, SumFunction,
     SumFunctionOnSet, FoldFunctionOnSet, MapThenFoldSet
<1>. HIDE DEF f
<1>6. /\ SumFunction(f) <= SumFunction(KeptBy(w, b))
      /\ SumFunction(f) \in Nat /\ SumFunction(KeptBy(w, b)) \in Nat
  BY <1>3, <1>4, RequestAssumption, SumMonotone, SumNat
<1>. QED
  BY <1>1, <1>5, <1>6

LEMMA TotalsStayWithin == TypeOK' /\ LedgerInv' => TotalsWithin'
  BY TotalsAreWithin, PTL

(* What a step may leave alone of what the quota sees.                     *)
SameCount(r) ==
  /\ Admitted(r)' <=> Admitted(r)
  /\ Reservation'[r] = Reservation[r]
  /\ Usage'[r] = Usage[r]

LEMMA SameCountFrom ==
  ASSUME NEW r \in Requests, Admitted(r)' <=> Admitted(r),
         \A w \in Window :
           /\ Counts(r, w)' <=> Counts(r, w)
           /\ Counts(r, w) => /\ AmountOf(w, cost[r])' = AmountOf(w, cost[r])
                              /\ Holds(r, w)' = Holds(r, w)
  PROVE  SameCount(r)
<1>1. \A w \in Window : /\ Reservation'[r][w] = Reservation[r][w]
                        /\ Usage'[r][w] = Usage[r][w]
  BY AmountsHold DEF Amounts
<1>2. Reservation'[r] = Reservation[r]
  BY <1>1 DEF Reservation
<1>3. Usage'[r] = Usage[r]
  BY <1>1 DEF Usage
<1>. QED
  BY <1>2, <1>3 DEF SameCount

(* A request that rests counts for what it did before, as long as it is    *)
(* the same minute.                                                        *)
LEMMA RestsCount ==
  ASSUME NEW r \in Requests, Rests(r), clock' = clock
  PROVE  SameCount(r)
<1>1. Admitted(r)' <=> Admitted(r)
  BY DEF Rests, Admitted
<1>2. \A w \in Window : Holds(r, w)' = Holds(r, w)
  BY RestsSame DEF Same
<1>3. \A w \in Window : /\ Counts(r, w)' <=> Counts(r, w)
                        /\ AmountOf(w, cost[r])' = AmountOf(w, cost[r])
  BY <1>1 DEF Rests, Counts, Late, Limited
<1>. QED
  BY <1>1, <1>2, <1>3, SameCountFrom

(* So does one that is not admitted, neither before nor after.             *)
LEMMA OutsideCount ==
  ASSUME NEW r \in Requests, ~ Admitted(r), ~ Admitted(r)'
  PROVE  SameCount(r)
  BY SameCountFrom DEF Counts

LEMMA StutterOfQuota ==
  ASSUME \A r \in Requests : SameCount(r), skewed = {}, skewed' = {}
  PROVE  UNCHANGED Promise!vars
<1>1. Reservation' = Reservation
  BY DEF SameCount, Reservation
<1>2. Usage' = Usage
  BY DEF SameCount, Usage
<1>3. { r \in Requests : Admitted(r) }' = { r \in Requests : Admitted(r) }
  BY DEF SameCount
<1>. QED
  BY <1>1, <1>2, <1>3 DEF Promise!vars

(* A request is admitted when its last window is charged.                  *)
LEMMA AdmitsAtOnce ==
  ASSUME TypeOK', LedgerInv', NEW r \in Requests, skewed' = {},
         ~ Admitted(r), pc'[r] = "reserved",
         \A q \in Requests \ {r} : SameCount(q)
  PROVE  Promise!Admit(r)
<1>1. /\ r \notin { q \in Requests : Admitted(q) }
      /\ { q \in Requests : Admitted(q) }'
           = { q \in Requests : Admitted(q) } \cup {r}
  BY DEF SameCount, Admitted
<1>2. Promise!OthersStay(r)
  BY DEF Promise!OthersStay, SameCount
<1>3. \A w \in Window : Usage'[r][w] = Reservation'[r][w]
  <2>1. Charged(r)' = Limited' /\ Adjusted(r)' = {}
    BY PlacesHold DEF Places
  <2>2. \A w \in Window : Counts(r, w)' => Holds(r, w)' = AmountOf(w, cost[r])'
    BY <2>1 DEF Counts, Holds
  <2>. QED
    BY <2>2, AmountsHold DEF Amounts
<1>4. Usage'[r] = Reservation'[r]
  BY <1>3 DEF Usage, Reservation
<1>5. \A w \in Limited : Promise!Total(w)' <= Limit[w]
  BY TotalsStayWithin DEF TotalsWithin, Limited
<1>. QED
  BY <1>1, <1>2, <1>4, <1>5 DEF Promise!Admit

(* A refund gives everything back when it begins.                          *)
LEMMA GivesBackAtOnce ==
  ASSUME NEW r \in Requests, Admitted(r), ~ Admitted(r)',
         \A q \in Requests \ {r} : SameCount(q)
  PROVE  Promise!GiveBack(r)
<1>1. /\ r \in { q \in Requests : Admitted(q) }
      /\ { q \in Requests : Admitted(q) }'
           = { q \in Requests : Admitted(q) } \ {r}
  BY DEF SameCount
<1>2. \A w \in Window : Reservation'[r][w] = 0 /\ Usage'[r][w] = 0
  BY AmountsHold DEF Amounts, Counts
<1>3. Reservation'[r] = Promise!None /\ Usage'[r] = Promise!None
  BY <1>2 DEF Reservation, Usage, Promise!None
<1>4. Reservation' = [Reservation EXCEPT ![r] = Promise!None]
  BY <1>3 DEF SameCount, Reservation
<1>5. Usage' = [Usage EXCEPT ![r] = Promise!None]
  BY <1>3 DEF SameCount, Usage
<1>. QED
  BY <1>1, <1>4, <1>5 DEF Promise!GiveBack

(* Each step of Reconcile corrects one token window.                       *)
LEMMA CorrectsOneWindow ==
  ASSUME TypeOK, TypeOK', TimesInv, NEW r \in Requests, NEW w \in Window,
         Reconcile(r, w), \A q \in Requests \ {r} : SameCount(q)
  PROVE  Promise!Correct(r)
<1>1. /\ Admitted(r) /\ Admitted(r)' /\ w \in TokenWindows
      /\ pc[r] = "reconciling" /\ todo'[r] = todo[r] \ {w}
      /\ pc'[r] = (IF todo[r] = {w} THEN "settled" ELSE "reconciling")
      /\ UNCHANGED << clock, cost, actual, reservedAt >>
  BY DEF Reconcile, IsNext, TypeOK, TimesInv, Admitted
<1>2. /\ r \in { q \in Requests : Admitted(q) }
      /\ { q \in Requests : Admitted(q) }' = { q \in Requests : Admitted(q) }
  BY <1>1 DEF SameCount
<1>3. \A u \in Window :
        /\ Counts(r, u)' <=> Counts(r, u)
        /\ AmountOf(u, cost[r])' = AmountOf(u, cost[r])
  BY <1>1 DEF Counts, Late, Limited
<1>4. ASSUME NEW u \in Window \ TokenWindows
      PROVE  Holds(r, u)' = Holds(r, u)
  <2>1. Limited' = Limited
    BY DEF Limited
  <2>2. /\ Charged(r) = Limited /\ Charged(r)' = Limited
        /\ u \notin Adjusted(r) /\ u \notin Adjusted(r)'
    <3>1. CASE todo[r] = {w}
      BY <1>1, <2>1, <3>1, PlacesHold DEF Places
    <3>2. CASE todo[r] # {w}
      BY <1>1, <2>1, <3>2, PlacesHold DEF Places
    <3>. QED
      BY <3>1, <3>2
  <2>. QED
    BY <1>3, <2>2 DEF Holds
<1>5. \A u \in Window : Reservation'[r][u] = Reservation[r][u]
  BY <1>3, AmountsHold DEF Amounts
<1>6. Reservation'[r] = Reservation[r]
  BY <1>5 DEF Reservation
<1>7. Reservation' = Reservation
  BY <1>6 DEF SameCount, Reservation
<1>8. \A u \in Window \ TokenWindows : Usage'[r][u] = Usage[r][u]
  BY <1>3, <1>4, AmountsHold DEF Amounts
<1>9. Promise!OthersStay(r)
  BY DEF Promise!OthersStay, SameCount
<1>. QED
  BY <1>2, <1>7, <1>8, <1>9 DEF Promise!Correct

(* When time passes, the windows whose bucket ends forget their charges.   *)
LEMMA TimeRollsOver ==
  ASSUME TypeOK, TimesInv, Tick
  PROVE  Promise!Rollover
<1>. DEFINE W == { w \in Window : WindowStart(w, clock') # WindowStart(w, clock) }
<1>1. /\ clock \in Nat /\ clock' = clock + 1
      /\ UNCHANGED << pc, todo, cost, actual, reservedAt >>
  BY DEF Tick, TypeOK
<1>2. /\ \A r \in Requests : Admitted(r)' <=> Admitted(r)
      /\ { r \in Requests : Admitted(r) }' = { r \in Requests : Admitted(r) }
  BY <1>1 DEF Admitted
<1>3. \A r \in Requests : \A w \in Window :
        /\ Holds(r, w)' = Holds(r, w)
        /\ AmountOf(w, cost[r])' = AmountOf(w, cost[r])
  <2>1. \A r \in Requests : Rests(r)
    BY <1>1 DEF Rests
  <2>. QED
    BY <1>1, <2>1, RestsSame DEF Same
<1>4. ASSUME NEW r \in Requests, NEW w \in Window
      PROVE  Counts(r, w)' <=> Counts(r, w) /\ w \notin W
  <2>1. /\ reservedAt[r] \in Nat /\ reservedAt[r] <= clock /\ clock <= clock'
        /\ clock' \in Nat
    BY <1>1 DEF TypeOK, TimesInv
  <2>2. /\ WindowStart(w, reservedAt[r]) <= WindowStart(w, clock)
        /\ WindowStart(w, clock) <= WindowStart(w, clock')
        /\ WindowStart(w, reservedAt[r]) \in Nat
        /\ WindowStart(w, clock) \in Nat /\ WindowStart(w, clock') \in Nat
    BY <1>1, <2>1, Labels
  <2>3. WindowStart(w, reservedAt[r]) = WindowStart(w, clock') <=>
          /\ WindowStart(w, reservedAt[r]) = WindowStart(w, clock)
          /\ WindowStart(w, clock') = WindowStart(w, clock)
    BY <2>2
  <2>4. Late(w, reservedAt[r])' <=> Late(w, reservedAt[r]) \/ w \in W
    BY <1>1, <2>3 DEF Late
  <2>. QED
    BY <1>2, <2>4 DEF Counts, Limited
<1>. HIDE DEF W
<1>5. \A r \in Requests : \A w \in Window :
        /\ Reservation'[r][w] = IF w \in W THEN 0 ELSE Reservation[r][w]
        /\ Usage'[r][w] = IF w \in W THEN 0 ELSE Usage[r][w]
  BY <1>3, <1>4, AmountsHold DEF Amounts
<1>6. Reservation' = [r \in Requests |->
        [w \in Window |-> IF w \in W THEN 0 ELSE Reservation[r][w]]]
  BY <1>5 DEF Reservation
<1>7. Usage' = [r \in Requests |->
        [w \in Window |-> IF w \in W THEN 0 ELSE Usage[r][w]]]
  BY <1>5 DEF Usage
<1>8. W \in SUBSET Window
  BY DEF W
<1>. QED
  BY <1>2, <1>6, <1>7, <1>8 DEF Promise!Rollover

(* Each step of the limiter is a step of the atomic quota or changes       *)
(* nothing of it.                                                          *)
LEMMA NextImplementsQuota ==
  ASSUME TypeOK, TypeOK', TimesInv, LedgerInv', [Next]_vars, skewed' = {}
  PROVE  Promise!Next \/ UNCHANGED Promise!vars
<1>0. skewed = {}
  BY SkewGrows
<1>1. CASE Tick
  BY <1>1, TimeRollsOver DEF Promise!Next
<1>2. CASE StartPurge \/ PurgeStale \/ UNCHANGED vars
  <2>1. \A r \in Requests : Rests(r) /\ clock' = clock
    BY <1>2 DEF StartPurge, PurgeStale, vars, Rests
  <2>. QED
    BY <1>0, <2>1, RestsCount, StutterOfQuota
<1>3. ASSUME NEW r \in Requests, Step(r)
      PROVE  Promise!Next \/ UNCHANGED Promise!vars
  <2>1. clock' = clock /\ \A q \in Requests \ {r} : Rests(q)
    <3>1. CASE \/ \E c \in CostSet : CallCheckAndReserve(r, c)
               \/ CallRefund(r)
               \/ \E a \in ActualSet : CallReconcile(r, a)
      BY <3>1 DEF CallCheckAndReserve, CallRefund, CallReconcile, Rests, TypeOK
    <3>2. CASE \E w \in Window : \/ Charge(r, w) \/ Reject(r, w)
                                 \/ Rollback(r, w) \/ Refund(r, w)
      BY <3>2 DEF Charge, Reject, Rollback, Refund, Rests, TypeOK
    <3>3. CASE \E w \in Window : Reconcile(r, w)
      BY <3>3 DEF Reconcile, Rests, TypeOK
    <3>. QED
      BY <1>3, <3>1, <3>2, <3>3 DEF Step
  <2>2. \A q \in Requests \ {r} : SameCount(q)
    BY <2>1, RestsCount
  <2>3. ASSUME ~ Admitted(r), ~ Admitted(r)'
        PROVE  UNCHANGED Promise!vars
    BY <1>0, <2>2, <2>3, OutsideCount, StutterOfQuota
  <2>4. ASSUME ~ Admitted(r), pc'[r] = "reserved"
        PROVE  Promise!Next
    BY <2>2, <2>4, AdmitsAtOnce DEF Promise!Next
  <2>5. CASE \E c \in CostSet : CallCheckAndReserve(r, c)
    <3>1. ~ Admitted(r) /\ pc'[r] \in { "reserved", "checking" }
      BY <2>5 DEF CallCheckAndReserve, Admitted, TypeOK
    <3>. QED
      BY <2>3, <2>4, <3>1 DEF Admitted
  <2>6. CASE CallRefund(r)
    <3>1. Admitted(r) /\ ~ Admitted(r)'
      BY <2>6 DEF CallRefund, Admitted, TypeOK
    <3>. QED
      BY <2>2, <3>1, GivesBackAtOnce DEF Promise!Next
  <2>7. ASSUME NEW a \in ActualSet, CallReconcile(r, a)
        PROVE  UNCHANGED Promise!vars
    <3>1. /\ Admitted(r) /\ Admitted(r)'
          /\ UNCHANGED << clock, cost, reservedAt >>
      BY <2>7 DEF CallReconcile, Admitted, TypeOK
    <3>2. \A w \in Window :
            /\ Counts(r, w)' <=> Counts(r, w)
            /\ AmountOf(w, cost[r])' = AmountOf(w, cost[r])
      BY <3>1 DEF Counts, Late, Limited
    <3>3. ASSUME NEW w \in Window
          PROVE  Holds(r, w)' = Holds(r, w)
      <4>1. Charged(r) = Limited /\ Adjusted(r) = {} /\ Limited' = Limited
        BY <2>7, PlacesHold DEF CallReconcile, Places, Limited
      <4>2. CASE a # cost[r].tokens
        <5>1. pc'[r] = "reconciling" /\ todo'[r] = TokenWindows
          BY <2>7, <4>2 DEF CallReconcile, TypeOK
        <5>2. Charged(r)' = Limited /\ Adjusted(r)' = {}
          BY <4>1, <5>1, PlacesHold DEF Places, TokenWindows
        <5>. QED
          BY <3>2, <4>1, <5>2 DEF Holds
      <4>3. CASE a = cost[r].tokens
        <5>1. pc'[r] = "settled" /\ actual'[r] = cost[r].tokens
          BY <2>7, <4>3 DEF CallReconcile, TypeOK
        <5>2. Charged(r)' = Limited /\ Adjusted(r)' = TokenWindows
          BY <4>1, <5>1, PlacesHold DEF Places, TokenWindows
        <5>3. w \in TokenWindows => AmountOf(w, cost[r]) = cost[r].tokens
          BY DEF AmountOf, TokenWindows
        <5>. QED
          BY <3>2, <4>1, <5>1, <5>2, <5>3 DEF Holds
      <4>. QED
        BY <4>2, <4>3
    <3>4. SameCount(r)
      BY <3>1, <3>2, <3>3, SameCountFrom
    <3>. QED
      BY <1>0, <2>2, <3>4, StutterOfQuota
  <2>8. ASSUME NEW w \in Window, Charge(r, w)
        PROVE  Promise!Next \/ UNCHANGED Promise!vars
    <3>1. ~ Admitted(r) /\ pc'[r] \in { "reserved", "checking" }
      BY <2>8 DEF Charge, Admitted, TypeOK
    <3>. QED
      BY <2>3, <2>4, <3>1 DEF Admitted
  <2>9. ASSUME NEW w \in Window, Reject(r, w) \/ Rollback(r, w) \/ Refund(r, w)
        PROVE  UNCHANGED Promise!vars
    <3>1. ~ Admitted(r) /\ ~ Admitted(r)'
      BY <2>9 DEF Reject, Rollback, Refund, Admitted, TypeOK
    <3>. QED
      BY <2>3, <3>1
  <2>10. ASSUME NEW w \in Window, Reconcile(r, w)
         PROVE  Promise!Next
    BY <2>2, <2>10, CorrectsOneWindow DEF Promise!Next
  <2>. QED
    BY <1>3, <2>5, <2>6, <2>7, <2>8, <2>9, <2>10 DEF Step
<1>. QED
  BY <1>1, <1>2, <1>3 DEF Next

(* The limiter implements the atomic quota, for any number of requests,    *)
(* any limits and any interleaving of the loops over the windows: until a  *)
(* call works across a bucket boundary, each request is admitted all at    *)
(* once, and only within every ceiling.                                    *)
THEOREM LimiterImplementsQuota == Spec => ImplementsQuota
<1>1. Init => Promise!Init
  <2>. SUFFICES ASSUME Init
                PROVE  Promise!Init
    OBVIOUS
  <2>1. \A r \in Requests : ~ Admitted(r)
    BY DEF Init, Admitted
  <2>2. \A r \in Requests : \A w \in Window :
          Reservation[r][w] = 0 /\ Usage[r][w] = 0
    BY <2>1, AmountsHold DEF Amounts, Counts
  <2>3. /\ Reservation = [r \in Requests |-> Promise!None]
        /\ Usage = [r \in Requests |-> Promise!None]
    BY <2>2 DEF Reservation, Usage, Promise!None
  <2>. QED
    BY <2>1, <2>3 DEF Init, Promise!Init
<1>2. /\ TypeOK /\ TypeOK' /\ TimesInv /\ LedgerInv' /\ [Next]_vars
      => [(skewed # {})' \/ Promise!Next]_Promise!vars
  BY NextImplementsQuota
<1>. QED
  BY <1>1, <1>2, LedgerHolds, PTL DEF Spec, ImplementsQuota, Promise!Spec
=============================================================================
