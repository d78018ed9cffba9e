------------------------- MODULE ProviderGroupProofs -------------------------
(***************************************************************************)
(* Theorems about ProviderGroup, for any number of callers and             *)
(* credentials, any thresholds and every order of results.                 *)
(***************************************************************************)
EXTENDS ProviderGroup, TLAPS

(* A count that stops at its threshold stays within it.                    *)
LEMMA AtMostBounds ==
  ASSUME NEW n \in Nat, NEW bound \in Nat
  PROVE  AtMost(n, bound) \in 0 .. bound
  BY DEF AtMost

(* The bookkeeping of picks counts in natural numbers.                     *)
LEMMA TurnsType ==
  ASSUME TypeOK, NEW k \in Keys, NEW P \in SUBSET Keys
  PROVE  Turns(k, P) \in [Keys -> Nat]
<1>. DEFINE old == IF P = pool THEN share ELSE [j \in Keys |-> 0]
            new == [old EXCEPT ![k] = @ + 1]
<1>1. old \in [Keys -> Nat]
  BY DEF TypeOK
<1>2. new \in [Keys -> Nat]
  BY <1>1
<1>. HIDE DEF new
<1>3. CASE \A j \in P : new[j] > 0
  <2>1. [j \in Keys |-> IF j \in P THEN new[j] - 1 ELSE 0] \in [Keys -> Nat]
    BY <1>2, <1>3
  <2>. QED
    BY <1>3, <2>1 DEF Turns, new
<1>4. CASE ~ \A j \in P : new[j] > 0
  BY <1>2, <1>4 DEF Turns, new
<1>. QED
  BY <1>3, <1>4

(* The slot has some number of credentials.                                *)
LEMMA SomeKeys == Len(KeyOrder) \in Nat
  BY KeyAssumption

(* A new slot is well typed (router.New, router.go:311-355).               *)
LEMMA InitTypeOK == Init => TypeOK
  BY TimeAssumption, SomeKeys DEF Init, TypeOK, PC, LongAfter

(* A request that is over leaves nothing behind.                           *)
LEMMA FinishType ==
  ASSUME TypeOK, NEW r \in Requests, Finish(r)
  PROVE  /\ pc' \in [Requests -> PC]
         /\ keyOf' \in [Requests -> Keys \cup {NoKey}]
         /\ \A q \in Requests :
              pc'[q] \in { "reserving", "sent" } => keyOf'[q] \in Keys
         /\ skipped' \in [Requests -> SUBSET Keys]
         /\ read' \in [Requests -> 0 .. Len(KeyOrder)]
         /\ clearing' \in [Requests -> SUBSET Keys]
<1>1. /\ pc' \in [Requests -> PC]
      /\ keyOf' \in [Requests -> Keys \cup {NoKey}]
      /\ \A q \in Requests :
           pc'[q] \in { "reserving", "sent" } => keyOf'[q] \in Keys
  BY DEF TypeOK, Finish, PC
<1>2. /\ skipped' \in [Requests -> SUBSET Keys]
      /\ read' \in [Requests -> 0 .. Len(KeyOrder)]
      /\ clearing' \in [Requests -> SUBSET Keys]
  BY SomeKeys DEF TypeOK, Finish
<1>. QED
  BY <1>1, <1>2

(* Each step keeps the types: one step per action of the slot.             *)
LEMMA NextTypeOK == TypeOK /\ [Next]_vars => TypeOK'
<1>. SUFFICES ASSUME TypeOK, [Next]_vars
              PROVE  TypeOK'
  OBVIOUS
<1>. USE TimeAssumption, SomeKeys
     DEF TypeOK, PC, breakerVars, keyVars, rotationVars, requestVars, LongAfter
<1>1. CASE Tick
  <2>1. openFor' \in 0 .. RecoveryTimeout
    BY <1>1, AtMostBounds DEF Tick
  <2>2. cooling' \in [Keys -> 0 .. Forever]
    BY <1>1 DEF Tick
  <2>. QED
    BY <1>1, <2>1, <2>2 DEF Tick
<1>2. ASSUME NEW r \in Requests, ResolveSlot(r)
      PROVE  TypeOK'
  BY <1>2 DEF ResolveSlot, Goto
<1>3. ASSUME NEW r \in Requests, Allow(r) \/ Send(r)
      PROVE  TypeOK'
  BY <1>3 DEF Allow, Send, Goto
<1>4. ASSUME NEW r \in Requests, AllowProbe(r)
      PROVE  TypeOK'
  BY <1>4 DEF AllowProbe, Goto
<1>5. ASSUME NEW r \in Requests,
             Refuse(r) \/ NoKeyLeft(r) \/ QuotaRefused(r) \/ CallerFault(r)
      PROVE  TypeOK'
  <2>1. Finish(r) /\ UNCHANGED << breakerVars, keyVars, rotationVars, grants >>
    BY <1>5 DEF Refuse, NoKeyLeft, QuotaRefused, CallerFault
  <2>. QED
    BY <2>1, FinishType
<1>6. ASSUME NEW r \in Requests, ReadKey(r)
      PROVE  TypeOK'
  <2>1. read' \in [Requests -> 0 .. Len(KeyOrder)]
    BY <1>6 DEF ReadKey
  <2>. QED
    BY <1>6, <2>1 DEF ReadKey
<1>7. ASSUME NEW r \in Requests, PickKey(r)
      PROVE  TypeOK'
  <2>1. PICK k \in Eligible(r) :
          /\ lastKey' = k
          /\ keyOf' = [keyOf EXCEPT ![r] = k]
          /\ share' = Turns(k, Eligible(r))
    BY <1>7 DEF PickKey
  <2>2. k \in Keys /\ Eligible(r) \in SUBSET Keys
    BY DEF Eligible
  <2>3. share' \in [Keys -> Nat]
    BY <2>1, <2>2, TurnsType
  <2>4. /\ pc' = [pc EXCEPT ![r] = "reserving"]
        /\ pool' = Eligible(r)
        /\ skipped' = [skipped EXCEPT ![r] = {}]
        /\ read' = [read EXCEPT ![r] = 0]
        /\ UNCHANGED << breakerVars, keyVars, clearing, grants >>
    BY <1>7 DEF PickKey, Goto
  <2>. QED
    BY <2>1, <2>2, <2>3, <2>4
<1>8. ASSUME NEW r \in Requests, Succeed(r)
      PROVE  TypeOK'
  BY <1>8 DEF Succeed, Goto
<1>9. ASSUME NEW r \in Requests, ClearFails(r)
      PROVE  TypeOK'
  <2>1. fails' \in [Keys -> 0 .. LongAfter]
        /\ UNCHANGED << breakerVars, cooling, rotationVars, grants >>
    BY <1>9 DEF ClearFails
  <2>2. CASE Finish(r)
    <3>1. /\ UNCHANGED << state, errorCount, probes, openFor, cooling >>
          /\ UNCHANGED << lastKey, pool, share, grants >>
      BY <2>1
    <3>. HIDE DEF TypeOK
    <3>2. /\ pc' \in [Requests -> PC]
          /\ keyOf' \in [Requests -> Keys \cup {NoKey}]
          /\ \A q \in Requests :
               pc'[q] \in { "reserving", "sent" } => keyOf'[q] \in Keys
          /\ skipped' \in [Requests -> SUBSET Keys]
          /\ read' \in [Requests -> 0 .. Len(KeyOrder)]
          /\ clearing' \in [Requests -> SUBSET Keys]
      BY <2>2, FinishType
    <3>. QED
      BY <2>1, <3>1, <3>2 DEF TypeOK
  <2>3. CASE ~ Finish(r)
    <3>1. \E k : clearing' = [clearing EXCEPT ![r] = clearing[r] \ {k}]
      BY <1>9, <2>3 DEF ClearFails
    <3>2. UNCHANGED << pc, keyOf, skipped, read >>
      BY <1>9, <2>3 DEF ClearFails
    <3>3. clearing' \in [Requests -> SUBSET Keys]
      BY <3>1
    <3>. QED
      BY <2>1, <3>2, <3>3
  <2>. QED
    BY <2>2, <2>3
<1>10. ASSUME NEW r \in Requests, ServerError(r)
       PROVE  TypeOK'
  <2>1. errorCount' \in 0 .. FailureThreshold
    BY <1>10, AtMostBounds DEF ServerError
  <2>2. /\ probes' \in 0 .. 1
        /\ state' \in { "closed", "open", "half_open" }
        /\ openFor' \in 0 .. RecoveryTimeout
    BY <1>10 DEF ServerError
  <2>. QED
    BY <1>10, <2>1, <2>2 DEF ServerError, Finish
<1>11. ASSUME NEW r \in Requests, NEW ticks \in 0 .. Forever,
              pc[r] = "sent", CoolDown(r, ticks),
              fails' \in [Keys -> 0 .. 3],
              UNCHANGED << breakerVars, rotationVars, grants >>
       PROVE  TypeOK'
  BY <1>11 DEF CoolDown
<1>12. ASSUME NEW r \in Requests, Throttled(r)
       PROVE  TypeOK'
  <2>. DEFINE ticks == IF fails[keyOf[r]] >= 3 THEN LongCooldown ELSE ShortCooldown
  <2>1. ticks \in 0 .. Forever
    OBVIOUS
  <2>2. keyOf[r] \in Keys /\ fails[keyOf[r]] \in 0 .. 3
    BY <1>12 DEF Throttled, Ends
  <2>3. AtMost(fails[keyOf[r]] + 1, 3) \in 0 .. 3
    BY <2>2 DEF AtMost
  <2>4. fails' \in [Keys -> 0 .. 3]
    BY <1>12, <2>2, <2>3 DEF Throttled
  <2>. QED
    BY <1>11, <1>12, <2>1, <2>4 DEF Throttled, Ends
<1>13. ASSUME NEW r \in Requests, KeyRefused(r)
       PROVE  TypeOK'
  BY <1>11, <1>13 DEF KeyRefused, Ends
<1>14. CASE UNCHANGED vars
  BY <1>14 DEF vars
<1>. QED
  BY <1>1, <1>2, <1>3, <1>4, <1>5, <1>6, <1>7, <1>8, <1>9, <1>10, <1>12, <1>13,
     <1>14
  DEF Next, Step

(* The slot is well typed at every moment; a request that is about to be   *)
(* sent, or has been, holds a credential of the slot.                      *)
THEOREM TypeCorrect == Spec => []TypeOK
  BY InitTypeOK, NextTypeOK, PTL DEF Spec

-----------------------------------------------------------------------------
(* The breaker.  Its consistency and the number of seats granted are       *)
(* inductive together: the seats granted since the last outcome are the    *)
(* seats taken.                                                            *)
BreakerInv == BreakerConsistent /\ grants = probes

LEMMA NextBreakerInv == TypeOK /\ BreakerInv /\ [Next]_vars => BreakerInv'
<1>. SUFFICES ASSUME TypeOK, BreakerInv, [Next]_vars
              PROVE  BreakerInv'
  OBVIOUS
<1>. USE TimeAssumption DEF TypeOK, BreakerInv, BreakerConsistent
<1>1. CASE UNCHANGED << state, errorCount, probes, grants >>
  BY <1>1
<1>2. ASSUME NEW r \in Requests, AllowProbe(r)
      PROVE  BreakerInv'
  <2>1. state = "open"
    BY <1>2 DEF AllowProbe, SeatFree
  <2>. QED
    BY <1>2, <2>1 DEF AllowProbe
<1>3. ASSUME NEW r \in Requests, Succeed(r)
      PROVE  BreakerInv'
  BY <1>3 DEF Succeed
<1>4. ASSUME NEW r \in Requests, ServerError(r)
      PROVE  BreakerInv'
  <2>1. probes' = 0 /\ grants' = 0
    BY <1>4 DEF ServerError
  <2>2. state' # "half_open"
    BY <1>4 DEF ServerError
  <2>3. state' = "closed" => errorCount' < FailureThreshold
    BY <1>4 DEF ServerError, AtMost
  <2>. QED
    BY <2>1, <2>2, <2>3
<1>5. ASSUME NEW r \in Requests, ResolveSlot(r) \/ Step(r),
             ~ AllowProbe(r), ~ Succeed(r), ~ ServerError(r)
      PROVE  BreakerInv'
  BY <1>1, <1>5 DEF Step, ResolveSlot, Allow, Refuse, ReadKey, PickKey,
     NoKeyLeft, QuotaRefused, Send, ClearFails, Throttled, KeyRefused, CallerFault,
     breakerVars
<1>6. CASE Tick \/ UNCHANGED vars
  BY <1>1, <1>6 DEF Tick, vars, breakerVars
<1>. QED
  BY <1>2, <1>3, <1>4, <1>5, <1>6 DEF Next

(* The state and the seat agree, and a closed breaker is below its         *)
(* threshold, in whatever order results arrive; so the branch of allows    *)
(* that would grant a seat to a half-open breaker is never taken.          *)
THEOREM BreakerStaysConsistent == Spec => []BreakerConsistent
<1>1. Init => BreakerInv
  BY TimeAssumption DEF Init, BreakerInv, BreakerConsistent
<1>2. BreakerInv => BreakerConsistent
  BY DEF BreakerInv
<1>. QED
  BY <1>1, <1>2, TypeCorrect, NextBreakerInv, PTL DEF Spec

(* Between two grants of the probe seat an outcome has been recorded.      *)
THEOREM SeatGrantedOnce == Spec => []OneSeatPerOutcome
<1>1. Init => BreakerInv
  BY TimeAssumption DEF Init, BreakerInv, BreakerConsistent
<1>2. TypeOK /\ BreakerInv => OneSeatPerOutcome
  BY DEF TypeOK, BreakerInv, OneSeatPerOutcome
<1>. QED
  BY <1>1, <1>2, TypeCorrect, NextBreakerInv, PTL DEF Spec
-----------------------------------------------------------------------------
(* The rotation.                                                           *)

(* Every credential has a place of its own in the configured order.        *)
LEMMA PositionPlaces ==
  /\ Len(KeyOrder) \in Nat
  /\ \A k \in Keys : Position(k) \in 1 .. Len(KeyOrder)
  /\ \A j, k \in Keys : Position(j) = Position(k) => j = k
<1>1. Len(KeyOrder) \in Nat /\ DOMAIN KeyOrder = 1 .. Len(KeyOrder)
  BY KeyAssumption
<1>2. ASSUME NEW k \in Keys
      PROVE  Position(k) \in DOMAIN KeyOrder /\ KeyOrder[Position(k)] = k
  <2>1. \E i \in DOMAIN KeyOrder : KeyOrder[i] = k
    BY DEF Keys
  <2>. QED
    BY <2>1 DEF Position
<1>. QED
  BY <1>1, <1>2

(* The steps of the walk from place q to place p.                          *)
Distance(p, q) == (p - q - 1) % Len(KeyOrder)

LEMMA Remainder ==
  ASSUME NEW L \in Int, L > 0, NEW a \in Int, - L <= a, a < L
  PROVE  a % L = IF a >= 0 THEN a ELSE a + L
<1>1. CASE a >= 0
  BY <1>1
<1>2. CASE a < 0
  BY <1>2
<1>. QED
  BY <1>1, <1>2

LEMMA DistanceIs ==
  ASSUME NEW p \in 1 .. Len(KeyOrder), NEW q \in 0 .. Len(KeyOrder)
  PROVE  Distance(p, q) =
           IF p > q THEN p - q - 1 ELSE p - q - 1 + Len(KeyOrder)
<1>1. Len(KeyOrder) \in Nat /\ Len(KeyOrder) > 0
  BY PositionPlaces
<1>2. /\ p - q - 1 \in Int
      /\ - Len(KeyOrder) <= p - q - 1 /\ p - q - 1 < Len(KeyOrder)
  BY <1>1
<1>3. Distance(p, q) =
        IF p - q - 1 >= 0 THEN p - q - 1 ELSE p - q - 1 + Len(KeyOrder)
  BY <1>1, <1>2, Remainder DEF Distance
<1>. QED
  BY <1>1, <1>3

(* The place the walk has just left is the last it comes back to, and      *)
(* going on to the nearest place brings every other one nearer by as much. *)
LEMMA WalkGoesOn ==
  ASSUME NEW q \in 0 .. Len(KeyOrder), NEW p \in 1 .. Len(KeyOrder),
         NEW k \in 1 .. Len(KeyOrder), p # k
  PROVE  /\ Distance(k, k) = Len(KeyOrder) - 1
         /\ Distance(p, k) < Len(KeyOrder) - 1
         /\ Distance(p, q) # Distance(k, q)
         /\ Distance(k, q) < Distance(p, q) =>
              Distance(p, k) = Distance(p, q) - Distance(k, q) - 1
<1>1. Len(KeyOrder) \in Nat
  BY PositionPlaces
<1>2. /\ Distance(k, k) = Len(KeyOrder) - 1
      /\ Distance(p, k) = IF p > k THEN p - k - 1 ELSE p - k - 1 + Len(KeyOrder)
      /\ Distance(p, q) = IF p > q THEN p - q - 1 ELSE p - q - 1 + Len(KeyOrder)
      /\ Distance(k, q) = IF k > q THEN k - q - 1 ELSE k - q - 1 + Len(KeyOrder)
  BY <1>1, DistanceIs
<1>3. Distance(k, k) = Len(KeyOrder) - 1 /\ Distance(p, k) < Len(KeyOrder) - 1
  BY <1>1, <1>2
<1>4. Distance(p, q) # Distance(k, q)
  BY <1>1, <1>2
<1>5. ASSUME Distance(k, q) < Distance(p, q)
      PROVE  Distance(p, k) = Distance(p, q) - Distance(k, q) - 1
  <2>1. CASE p > q /\ k > q
    BY <1>1, <1>2, <1>5, <2>1
  <2>2. CASE p > q /\ ~ (k > q)
    BY <1>1, <1>2, <1>5, <2>2
  <2>3. CASE ~ (p > q) /\ k > q
    <3>1. p < k
      BY <1>1, <2>3
    <3>. QED
      BY <1>1, <1>2, <2>3, <3>1
  <2>4. CASE ~ (p > q) /\ ~ (k > q)
    <3>1. k < p
      BY <1>1, <1>2, <1>5, <2>4
    <3>. QED
      BY <1>1, <1>2, <2>4, <3>1
  <2>. QED
    BY <2>1, <2>2, <2>3, <2>4
<1>. QED
  BY <1>3, <1>4, <1>5

(* The credential picked last is one of the pool.  Those that have had     *)
(* their turn in this round have had one pick more than the others, and    *)
(* the walk comes to the others first.                                     *)
RotationInv ==
  pool # {} =>
    /\ lastKey \in pool
    /\ \A k \in pool : share[k] \in 0 .. 1
    /\ \E k \in pool : share[k] = 0
    /\ \A j, k \in pool :
         share[j] = 0 /\ share[k] = 1 =>
           Distance(Position(j), Position(lastKey))
             < Distance(Position(k), Position(lastKey))

(* A pick: the credential is the first that has not had its turn, and goes *)
(* to the end of the walk.                                                 *)
LEMMA PickKeepsRotation ==
  ASSUME TypeOK, RotationInv, NEW P \in SUBSET Keys, NEW k \in P,
         Comes(k, P, StartAfter(P)),
         lastKey' = k, share' = Turns(k, P), pool' = P
  PROVE  RotationInv'
<1>. DEFINE q == StartAfter(P)
            old == IF P = pool THEN share ELSE [j \in Keys |-> 0]
            new == [old EXCEPT ![k] = @ + 1]
<1>1. /\ Len(KeyOrder) \in Nat /\ q \in 0 .. Len(KeyOrder)
      /\ \A j \in P : Position(j) \in 1 .. Len(KeyOrder)
      /\ \A i, j \in P : Position(i) = Position(j) => i = j
  BY PositionPlaces DEF StartAfter
<1>2. \A j \in P \ {k} : Distance(Position(k), q) < Distance(Position(j), q)
  <2>. SUFFICES ASSUME NEW j \in P \ {k}
                PROVE  Distance(Position(k), q) < Distance(Position(j), q)
    OBVIOUS
  <2>1. Distance(Position(k), q) <= Distance(Position(j), q)
    BY DEF Comes, Distance
  <2>2. Distance(Position(j), q) # Distance(Position(k), q)
    BY <1>1, WalkGoesOn
  <2>3. Distance(Position(j), q) \in Int /\ Distance(Position(k), q) \in Int
    BY <1>1, DistanceIs
  <2>. QED
    BY <2>1, <2>2, <2>3
<1>3. old \in [Keys -> Nat]
  BY DEF TypeOK
<1>4. /\ \A j \in P : old[j] \in 0 .. 1
      /\ \A i, j \in P : old[i] = 0 /\ old[j] = 1 =>
           Distance(Position(i), q) < Distance(Position(j), q)
      /\ \E j \in P : old[j] = 0
  BY DEF RotationInv, StartAfter
<1>. HIDE DEF q, old
<1>5. old[k] = 0
  <2>1. PICK i \in P : old[i] = 0
    BY <1>4
  <2>2. CASE i = k
    BY <2>1, <2>2
  <2>3. CASE i # k
    <3>1. Distance(Position(k), q) < Distance(Position(i), q)
      BY <1>2, <2>3
    <3>2. Distance(Position(k), q) \in Int /\ Distance(Position(i), q) \in Int
      BY <1>1, DistanceIs
    <3>. QED
      BY <1>4, <2>1, <3>1, <3>2
  <2>. QED
    BY <2>2, <2>3
<1>6. /\ new \in [Keys -> Nat]
      /\ \A j \in P : new[j] = IF j = k THEN 1 ELSE old[j]
  BY <1>3, <1>5
<1>. HIDE DEF new
<1>7. /\ \A j \in P : new[j] \in 0 .. 1
      /\ \A i, j \in P : new[i] = 0 /\ new[j] = 1 =>
           Distance(Position(i), Position(k)) < Distance(Position(j), Position(k))
  <2>. SUFFICES ASSUME NEW i \in P, NEW j \in P, new[i] = 0, new[j] = 1
                PROVE  Distance(Position(i), Position(k))
                         < Distance(Position(j), Position(k))
    BY <1>4, <1>6
  <2>1. i # k /\ old[i] = 0
    BY <1>6
  <2>2. /\ Distance(Position(k), Position(k)) = Len(KeyOrder) - 1
        /\ Distance(Position(i), Position(k)) < Len(KeyOrder) - 1
        /\ Distance(Position(i), Position(k))
             = Distance(Position(i), q) - Distance(Position(k), q) - 1
    BY <1>1, <1>2, <2>1, WalkGoesOn
  <2>3. CASE j = k
    BY <2>2, <2>3
  <2>4. CASE j # k
    <3>1. Distance(Position(j), Position(k))
            = Distance(Position(j), q) - Distance(Position(k), q) - 1
      BY <1>1, <1>2, <2>4, WalkGoesOn
    <3>2. Distance(Position(i), q) < Distance(Position(j), q)
      BY <1>4, <1>6, <2>1, <2>4
    <3>3. /\ Distance(Position(i), q) \in Int /\ Distance(Position(j), q) \in Int
          /\ Distance(Position(k), q) \in Int
      BY <1>1, DistanceIs
    <3>. QED
      BY <2>2, <3>1, <3>2, <3>3
  <2>. QED
    BY <2>3, <2>4
<1>8. CASE \A j \in P : new[j] > 0
  <2>1. share' = [j \in Keys |-> IF j \in P THEN new[j] - 1 ELSE 0]
    BY <1>8 DEF Turns, new, old
  <2>2. \A j \in P : share'[j] = 0
    BY <1>7, <1>8, <2>1
  <2>. QED
    BY <2>2 DEF RotationInv
<1>9. CASE ~ \A j \in P : new[j] > 0
  <2>1. share' = new
    BY <1>9 DEF Turns, new, old
  <2>2. \E j \in P : new[j] = 0
    BY <1>7, <1>9
  <2>. QED
    BY <1>7, <2>1, <2>2 DEF RotationInv
<1>. QED
  BY <1>8, <1>9

LEMMA NextRotationInv == TypeOK /\ RotationInv /\ [Next]_vars => RotationInv'
<1>. SUFFICES ASSUME TypeOK, RotationInv, [Next]_vars
              PROVE  RotationInv'
  OBVIOUS
<1>1. ASSUME UNCHANGED rotationVars
      PROVE  RotationInv'
  BY <1>1 DEF RotationInv, rotationVars
<1>2. ASSUME NEW r \in Requests, PickKey(r)
      PROVE  RotationInv'
  <2>1. Eligible(r) \in SUBSET Keys
    BY DEF Eligible
  <2>2. PICK k \in Eligible(r) :
          /\ Comes(k, Eligible(r), StartAfter(Eligible(r)))
          /\ lastKey' = k
          /\ share' = Turns(k, Eligible(r))
    BY <1>2 DEF PickKey
  <2>3. pool' = Eligible(r)
    BY <1>2 DEF PickKey
  <2>. QED
    BY <2>1, <2>2, <2>3, PickKeepsRotation
<1>3. CASE Tick
  BY <1>1, <1>3 DEF Tick
<1>4. ASSUME NEW r \in Requests,
             ResolveSlot(r) \/ Allow(r) \/ AllowProbe(r) \/ Refuse(r)
               \/ ReadKey(r) \/ NoKeyLeft(r) \/ QuotaRefused(r) \/ Send(r) \/ Succeed(r)
               \/ ClearFails(r) \/ ServerError(r) \/ Throttled(r)
               \/ KeyRefused(r) \/ CallerFault(r)
      PROVE  UNCHANGED rotationVars
  BY <1>4 DEF ResolveSlot, Allow, AllowProbe, Refuse, ReadKey, NoKeyLeft,
     QuotaRefused, Send, Succeed, ClearFails, ServerError, Throttled, KeyRefused, CallerFault
<1>5. CASE UNCHANGED vars
  BY <1>1, <1>5 DEF vars
<1>. QED
  BY <1>1, <1>2, <1>3, <1>4, <1>5 DEF Next, Step

(* As long as the same credentials are eligible, the picks of any two of   *)
(* them differ by one at most, whatever the order in which callers come    *)
(* and their results arrive.                                               *)
THEOREM SharesStayEven == Spec => []EvenShareWhileStable
<1>1. Init => RotationInv
  BY DEF Init, RotationInv
<1>2. RotationInv => EvenShareWhileStable
  BY DEF RotationInv, EvenShareWhileStable
<1>. QED
  BY <1>1, <1>2, TypeCorrect, NextRotationInv, PTL DEF Spec
=============================================================================
