---------------------------- MODULE DispatchProofs ----------------------------
(***************************************************************************)
(* What is proved of Dispatch for any number of requests and slots, any    *)
(* retries and any budget: its types, that the ledger of a walk stays      *)
(* consistent, that a cooldown has two losses behind it, that without      *)
(* retries no reservation outlives its walk, and that every step of a walk *)
(* takes it closer to its end, within its budget.                          *)
(***************************************************************************)
EXTENDS Dispatch, TLAPS

ShapeOK ==
  /\ pc \in [Requests -> PC]
  /\ slot \in [Requests -> Slots]
  /\ try \in [Requests -> Nat]
  /\ attempts \in [Requests -> Nat]
  /\ res \in [Requests -> BOOLEAN]
  /\ owed \in [Requests -> [Slots -> Int]]
  /\ stream \in [Requests -> BOOLEAN]

(* Leaving a slot never goes past the last one.                            *)
LEMMA LeaveShape ==
  ASSUME ShapeOK, NEW r \in Requests, NEW end \in PC, LeaveSlot(r, end)
  PROVE  /\ res' \in [Requests -> BOOLEAN]
         /\ slot' \in [Requests -> Slots]
         /\ pc' \in [Requests -> PC]
<1>1. res' \in [Requests -> BOOLEAN]
  BY DEF ShapeOK, LeaveSlot
<1>2. CASE slot[r] = NumSlots
  BY <1>1, <1>2 DEF ShapeOK, PC, Goto, LeaveSlot
<1>3. CASE slot[r] # NumSlots
  <2>1. slot[r] + 1 \in Slots
    BY <1>3, SlotAssumption DEF ShapeOK, Slots
  <2>2. /\ slot' = [slot EXCEPT ![r] = slot[r] + 1]
        /\ pc' = [pc EXCEPT ![r] = "walk"]
    BY <1>3 DEF LeaveSlot, Goto
  <2> QED
    BY <1>1, <2>1, <2>2 DEF ShapeOK, PC
<1> QED
  BY <1>2, <1>3

LEMMA ShapeStep == ShapeOK /\ [Next]_vars => ShapeOK'
<1> SUFFICES ASSUME ShapeOK, [Next]_vars PROVE ShapeOK'
    OBVIOUS
<1> USE DEF ShapeOK, PC, Goto, ledger, shared
<1>1. CASE Tick \/ UNCHANGED vars
  BY <1>1 DEF Tick, vars
<1>2. ASSUME NEW r \in Requests, Walk(r)
      PROVE  ShapeOK'
  <2>1. CASE Start(r)
    BY <2>1 DEF Start
  <2>2. CASE Visit(r)
    BY <2>2 DEF Visit
  <2>3. CASE RecordModelFailure(r)
    BY <2>3 DEF RecordModelFailure
  <2>4. CASE Again(r)
    BY <2>4, SlotAssumption DEF Again, Slots
  <2>5. CASE OutOfTries(r) \/ Resolves(r)
    BY <2>5 DEF OutOfTries, Resolves
  <2>6. CASE ResolveFails(r) \/ ReserveFails(r)
    BY <2>6, LeaveShape DEF ResolveFails, ReserveFails
  <2>7. CASE Reserve(r)
    BY <2>7 DEF Reserve
  <2>8. CASE Call(r)
    BY <2>8 DEF Call
  <2>9. CASE Answered(r)
    BY <2>9 DEF Answered, Resolved
  <2>10. CASE Streams(r) \/ RecordSuccess(r)
    BY <2>10 DEF Streams, RecordSuccess
  <2>11. CASE Terminal(r)
    BY <2>11 DEF Terminal, Resolved
  <2>12. CASE Fails(r)
    BY <2>12 DEF Fails
  <2>13. CASE Backoff(r)
    BY <2>13 DEF Backoff
  <2>14. CASE Unwind(r)
    <3>1. owed' \in [Requests -> [Slots -> Int]]
      BY <2>14 DEF Unwind, Resolved
    <3> QED
      BY <2>14, <3>1, LeaveShape DEF Unwind
  <2> QED
    BY <1>2, <2>1, <2>2, <2>3, <2>4, <2>5, <2>6, <2>7, <2>8, <2>9, <2>10,
       <2>11, <2>12, <2>13, <2>14 DEF Walk
<1>3. ASSUME NEW r \in Requests, StreamEnds(r)
      PROVE  ShapeOK'
  BY <1>3 DEF StreamEnds, Resolved
<1> QED
  BY <1>1, <1>2, <1>3 DEF Next

-----------------------------------------------------------------------------
(* The cooldown and the losses, as an inductive pair.                      *)

SharedOK ==
  /\ failures \in 0 .. 2
  /\ coolFor \in -1 .. CooldownWindow
  /\ CooldownHasLosses

LEMMA SharedStep == SharedOK /\ [Next]_vars => SharedOK'
<1> SUFFICES ASSUME SharedOK, [Next]_vars PROVE SharedOK'
    OBVIOUS
<1> USE SlotAssumption DEF SharedOK, CooldownHasLosses
<1>1. CASE Tick
  BY <1>1 DEF Tick
<1>2. ASSUME NEW r \in Requests, RecordModelFailure(r)
      PROVE  SharedOK'
  BY <1>2 DEF RecordModelFailure
<1>3. ASSUME NEW r \in Requests, ResolveFails(r) \/ Resolves(r)
      PROVE  SharedOK'
  BY <1>3 DEF ResolveFails, Resolves, ClearIfElapsed
<1>4. ASSUME NEW r \in Requests, RecordSuccess(r)
      PROVE  SharedOK'
  BY <1>4 DEF RecordSuccess
<1>5. CASE UNCHANGED shared
  BY <1>5 DEF shared
<1> QED
  BY <1>1, <1>2, <1>3, <1>4, <1>5
  DEF Next, Walk, vars, Start, Visit, Again, OutOfTries, Reserve,
      ReserveFails, Call, Answered, Streams, Terminal, Fails, Backoff,
      Unwind, StreamEnds

(* Type correctness: no walk goes past the last slot, and the model's loss *)
(* count and its cooldown stay in range (proxy.go:241-271,                 *)
(* router.go:505-535).                                                     *)
THEOREM TypeCorrect == Spec => []TypeOK
<1>1. Init => ShapeOK /\ SharedOK
  BY SlotAssumption DEF Init, ShapeOK, SharedOK, CooldownHasLosses, PC, Slots
<1>2. ShapeOK /\ SharedOK => TypeOK
  BY DEF ShapeOK, SharedOK, TypeOK
<1> QED
  BY <1>1, <1>2, ShapeStep, SharedStep, PTL DEF Spec

(* A model is in cooldown only while two losses since its last success are *)
(* on record (router.go:505-535).                                          *)
THEOREM CooldownIsEarned == Spec => []CooldownHasLosses
<1>1. Init => SharedOK
  BY SlotAssumption DEF Init, SharedOK, CooldownHasLosses
<1>2. SharedOK => CooldownHasLosses
  BY DEF SharedOK
<1> QED
  BY <1>1, <1>2, SharedStep, PTL DEF Spec

-----------------------------------------------------------------------------
(* The ledger.  A visit that holds a reservation owes it until the call    *)
(* answers; one that holds none owes nothing for its slot; the slots still *)
(* to come owe nothing; and a running stream owes its own.                 *)

Holding(r) == res[r] /\ pc[r] \notin { "credit", "returned" }

LedgerOf(r) ==
  /\ \A s \in Slots : owed[r][s] \in 0 .. 1
  /\ \A s \in Slots : s > slot[r] => owed[r][s] = 0
  /\ pc[r] \in { "call", "upstream", "backoff" } => res[r]
  /\ pc[r] \in { "idle", "walk", "reserve", "lost", "returned" } => ~ res[r]
  /\ Holding(r) \/ stream[r] => owed[r][slot[r]] = 1
  /\ pc[r] \in { "idle", "walk", "try", "reserve" } /\ ~ res[r] =>
       owed[r][slot[r]] = 0
  /\ stream[r] => pc[r] \in { "credit", "returned" }

LedgerInv == \A r \in Requests : LedgerOf(r)

(* A step of one request leaves the ledgers of the others alone.           *)
Untouched(q) ==
  /\ pc'[q] = pc[q] /\ slot'[q] = slot[q] /\ res'[q] = res[q]
  /\ owed'[q] = owed[q] /\ stream'[q] = stream[q]

LEMMA UntouchedKeeps ==
  ASSUME NEW q \in Requests, LedgerOf(q), Untouched(q)
  PROVE  LedgerOf(q)'
BY DEF LedgerOf, Holding, Untouched

LEMMA OthersUntouched ==
  ASSUME ShapeOK, NEW r \in Requests, Walk(r) \/ StreamEnds(r),
         NEW q \in Requests, q # r
  PROVE  Untouched(q)
<1> USE DEF ShapeOK, Untouched, Goto, ledger
<1>1. CASE Start(r) \/ Visit(r) \/ RecordModelFailure(r) \/ Again(r)
  BY <1>1 DEF Start, Visit, RecordModelFailure, Again
<1>2. CASE OutOfTries(r) \/ ResolveFails(r) \/ Resolves(r) \/ Reserve(r)
  BY <1>2 DEF OutOfTries, ResolveFails, Resolves, Reserve, LeaveSlot
<1>3. CASE ReserveFails(r) \/ Call(r) \/ Answered(r) \/ Streams(r)
  BY <1>3 DEF ReserveFails, Call, Answered, Streams, LeaveSlot, Resolved
<1>4. CASE RecordSuccess(r) \/ Terminal(r) \/ Fails(r) \/ Backoff(r)
  BY <1>4 DEF RecordSuccess, Terminal, Fails, Backoff, Resolved
<1>5. CASE Unwind(r) \/ StreamEnds(r)
  BY <1>5 DEF Unwind, StreamEnds, Resolved, LeaveSlot
<1> QED
  BY <1>1, <1>2, <1>3, <1>4, <1>5 DEF Walk

(* What leaving a slot does to the request itself.                         *)
LEMMA LeaveOwn ==
  ASSUME ShapeOK, NEW r \in Requests, NEW end, LeaveSlot(r, end)
  PROVE  /\ res'[r] = FALSE
         /\ \/ slot'[r] = slot[r] /\ pc'[r] = end
            \/ slot'[r] = slot[r] + 1 /\ pc'[r] = "walk"
BY DEF ShapeOK, LeaveSlot, Goto

(* Where a leaf needs to know what the steps do to the own entries.        *)
LEMMA OwnReserve ==
  ASSUME ShapeOK, NEW r \in Requests, Reserve(r)
  PROVE  /\ pc[r] = "reserve" /\ pc'[r] = "call"
         /\ res'[r] = TRUE /\ slot'[r] = slot[r] /\ stream' = stream
         /\ try' = try
         /\ \A s \in Slots : owed'[r][s] =
              IF s = slot[r] THEN owed[r][s] + 1 ELSE owed[r][s]
BY DEF ShapeOK, Reserve, Goto

LEMMA OwnLeave ==
  ASSUME ShapeOK, NEW r \in Requests, ResolveFails(r) \/ ReserveFails(r)
  PROVE  /\ pc[r] \in { "try", "reserve" }
         /\ pc[r] = "try" => MayTry(r)
         /\ owed' = owed /\ stream' = stream
         /\ res'[r] = FALSE
         /\ \/ slot'[r] = slot[r] /\ pc'[r] = "returned"
            \/ slot'[r] = slot[r] + 1 /\ pc'[r] = "walk"
<1>1. /\ LeaveSlot(r, "returned") /\ owed' = owed /\ stream' = stream
      /\ pc[r] \in { "try", "reserve" } /\ (pc[r] = "try" => MayTry(r))
  BY DEF ResolveFails, ReserveFails, MayTry
<1> QED
  BY <1>1, LeaveOwn

LEMMA OwnUnwind ==
  ASSUME ShapeOK, NEW r \in Requests, Unwind(r)
  PROVE  /\ pc[r] = "unwind" /\ stream' = stream
         /\ res'[r] = FALSE
         /\ \/ slot'[r] = slot[r] /\ pc'[r] = "lost"
            \/ slot'[r] = slot[r] + 1 /\ pc'[r] = "walk"
         /\ \A s \in Slots : owed'[r][s] =
              IF s = slot[r] /\ res[r] THEN owed[r][s] - 1 ELSE owed[r][s]
<1>1. LeaveSlot(r, "lost") /\ pc[r] = "unwind" /\ stream' = stream
  BY DEF Unwind
<1>2. \A s \in Slots : owed'[r][s] =
        IF s = slot[r] /\ res[r] THEN owed[r][s] - 1 ELSE owed[r][s]
  BY DEF ShapeOK, Unwind, Resolved
<1> QED
  BY <1>1, <1>2, LeaveOwn

LEMMA OwnStep ==
  ASSUME ShapeOK, ShapeOK', NEW r \in Requests, LedgerOf(r),
         Walk(r) \/ StreamEnds(r)
  PROVE  LedgerOf(r)'
<1>0. /\ slot[r] \in Slots /\ slot'[r] \in Slots
      /\ \A s \in Slots : s \in Int
  BY DEF ShapeOK, Slots
<1>1. CASE Start(r) \/ Visit(r) \/ RecordModelFailure(r)
  BY <1>1 DEF Start, Visit, RecordModelFailure, ShapeOK, LedgerOf, Holding,
              Slots, Goto, ledger
<1>2. CASE Again(r)
  BY <1>2 DEF Again, ShapeOK, LedgerOf, Holding, Slots, Goto, ledger
<1>3. CASE OutOfTries(r) \/ Resolves(r)
  BY <1>3 DEF OutOfTries, Resolves, MayTry, ShapeOK, LedgerOf, Holding,
              Slots, Goto, ledger
<1>4. CASE ResolveFails(r) \/ ReserveFails(r)
  <2>1. /\ pc[r] \in { "try", "reserve" } /\ owed' = owed
        /\ stream' = stream /\ res'[r] = FALSE
        /\ \/ slot'[r] = slot[r] /\ pc'[r] = "returned"
           \/ slot'[r] = slot[r] + 1 /\ pc'[r] = "walk"
    BY <1>4, OwnLeave
  <2>2. ~ stream[r]
    BY <2>1 DEF LedgerOf
  <2>3. \A s \in Slots : s > slot'[r] => owed'[r][s] = 0
    BY <1>0, <2>1 DEF LedgerOf
  <2>4. pc'[r] = "walk" => owed'[r][slot'[r]] = 0
    BY <1>0, <2>1 DEF LedgerOf
  <2> QED
    BY <2>1, <2>2, <2>3, <2>4 DEF LedgerOf, Holding
<1>5. CASE Reserve(r)
  <2>1. /\ pc[r] = "reserve" /\ pc'[r] = "call"
        /\ res'[r] = TRUE /\ slot'[r] = slot[r] /\ stream' = stream
        /\ \A s \in Slots : owed'[r][s] =
             IF s = slot[r] THEN owed[r][s] + 1 ELSE owed[r][s]
    BY <1>5, OwnReserve
  <2>2. owed[r][slot[r]] = 0 /\ ~ res[r] /\ ~ stream[r]
    BY <2>1 DEF LedgerOf
  <2>3. \A s \in Slots : owed'[r][s] \in 0 .. 1
    BY <2>1, <2>2 DEF LedgerOf
  <2>4. \A s \in Slots : s > slot'[r] => owed'[r][s] = 0
    BY <1>0, <2>1, <2>2 DEF LedgerOf
  <2>5. owed'[r][slot'[r]] = 1
    BY <1>0, <2>1, <2>2
  <2> QED
    BY <2>1, <2>2, <2>3, <2>4, <2>5 DEF LedgerOf, Holding
<1>6. CASE Call(r)
  BY <1>6 DEF Call, ShapeOK, LedgerOf, Holding, Slots, Goto, ledger
<1>7. CASE Answered(r) \/ Terminal(r)
  <2>1. pc[r] = "upstream" /\ pc'[r] \in { "credit", "returned" }
    BY <1>7 DEF Answered, Terminal, Goto, ShapeOK
  <2>2. /\ slot' = slot /\ stream' = stream
        /\ res'[r] = IF pc'[r] = "credit" THEN res[r] ELSE FALSE
    BY <1>7 DEF Answered, Terminal, Goto, ShapeOK
  <2>3. \A s \in Slots : owed'[r][s] =
          IF s = slot[r] THEN owed[r][s] - 1 ELSE owed[r][s]
    BY <1>7 DEF Answered, Terminal, Resolved, ShapeOK
  <2>4. res[r] /\ owed[r][slot[r]] = 1 /\ ~ stream[r]
    BY <2>1 DEF LedgerOf, Holding
  <2>5. \A s \in Slots : owed'[r][s] \in 0 .. 1
    BY <2>3, <2>4 DEF LedgerOf
  <2>6. \A s \in Slots : s > slot'[r] => owed'[r][s] = 0
    BY <1>0, <2>2, <2>3 DEF LedgerOf
  <2> QED
    BY <2>1, <2>2, <2>4, <2>5, <2>6 DEF LedgerOf, Holding
<1>8. CASE Streams(r) \/ RecordSuccess(r) \/ Fails(r) \/ Backoff(r)
  BY <1>8 DEF Streams, RecordSuccess, Fails, Backoff, ShapeOK, LedgerOf,
              Holding, Slots, Goto, ledger
<1>9. CASE Unwind(r)
  <2>1. /\ pc[r] = "unwind" /\ stream' = stream /\ res'[r] = FALSE
        /\ \/ slot'[r] = slot[r] /\ pc'[r] = "lost"
           \/ slot'[r] = slot[r] + 1 /\ pc'[r] = "walk"
        /\ \A s \in Slots : owed'[r][s] =
             IF s = slot[r] /\ res[r] THEN owed[r][s] - 1 ELSE owed[r][s]
    BY <1>9, OwnUnwind
  <2>2. ~ stream[r] /\ (res[r] => owed[r][slot[r]] = 1)
    BY <2>1 DEF LedgerOf, Holding
  <2>3. \A s \in Slots : owed'[r][s] \in 0 .. 1
    BY <2>1, <2>2 DEF LedgerOf
  <2>4. \A s \in Slots : s > slot'[r] => owed'[r][s] = 0
    BY <1>0, <2>1 DEF LedgerOf
  <2>5. pc'[r] = "walk" => owed'[r][slot'[r]] = 0
    BY <1>0, <2>1 DEF LedgerOf
  <2> QED
    BY <2>1, <2>2, <2>3, <2>4, <2>5 DEF LedgerOf, Holding
<1>10. CASE StreamEnds(r)
  <2>1. /\ stream[r] /\ stream'[r] = FALSE
        /\ pc' = pc /\ slot' = slot /\ res' = res
        /\ \A s \in Slots : owed'[r][s] =
             IF s = slot[r] THEN owed[r][s] - 1 ELSE owed[r][s]
    BY <1>10 DEF StreamEnds, Resolved, ShapeOK
  <2>2. owed[r][slot[r]] = 1 /\ pc[r] \in { "credit", "returned" }
    BY <2>1 DEF LedgerOf
  <2>3. \A s \in Slots : owed'[r][s] \in 0 .. 1
    BY <2>1, <2>2 DEF LedgerOf
  <2>4. \A s \in Slots : s > slot'[r] => owed'[r][s] = 0
    BY <1>0, <2>1 DEF LedgerOf
  <2> QED
    BY <2>1, <2>2, <2>3, <2>4 DEF LedgerOf, Holding
<1> QED
  BY <1>1, <1>2, <1>3, <1>4, <1>5, <1>6, <1>7, <1>8, <1>9, <1>10 DEF Walk

LEMMA LedgerStep == ShapeOK /\ LedgerInv /\ [Next]_vars => LedgerInv'
<1> SUFFICES ASSUME ShapeOK, LedgerInv, [Next]_vars, NEW q \in Requests
             PROVE  LedgerOf(q)'
    BY DEF LedgerInv
<1>1. LedgerOf(q)
  BY DEF LedgerInv
<1>2. CASE Tick \/ UNCHANGED vars
  BY <1>1, <1>2, UntouchedKeeps DEF Tick, vars, ledger, Untouched
<1>3. ASSUME NEW r \in Requests, Walk(r) \/ StreamEnds(r)
      PROVE  LedgerOf(q)'
  <2>1. CASE q = r
    BY <1>1, <1>3, <2>1, ShapeStep, OwnStep DEF Next
  <2>2. CASE q # r
    BY <1>1, <1>3, <2>2, OthersUntouched, UntouchedKeeps
  <2> QED
    BY <2>1, <2>2
<1> QED
  BY <1>2, <1>3 DEF Next

(* The retry loop never reserves twice, nothing is given back or settled   *)
(* twice, and nothing goes upstream without a reservation                  *)
(* (proxy.go:460-462, 521-529, 815-819).                                   *)
THEOREM LedgerHolds == Spec => []LedgerConsistent
<1>1. Init => ShapeOK /\ LedgerInv
  BY SlotAssumption
  DEF Init, ShapeOK, LedgerInv, LedgerOf, Holding, PC, Slots
<1>2. ShapeOK /\ LedgerInv => LedgerConsistent
  BY DEF ShapeOK, LedgerInv, LedgerOf, Holding, LedgerConsistent
<1> QED
  BY <1>1, <1>2, ShapeStep, LedgerStep, PTL DEF Spec

-----------------------------------------------------------------------------
(* A slot with a single try is never resolved again while a reservation of *)
(* it is held, which is where the ledger of the others leaks.              *)

SingleTry(s) == MaxTries[s] = 1

NoLeakOf(r) ==
  /\ \A s \in Slots : SingleTry(s) /\ s # slot[r] => owed[r][s] = 0
  /\ SingleTry(slot[r]) =>
       /\ pc[r] # "backoff"
       /\ pc[r] = "try" /\ res[r] => try[r] >= 1
       /\ ~ res[r] /\ ~ stream[r] => owed[r][slot[r]] = 0
       /\ pc[r] \in { "credit", "returned" } /\ ~ stream[r] =>
            owed[r][slot[r]] = 0

NoLeak == \A r \in Requests : NoLeakOf(r)

(* A visit that begins owes nothing for its slot.                          *)
LEMMA NextSlotClean ==
  ASSUME ShapeOK, ShapeOK', NEW r \in Requests, LedgerOf(r),
         LeaveSlot(r, "returned") \/ LeaveSlot(r, "lost"),
         stream'[r] = FALSE,
         \A s \in Slots : s # slot[r] => owed'[r][s] = owed[r][s],
         SingleTry(slot[r]) => owed'[r][slot[r]] = 0,
         NoLeakOf(r)
  PROVE  NoLeakOf(r)'
<1>0. slot[r] \in Slots /\ slot'[r] \in Slots /\ \A s \in Slots : s \in Int
  BY DEF ShapeOK, Slots
<1>1. /\ res'[r] = FALSE /\ pc'[r] \in { "walk", "returned", "lost" }
      /\ \/ slot'[r] = slot[r]
         \/ slot'[r] = slot[r] + 1 /\ pc'[r] = "walk"
  BY LeaveOwn
<1>2. slot'[r] = slot[r] + 1 => owed'[r][slot'[r]] = 0
  BY <1>0 DEF LedgerOf
<1>3. \A s \in Slots : SingleTry(s) => owed'[r][s] = 0 \/ s = slot'[r]
  BY <1>0 DEF NoLeakOf
<1>4. SingleTry(slot'[r]) => owed'[r][slot'[r]] = 0
  BY <1>1, <1>2
<1> QED
  BY <1>0, <1>1, <1>3, <1>4 DEF NoLeakOf, SingleTry

LEMMA OwnNoLeak ==
  ASSUME ShapeOK, ShapeOK', NEW r \in Requests, LedgerOf(r), NoLeakOf(r),
         Walk(r) \/ StreamEnds(r)
  PROVE  NoLeakOf(r)'
<1>0. slot[r] \in Slots /\ slot'[r] \in Slots /\ \A s \in Slots : s \in Int
  BY DEF ShapeOK, Slots
<1>1. CASE Start(r) \/ Visit(r) \/ RecordModelFailure(r)
  BY <1>1 DEF Start, Visit, RecordModelFailure, ShapeOK, LedgerOf, NoLeakOf,
              SingleTry, Goto, ledger
<1>2. CASE Again(r)
  BY <1>2 DEF Again, ShapeOK, LedgerOf, NoLeakOf, SingleTry, Goto, ledger
<1>3. CASE OutOfTries(r) \/ Resolves(r)
  BY <1>0, <1>3 DEF OutOfTries, Resolves, MayTry, ShapeOK, LedgerOf,
                    NoLeakOf, SingleTry, Goto, ledger
<1>4. CASE ResolveFails(r) \/ ReserveFails(r)
  <2>1. /\ pc[r] \in { "try", "reserve" } /\ (pc[r] = "try" => MayTry(r))
        /\ owed' = owed /\ stream' = stream
    BY <1>4, OwnLeave
  <2>2. LeaveSlot(r, "returned")
    BY <1>4 DEF ResolveFails, ReserveFails
  <2>3. SingleTry(slot[r]) /\ pc[r] = "try" => try[r] < 1 /\ try[r] \in Nat
    BY <1>0, <2>1 DEF MayTry, ShapeOK, SingleTry
  <2>4. ~ stream[r] /\ (SingleTry(slot[r]) => ~ res[r])
    BY <2>1, <2>3 DEF LedgerOf, NoLeakOf
  <2>5. SingleTry(slot[r]) => owed[r][slot[r]] = 0
    BY <2>4 DEF NoLeakOf
  <2>6. stream'[r] = FALSE
    BY <2>1, <2>4 DEF ShapeOK
  <2> QED
    BY <2>1, <2>2, <2>5, <2>6, NextSlotClean
<1>5. CASE Reserve(r)
  <2>1. /\ pc'[r] = "call" /\ res'[r] = TRUE /\ slot'[r] = slot[r]
        /\ \A s \in Slots : s # slot[r] => owed'[r][s] = owed[r][s]
    BY <1>5, OwnReserve
  <2> QED
    BY <1>0, <2>1 DEF NoLeakOf, SingleTry
<1>6. CASE Call(r)
  BY <1>6 DEF Call, ShapeOK, LedgerOf, NoLeakOf, SingleTry, Goto, ledger
<1>7. CASE Answered(r) \/ Terminal(r)
  <2>1. pc[r] = "upstream" /\ pc'[r] \in { "credit", "returned" }
    BY <1>7 DEF Answered, Terminal, Goto, ShapeOK
  <2>2. slot' = slot
    BY <1>7 DEF Answered, Terminal
  <2>3. \A s \in Slots : owed'[r][s] =
          IF s = slot[r] THEN owed[r][s] - 1 ELSE owed[r][s]
    BY <1>7 DEF Answered, Terminal, Resolved, ShapeOK
  <2>4. owed[r][slot[r]] = 1
    BY <2>1 DEF LedgerOf, Holding
  <2>5. /\ owed'[r][slot'[r]] = 0
        /\ \A s \in Slots : SingleTry(s) /\ s # slot'[r] => owed'[r][s] = 0
    BY <1>0, <2>2, <2>3, <2>4 DEF NoLeakOf
  <2> QED
    BY <2>1, <2>5 DEF NoLeakOf, SingleTry
<1>8. CASE Streams(r) \/ RecordSuccess(r) \/ Fails(r) \/ Backoff(r)
  BY <1>0, <1>8 DEF Streams, RecordSuccess, Fails, Backoff, ShapeOK,
                    LedgerOf, NoLeakOf, SingleTry, Goto, ledger
<1>9. CASE Unwind(r)
  <2>1. /\ pc[r] = "unwind" /\ stream' = stream
        /\ \A s \in Slots : owed'[r][s] =
             IF s = slot[r] /\ res[r] THEN owed[r][s] - 1 ELSE owed[r][s]
    BY <1>9, OwnUnwind
  <2>2. LeaveSlot(r, "lost")
    BY <1>9 DEF Unwind
  <2>3. ~ stream[r] /\ (res[r] => owed[r][slot[r]] = 1)
    BY <2>1 DEF LedgerOf, Holding
  <2>4. SingleTry(slot[r]) => owed'[r][slot[r]] = 0
    BY <1>0, <2>1, <2>3 DEF NoLeakOf
  <2>5. stream'[r] = FALSE
    BY <2>1, <2>3 DEF ShapeOK
  <2>6. \A s \in Slots : s # slot[r] => owed'[r][s] = owed[r][s]
    BY <2>1 DEF ShapeOK
  <2> QED
    BY <2>2, <2>4, <2>5, <2>6, NextSlotClean
<1>10. CASE StreamEnds(r)
  BY <1>0, <1>10 DEF StreamEnds, Resolved, ShapeOK, LedgerOf, NoLeakOf,
                     SingleTry
<1> QED
  BY <1>1, <1>2, <1>3, <1>4, <1>5, <1>6, <1>7, <1>8, <1>9, <1>10 DEF Walk

(* A walk keeps its try count as well while another request moves.         *)
LEMMA OthersTry ==
  ASSUME ShapeOK, NEW r \in Requests, Walk(r) \/ StreamEnds(r),
         NEW q \in Requests, q # r
  PROVE  try'[q] = try[q]
BY DEF ShapeOK, Walk, Start, Visit, RecordModelFailure, Again, OutOfTries,
   ResolveFails, Resolves, Reserve, ReserveFails, Call, Answered, Streams,
   RecordSuccess, Terminal, Fails, Backoff, Unwind, StreamEnds

LEMMA NoLeakStep ==
  ShapeOK /\ LedgerInv /\ NoLeak /\ [Next]_vars => NoLeak'
<1> SUFFICES ASSUME ShapeOK, LedgerInv, NoLeak, [Next]_vars,
                    NEW q \in Requests
             PROVE  NoLeakOf(q)'
    BY DEF NoLeak
<1>1. LedgerOf(q) /\ NoLeakOf(q)
  BY DEF LedgerInv, NoLeak
<1>2. CASE Tick \/ UNCHANGED vars
  BY <1>1, <1>2 DEF Tick, vars, ledger, NoLeakOf, SingleTry
<1>3. ASSUME NEW r \in Requests, Walk(r) \/ StreamEnds(r)
      PROVE  NoLeakOf(q)'
  <2>1. CASE q = r
    BY <1>1, <1>3, <2>1, ShapeStep, OwnNoLeak DEF Next
  <2>2. CASE q # r
    <3>1. Untouched(q) /\ try'[q] = try[q]
      BY <1>3, <2>2, OthersUntouched, OthersTry
    <3> QED
      BY <1>1, <3>1 DEF Untouched, NoLeakOf, SingleTry
  <2> QED
    BY <2>1, <2>2
<1> QED
  BY <1>2, <1>3 DEF Next

(* No reservation in a slot with a single try outlives its walk and its    *)
(* stream, whatever the retries of the other slots and the budget          *)
(* (proxy.go:483-580, 815-819).                                            *)
THEOREM SingleTryNeverLeaks == Spec => []SingleTrySettles
<1>1. Init => ShapeOK /\ LedgerInv /\ NoLeak
  BY SlotAssumption
  DEF Init, ShapeOK, LedgerInv, LedgerOf, NoLeak, NoLeakOf, Holding, PC, Slots
<1>2. ShapeOK /\ LedgerInv /\ NoLeak => SingleTrySettles
  BY DEF NoLeak, NoLeakOf, SingleTry, SingleTrySettles
<1>3. ShapeOK /\ LedgerInv /\ NoLeak /\ [Next]_vars => NoLeak'
  BY NoLeakStep
<1> QED
  BY <1>1, <1>2, <1>3, ShapeStep, LedgerStep, PTL DEF Spec

-----------------------------------------------------------------------------
(* That a walk ends needs fairness.  That no step can keep it from ending  *)
(* does not: every step of a walk takes it to a later slot, to a later try *)
(* of the same slot, or to a later place in the same try, and nobody else  *)
(* moves it.  There are NumSlots slots, MaxTries[s] tries and finitely     *)
(* many places, so a walk that is scheduled comes to its end.              *)

UnderWay(r) == pc[r] \notin { "idle", "returned" }

(* The count of tries starts anew when a slot is entered.                  *)
TriesLeft(r) ==
  IF pc[r] = "walk" THEN MaxTries[slot[r]] ELSE MaxTries[slot[r]] - try[r]

(* The places of a try, in the order in which they are passed.             *)
PlacesLeft(place) ==
  CASE place = "walk" -> 9
    [] place = "backoff" -> 8
    [] place = "try" -> 7
    [] place = "reserve" -> 6
    [] place = "call" -> 5
    [] place = "upstream" -> 4
    [] place = "credit" -> 3
    [] place = "unwind" -> 2
    [] place = "lost" -> 1
    [] OTHER -> 0

Closer(r) ==
  \/ slot'[r] > slot[r]
  \/ slot'[r] = slot[r] /\ TriesLeft(r)' < TriesLeft(r)
  \/ /\ slot'[r] = slot[r] /\ TriesLeft(r)' = TriesLeft(r)
     /\ PlacesLeft(pc'[r]) < PlacesLeft(pc[r])

StaysPut(r) == pc'[r] = pc[r] /\ slot'[r] = slot[r] /\ try'[r] = try[r]

(* A walk under way gets closer to its end with each of its own steps and  *)
(* is not moved by any other (proxy.go:241-271, 496-570).                  *)
WalksComeCloser ==
  \A r \in Requests :
    UnderWay(r) => IF Walk(r) THEN Closer(r) ELSE StaysPut(r)

(* Why a walk makes no more upstream attempts than its budget, and a visit *)
(* no more than its tries: a try begins only while both are left, and      *)
(* nothing between the head of the loop and the call spends either.        *)
TryOf(r) ==
  /\ Budget > 0 => attempts[r] <= Budget
  /\ pc[r] \in { "reserve", "call" } => ~ BudgetSpent(r)
  /\ UnderWay(r) => TriesLeft(r) >= 0
  /\ pc[r] \in { "reserve", "call", "upstream", "backoff" } =>
       try[r] < MaxTries[slot[r]]

TryInv == \A r \in Requests : TryOf(r)

(* The attempts of a walk stay within its budget, the calls of a visit     *)
(* within its tries (proxy.go:496-499, 533-535).                           *)
WithinBudget ==
  \A r \in Requests :
    /\ Budget > 0 => attempts[r] <= Budget
    /\ pc[r] \in { "upstream", "backoff" } => try[r] < MaxTries[slot[r]]

(* What a step of a walk under way does to its place, try and slot.        *)
Moves(r) ==
  \/ pc[r] = "walk" /\ pc'[r] = "returned"
     /\ slot'[r] = slot[r] /\ try'[r] = 0 /\ attempts'[r] = attempts[r]
  \/ pc[r] = "walk" /\ pc'[r] = "try"
     /\ slot'[r] = slot[r] /\ try'[r] = 0 /\ attempts'[r] = attempts[r]
  \/ pc[r] = "try" /\ MayTry(r) /\ pc'[r] \in { "reserve", "call" }
     /\ slot'[r] = slot[r] /\ try'[r] = try[r] /\ attempts'[r] = attempts[r]
  \/ pc[r] = "call" /\ pc'[r] = "upstream"
     /\ slot'[r] = slot[r] /\ try'[r] = try[r]
     /\ attempts'[r] = attempts[r] + 1
  \/ pc[r] = "upstream" /\ slot'[r] = slot[r] /\ try'[r] = try[r] + 1
     /\ pc'[r] = (IF try[r] < MaxTries[slot[r]] - 1 THEN "backoff" ELSE "try")
     /\ attempts'[r] = attempts[r]
  \/ slot'[r] = slot[r] + 1 /\ pc'[r] = "walk" /\ attempts'[r] = attempts[r]
  \/ slot'[r] = slot[r] /\ try'[r] = try[r] /\ attempts'[r] = attempts[r]
     /\ \/ pc[r] \in { "try", "backoff" } /\ pc'[r] = "unwind"
        \/ pc[r] = "reserve" /\ pc'[r] = "call"
        \/ pc[r] = "backoff" /\ pc'[r] = "try"
        \/ pc[r] = "upstream" /\ pc'[r] = "credit"
        \/ pc[r] = "unwind" /\ pc'[r] = "lost"
        \/ pc[r] \in { "try", "reserve", "upstream", "credit", "lost" }
           /\ pc'[r] = "returned"

LEMMA MovesOn ==
  ASSUME ShapeOK, NEW r \in Requests, Walk(r), UnderWay(r)
  PROVE  Moves(r)
<1> USE DEF ShapeOK, Goto, Moves, MayTry
<1>1. CASE Start(r) \/ Again(r)
  BY <1>1 DEF Start, Again, UnderWay
<1>2. CASE Visit(r)
  BY <1>2 DEF Visit
<1>3. CASE RecordModelFailure(r) \/ OutOfTries(r)
  BY <1>3 DEF RecordModelFailure, OutOfTries
<1>4. CASE Resolves(r)
  BY <1>4 DEF Resolves
<1>5. CASE ResolveFails(r) \/ ReserveFails(r)
  <2>1. /\ pc[r] \in { "try", "reserve" }
        /\ \/ slot'[r] = slot[r] /\ pc'[r] = "returned"
           \/ slot'[r] = slot[r] + 1 /\ pc'[r] = "walk"
    BY <1>5, OwnLeave
  <2>2. try' = try /\ attempts' = attempts
    BY <1>5 DEF ResolveFails, ReserveFails
  <2> QED
    BY <2>1, <2>2
<1>6. CASE Reserve(r) \/ Call(r)
  BY <1>6 DEF Reserve, Call
<1>7. CASE Answered(r) \/ Streams(r) \/ RecordSuccess(r) \/ Terminal(r)
  BY <1>7 DEF Answered, Streams, RecordSuccess, Terminal
<1>8. CASE Fails(r)
  BY <1>8 DEF Fails
<1>9. CASE Backoff(r)
  BY <1>9 DEF Backoff
<1>10. CASE Unwind(r)
  <2>1. /\ pc[r] = "unwind"
        /\ \/ slot'[r] = slot[r] /\ pc'[r] = "lost"
           \/ slot'[r] = slot[r] + 1 /\ pc'[r] = "walk"
    BY <1>10, OwnUnwind
  <2>2. try' = try /\ attempts' = attempts
    BY <1>10 DEF Unwind
  <2> QED
    BY <2>1, <2>2
<1> QED
  BY <1>1, <1>2, <1>3, <1>4, <1>5, <1>6, <1>7, <1>8, <1>9, <1>10 DEF Walk

LEMMA MovesCloser ==
  ASSUME ShapeOK, ShapeOK', NEW r \in Requests, TryOf(r), Moves(r)
  PROVE  TryOf(r)' /\ Closer(r)
<1>0. /\ slot[r] \in Int /\ slot'[r] \in Int
      /\ try[r] \in Nat /\ attempts[r] \in Nat /\ Budget \in Nat
      /\ MaxTries[slot[r]] \in Nat \ {0} /\ MaxTries[slot'[r]] \in Nat \ {0}
  BY SlotAssumption DEF ShapeOK, Slots
<1> USE <1>0 DEF TryOf, Closer, UnderWay, TriesLeft, PlacesLeft, BudgetSpent,
                 MayTry
<1>1. CASE slot'[r] = slot[r] + 1 /\ pc'[r] = "walk"
           /\ attempts'[r] = attempts[r]
  BY <1>1
<1>2. CASE pc[r] = "upstream" /\ slot'[r] = slot[r] /\ try'[r] = try[r] + 1
           /\ pc'[r] = (IF try[r] < MaxTries[slot[r]] - 1 THEN "backoff"
                                                          ELSE "try")
           /\ attempts'[r] = attempts[r]
  BY <1>2
<1>3. CASE pc[r] = "walk" /\ pc'[r] \in { "try", "returned" }
           /\ slot'[r] = slot[r] /\ try'[r] = 0
           /\ attempts'[r] = attempts[r]
  BY <1>3
<1>4. CASE pc[r] = "try" /\ MayTry(r) /\ pc'[r] \in { "reserve", "call" }
           /\ slot'[r] = slot[r] /\ try'[r] = try[r]
           /\ attempts'[r] = attempts[r]
  BY <1>4
<1>5. CASE pc[r] = "call" /\ pc'[r] = "upstream"
           /\ slot'[r] = slot[r] /\ try'[r] = try[r]
           /\ attempts'[r] = attempts[r] + 1
  BY <1>5
<1>6. CASE /\ slot'[r] = slot[r] /\ try'[r] = try[r]
           /\ attempts'[r] = attempts[r]
           /\ \/ pc[r] \in { "try", "backoff" } /\ pc'[r] = "unwind"
              \/ pc[r] = "reserve" /\ pc'[r] = "call"
              \/ pc[r] = "backoff" /\ pc'[r] = "try"
  BY <1>6
<1>7. CASE /\ slot'[r] = slot[r] /\ try'[r] = try[r]
           /\ attempts'[r] = attempts[r]
           /\ \/ pc[r] = "upstream" /\ pc'[r] = "credit"
              \/ pc[r] = "unwind" /\ pc'[r] = "lost"
              \/ /\ pc[r] \in { "try", "reserve", "upstream", "credit", "lost" }
                 /\ pc'[r] = "returned"
  BY <1>7
<1> QED
  BY <1>1, <1>2, <1>3, <1>4, <1>5, <1>6, <1>7 DEF Moves

(* The two steps of a walk that is not under way.                          *)
LEMMA StartsWithin ==
  ASSUME ShapeOK, NEW r \in Requests, TryOf(r), Start(r) \/ Again(r)
  PROVE  TryOf(r)'
<1>0. slot[r] \in Slots /\ MaxTries[slot[r]] \in Nat \ {0} /\ Budget \in Nat
  BY SlotAssumption DEF ShapeOK
<1>1. CASE Start(r)
  BY <1>0, <1>1 DEF ShapeOK, Start, Goto, TryOf, UnderWay, TriesLeft,
                    BudgetSpent
<1>2. CASE Again(r)
  BY <1>0, <1>2 DEF ShapeOK, Again, Goto, TryOf, UnderWay, TriesLeft
<1> QED
  BY <1>1, <1>2

(* Whoever else moves, and whatever ends or passes, leaves a walk alone.   *)
LEMMA OnlyItsOwnSteps ==
  ASSUME ShapeOK, NEW q \in Requests, [Next]_vars, ~ Walk(q)
  PROVE  StaysPut(q) /\ attempts'[q] = attempts[q]
<1> USE DEF StaysPut
<1>1. CASE Tick \/ UNCHANGED vars
  BY <1>1 DEF Tick, vars
<1>2. ASSUME NEW r \in Requests, StreamEnds(r)
      PROVE  StaysPut(q) /\ attempts'[q] = attempts[q]
  BY <1>2 DEF StreamEnds
<1>3. ASSUME NEW r \in Requests, Walk(r)
      PROVE  StaysPut(q) /\ attempts'[q] = attempts[q]
  <2>1. r # q
    BY <1>3
  <2>2. Untouched(q) /\ try'[q] = try[q]
    BY <1>3, <2>1, OthersUntouched, OthersTry
  <2>3. attempts'[q] = attempts[q]
    BY <1>3, <2>1
    DEF ShapeOK, Walk, Start, Visit, RecordModelFailure, Again, OutOfTries,
        ResolveFails, Resolves, Reserve, ReserveFails, Call, Answered,
        Streams, RecordSuccess, Terminal, Fails, Backoff, Unwind
  <2> QED
    BY <2>2, <2>3 DEF Untouched
<1> QED
  BY <1>1, <1>2, <1>3 DEF Next

LEMMA TryStep ==
  ShapeOK /\ TryInv /\ [Next]_vars => TryInv' /\ WalksComeCloser
<1> SUFFICES ASSUME ShapeOK, TryInv, [Next]_vars, NEW q \in Requests
             PROVE  /\ TryOf(q)'
                    /\ UnderWay(q) => IF Walk(q) THEN Closer(q)
                                                 ELSE StaysPut(q)
  BY DEF TryInv, WalksComeCloser
<1>1. TryOf(q) /\ ShapeOK'
  BY ShapeStep DEF TryInv
<1>2. CASE ~ Walk(q)
  <2>1. StaysPut(q) /\ attempts'[q] = attempts[q]
    BY <1>2, OnlyItsOwnSteps
  <2>2. TryOf(q)'
    BY <1>1, <2>1 DEF TryOf, StaysPut, BudgetSpent, UnderWay, TriesLeft
  <2> QED
    BY <1>2, <2>1, <2>2
<1>3. CASE Walk(q) /\ UnderWay(q)
  BY <1>1, <1>3, MovesOn, MovesCloser
<1>4. CASE Walk(q) /\ ~ UnderWay(q)
  <2>1. Start(q) \/ Again(q)
    BY <1>4
    DEF UnderWay, Walk, Start, Visit, RecordModelFailure, Again, OutOfTries,
        ResolveFails, Resolves, Reserve, ReserveFails, Call, Answered,
        Streams, RecordSuccess, Terminal, Fails, Backoff, Unwind, MayTry
  <2> QED
    BY <1>1, <1>4, <2>1, StartsWithin
<1> QED
  BY <1>2, <1>3, <1>4

LEMMA TryInit == Init => TryInv
<1> SUFFICES ASSUME Init, NEW r \in Requests
             PROVE  TryOf(r)
  BY DEF TryInv
<1>1. pc[r] = "idle" /\ attempts[r] = 0 /\ Budget \in Nat
  BY SlotAssumption DEF Init
<1> QED
  BY <1>1 DEF TryOf, UnderWay

(* A walk never calls upstream more often than its budget allows, however  *)
(* the tries are spread over the slots, nor a slot more often than its     *)
(* retries allow in one visit (proxy.go:496-499, 533-535).                 *)
THEOREM BudgetIsKept == Spec => []WithinBudget
<1>1. TryInv => WithinBudget
  BY DEF TryInv, TryOf, WithinBudget
<1>2. Init => ShapeOK
  BY SlotAssumption DEF Init, ShapeOK, PC, Slots
<1> QED
  BY <1>1, <1>2, TryInit, TryStep, ShapeStep, PTL DEF Spec

(* Every step of a walk under way takes it closer to its end, and no step  *)
(* of another request, of a stream or of the clock moves it: what fairness *)
(* has to add for AlwaysReturns is only that the walk is scheduled and its *)
(* upstream calls end (proxy.go:241-271, 496-570).                         *)
THEOREM NoWalkGoesBack == Spec => [][WalksComeCloser]_vars
<1>1. Init => ShapeOK
  BY SlotAssumption DEF Init, ShapeOK, PC, Slots
<1> QED
  BY <1>1, TryInit, TryStep, ShapeStep, PTL DEF Spec
=============================================================================
