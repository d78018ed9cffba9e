------------------------------- MODULE Dispatch -------------------------------
(***************************************************************************)
(* The slot walk of internal/proxy: Dispatch tries the slots of a model in *)
(* declared order, attemptSlot retries within a slot, and each visit       *)
(* reserves quota once and has to give it back unless the call succeeds.   *)
(* Concurrent requests for the model share its failure count and its       *)
(* cooldown in internal/router.                                            *)
(*                                                                         *)
(* What a slot's breaker and credentials answer (ProviderGroup), what the  *)
(* limiter answers (RateLimit) and what the provider answers are free      *)
(* choices here.                                                           *)
(***************************************************************************)
EXTENDS Integers

CONSTANTS
  Requests,       \* the requests for one model
  NumSlots,       \* the slots that serve it, after the media and context gates
  MaxTries,       \* slot -> tries in one visit: retries + 1
  Budget,         \* the attempt budget; 0 is unbounded
  CooldownWindow  \* the model cooldown, in ticks

Slots == 1 .. NumSlots

ASSUME SlotAssumption ==
  /\ NumSlots \in Nat \ {0}
  /\ MaxTries \in [Slots -> Nat \ {0}]
  /\ Budget \in Nat
  /\ CooldownWindow \in Nat \ {0}

VARIABLES
  pc,        \* where each request is
  slot,      \* request -> the slot it visits
  try,       \* request -> tries made in this visit
  attempts,  \* request -> upstream attempts of the whole walk
  res,       \* request -> whether attemptSlot holds a reservation
  owed,      \* request -> slot -> reservations charged, less those given
             \* back or settled
  stream,    \* request -> whether its copy goroutine is running
  failures,  \* losses of the model in a row, up to two
  coolFor    \* ticks left of the model cooldown; -1 when there is no entry

shared == << failures, coolFor >>
ledger == << res, owed >>
vars == << pc, slot, try, attempts, ledger, stream, shared >>

PC == { "idle", "walk", "try", "reserve", "call", "upstream", "credit",
        "backoff", "unwind", "lost", "returned" }

Init ==
  /\ pc = [r \in Requests |-> "idle"]
  /\ slot = [r \in Requests |-> 1]
  /\ try = [r \in Requests |-> 0]
  /\ attempts = [r \in Requests |-> 0]
  /\ res = [r \in Requests |-> FALSE]
  /\ owed = [r \in Requests |-> [s \in Slots |-> 0]]
  /\ stream = [r \in Requests |-> FALSE]
  /\ failures = 0
  /\ coolFor = -1

Goto(r, label) == pc' = [pc EXCEPT ![r] = label]

BudgetSpent(r) == Budget > 0 /\ attempts[r] >= Budget

(* A reservation of the visited slot is given back, or settled.            *)
Resolved(r) == owed' = [owed EXCEPT ![r][slot[r]] = @ - 1]

(* A fault to be caught: the walk goes one slot too far.                   *)
FaultPastTheLast(r, end) ==
  /\ res' = [res EXCEPT ![r] = FALSE]
  /\ IF slot[r] > NumSlots
     THEN Goto(r, end) /\ UNCHANGED slot
     ELSE Goto(r, "walk") /\ slot' = [slot EXCEPT ![r] = @ + 1]

(* A fault to be caught: the walk visits the same slot again.              *)
FaultSameSlot(r, end) ==
  /\ res' = [res EXCEPT ![r] = FALSE]
  /\ Goto(r, IF slot[r] = NumSlots THEN end ELSE "walk")
  /\ UNCHANGED slot

(* The walk leaves the slot: the reservation variable of the visit goes    *)
(* out of scope, whatever it holds.  After the last slot the walk goes to  *)
(* `end`.                                                                  *)
LeaveSlot(r, end) ==
  /\ res' = [res EXCEPT ![r] = FALSE]
  /\ IF slot[r] = NumSlots
     THEN Goto(r, end) /\ UNCHANGED slot
     ELSE Goto(r, "walk") /\ slot' = [slot EXCEPT ![r] = @ + 1]

-----------------------------------------------------------------------------
(* Dispatch.                                                               *)

Start(r) ==
  /\ pc[r] = "idle"
  /\ Goto(r, "walk")
  /\ UNCHANGED << slot, try, attempts, ledger, stream, shared >>

Visit(r) ==
  /\ pc[r] = "walk"
  /\ Goto(r, IF BudgetSpent(r) THEN "returned" ELSE "try")
  /\ try' = [try EXCEPT ![r] = 0]
  /\ UNCHANGED << slot, attempts, ledger, stream, shared >>

(* A fault to be caught: a single loss starts the cooldown.                *)
FaultFirstLoss(r) ==
  /\ pc[r] = "lost"
  /\ failures' = IF failures < 2 THEN failures + 1 ELSE failures
  /\ coolFor' = CooldownWindow
  /\ Goto(r, "returned")
  /\ UNCHANGED << slot, try, attempts, ledger, stream >>

(* The last slot has failed: the model has lost once more.                 *)
RecordModelFailure(r) ==
  /\ pc[r] = "lost"
  /\ failures' = IF failures < 2 THEN failures + 1 ELSE failures
  /\ coolFor' = IF failures >= 1 THEN CooldownWindow ELSE coolFor
  /\ Goto(r, "returned")
  /\ UNCHANGED << slot, try, attempts, ledger, stream >>

(* The caller has its answer and the stream has drained; it may come back. *)
Again(r) ==
  /\ pc[r] = "returned" /\ ~ stream[r]
  /\ Goto(r, "idle")
  /\ slot' = [slot EXCEPT ![r] = 1]
  /\ try' = [try EXCEPT ![r] = 0]
  /\ attempts' = [attempts EXCEPT ![r] = 0]
  /\ owed' = [owed EXCEPT ![r] = [s \in Slots |-> 0]]
  /\ UNCHANGED << res, stream, shared >>

-----------------------------------------------------------------------------
(* attemptSlot: the head of the loop.                                      *)

OutOfTries(r) ==
  /\ pc[r] = "try"
  /\ BudgetSpent(r) \/ try[r] >= MaxTries[slot[r]]
  /\ Goto(r, "unwind")
  /\ UNCHANGED << slot, try, attempts, ledger, stream, shared >>

MayTry(r) == pc[r] = "try" /\ ~ BudgetSpent(r) /\ try[r] < MaxTries[slot[r]]

(* A fault to be caught: an elapsed cooldown is never cleared.             *)
FaultKeepEntry == UNCHANGED << coolFor, failures >>

(* isCoolingDown clears an entry whose time is up.                         *)
ClearIfElapsed ==
  /\ coolFor' = IF coolFor = 0 THEN -1 ELSE coolFor
  /\ failures' = IF coolFor = 0 THEN 0 ELSE failures

(* ResolveSlot fails: the model is in cooldown, the breaker is open, or no *)
(* credential is ready.  attemptSlot returns a quota error at once.        *)
ResolveFails(r) ==
  /\ MayTry(r)
  /\ ClearIfElapsed
  /\ LeaveSlot(r, "returned")
  /\ UNCHANGED << try, attempts, owed, stream >>

(* A fault to be caught: every try reserves.                               *)
FaultReserveAgain(r) ==
  /\ MayTry(r)
  /\ coolFor <= 0
  /\ ClearIfElapsed
  /\ Goto(r, "reserve")
  /\ UNCHANGED << slot, try, attempts, ledger, stream >>

Resolves(r) ==
  /\ MayTry(r)
  /\ coolFor <= 0
  /\ ClearIfElapsed
  /\ Goto(r, IF res[r] THEN "call" ELSE "reserve")
  /\ UNCHANGED << slot, try, attempts, ledger, stream >>

(* The limiter admits the request, or refuses it.                          *)
Reserve(r) ==
  /\ pc[r] = "reserve"
  /\ res' = [res EXCEPT ![r] = TRUE]
  /\ owed' = [owed EXCEPT ![r][slot[r]] = @ + 1]
  /\ Goto(r, "call")
  /\ UNCHANGED << slot, try, attempts, stream, shared >>

ReserveFails(r) ==
  /\ pc[r] = "reserve"
  /\ LeaveSlot(r, "returned")
  /\ UNCHANGED << try, attempts, owed, stream, shared >>

Call(r) ==
  /\ pc[r] = "call"
  /\ attempts' = [attempts EXCEPT ![r] = @ + 1]
  /\ Goto(r, "upstream")
  /\ UNCHANGED << slot, try, ledger, stream, shared >>

-----------------------------------------------------------------------------
(* attemptSlot: what comes of the call.                                    *)

(* A buffered answer is settled inline.                                    *)
Answered(r) ==
  /\ pc[r] = "upstream"
  /\ Resolved(r)
  /\ Goto(r, "credit")
  /\ UNCHANGED << slot, try, attempts, res, stream, shared >>

(* A stream is settled, or refunded, when its copy goroutine ends.         *)
Streams(r) ==
  /\ pc[r] = "upstream"
  /\ stream' = [stream EXCEPT ![r] = TRUE]
  /\ Goto(r, "credit")
  /\ UNCHANGED << slot, try, attempts, ledger, shared >>

StreamEnds(r) ==
  /\ stream[r]
  /\ stream' = [stream EXCEPT ![r] = FALSE]
  /\ Resolved(r)
  /\ UNCHANGED << pc, slot, try, attempts, res, shared >>

(* RecordSuccess clears the model's losses and its cooldown.               *)
RecordSuccess(r) ==
  /\ pc[r] = "credit"
  /\ failures' = 0
  /\ coolFor' = -1
  /\ res' = [res EXCEPT ![r] = FALSE]
  /\ Goto(r, "returned")
  /\ UNCHANGED << slot, try, attempts, owed, stream >>

(* A fault to be caught: a terminal error keeps the reservation.           *)
FaultNoRefund(r) ==
  /\ pc[r] = "upstream"
  /\ res' = [res EXCEPT ![r] = FALSE]
  /\ Goto(r, "returned")
  /\ UNCHANGED << slot, try, attempts, owed, stream, shared >>

(* A 4xx other than 429 ends the walk.                                     *)
Terminal(r) ==
  /\ pc[r] = "upstream"
  /\ Resolved(r)
  /\ res' = [res EXCEPT ![r] = FALSE]
  /\ Goto(r, "returned")
  /\ UNCHANGED << slot, try, attempts, stream, shared >>

(* A 429, a 5xx or no answer at all: back off before the next try.         *)
Fails(r) ==
  /\ pc[r] = "upstream"
  /\ try' = [try EXCEPT ![r] = @ + 1]
  /\ Goto(r, IF try[r] < MaxTries[slot[r]] - 1 THEN "backoff" ELSE "try")
  /\ UNCHANGED << slot, attempts, ledger, stream, shared >>

(* The sleep ends, or the caller gives up first and the loop breaks.       *)
Backoff(r) ==
  /\ pc[r] = "backoff"
  /\ \/ Goto(r, "try")
     \/ Goto(r, "unwind")
  /\ UNCHANGED << slot, try, attempts, ledger, stream, shared >>

(* Every try failed: the reservation is released and the walk goes on.     *)
Unwind(r) ==
  /\ pc[r] = "unwind"
  /\ IF res[r] THEN Resolved(r) ELSE UNCHANGED owed
  /\ LeaveSlot(r, "lost")
  /\ UNCHANGED << try, attempts, stream, shared >>

-----------------------------------------------------------------------------

Tick ==
  /\ coolFor > 0
  /\ coolFor' = coolFor - 1
  /\ UNCHANGED << pc, slot, try, attempts, ledger, stream, failures >>

Walk(r) ==
  \/ Start(r) \/ Visit(r) \/ RecordModelFailure(r) \/ Again(r)
  \/ OutOfTries(r) \/ ResolveFails(r) \/ Resolves(r)
  \/ Reserve(r) \/ ReserveFails(r) \/ Call(r)
  \/ Answered(r) \/ Streams(r) \/ RecordSuccess(r)
  \/ Terminal(r) \/ Fails(r) \/ Backoff(r) \/ Unwind(r)

Next == Tick \/ \E r \in Requests : Walk(r) \/ StreamEnds(r)

Spec == Init /\ [][Next]_vars

(* Every request's goroutine makes progress, upstream calls and streams    *)
(* end, callers keep coming, and time passes.                              *)
Fairness ==
  /\ WF_vars(Tick)
  /\ \A r \in Requests : WF_vars(Walk(r)) /\ WF_vars(StreamEnds(r))

FairSpec == Spec /\ Fairness

-----------------------------------------------------------------------------
(* The types of the variables.                                             *)
TypeOK ==
  /\ pc \in [Requests -> PC]
  /\ slot \in [Requests -> Slots]
  /\ try \in [Requests -> Nat]
  /\ attempts \in [Requests -> Nat]
  /\ res \in [Requests -> BOOLEAN]
  /\ owed \in [Requests -> [Slots -> Int]]
  /\ stream \in [Requests -> BOOLEAN]
  /\ failures \in 0 .. 2
  /\ coolFor \in -1 .. CooldownWindow

(* The retry loop never reserves twice in one visit, nothing is given back *)
(* or settled twice, whichever of the walk and the copy goroutine comes    *)
(* first, and no attempt goes upstream, or streams, without a reservation  *)
(* (proxy.go:460-462, 521-529, 815-819).                                   *)
LedgerConsistent ==
  \A r \in Requests :
    /\ \A s \in Slots : owed[r][s] \in 0 .. 1
    /\ pc[r] \in { "call", "upstream", "backoff" } \/ stream[r] =>
         owed[r][slot[r]] = 1

(* A model is in cooldown only while two losses since its last success are *)
(* on record, however the walks that share the two maps of the router      *)
(* interleave (router.go:505-535).                                         *)
CooldownHasLosses == coolFor >= 0 => failures = 2

(* When a request has its answer and no stream of it is running, every     *)
(* reservation in a slot with a single try was settled or given back,      *)
(* whatever happened in the slots before and after it (proxy.go:483-580).  *)
SingleTrySettles ==
  \A r \in Requests, s \in Slots :
    pc[r] = "returned" /\ ~ stream[r] /\ MaxTries[s] = 1 => owed[r][s] = 0

(* Refutable claim, from the package comment of the limiter                *)
(* (ratelimit.go:5-6) and the end of attemptSlot (proxy.go:571-572): the   *)
(* same of every slot, retries or not.                                     *)
ReservationsResolved ==
  \A r \in Requests :
    pc[r] = "returned" /\ ~ stream[r] => \A s \in Slots : owed[r][s] = 0

(* A model cooldown is lifted as long as callers keep coming: the losses   *)
(* of walks that were under way when it began cannot prolong it for ever   *)
(* (router.go:505-535).                                                    *)
CoolingEnds == (coolFor >= 0) ~> (coolFor = -1)

(* Every walk ends, whatever the providers, the breakers and the limiter   *)
(* answer (proxy.go:241-271, 496-570).                                     *)
AlwaysReturns ==
  \A r \in Requests : (pc[r] = "walk") ~> (pc[r] = "returned")
=============================================================================
