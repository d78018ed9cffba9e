------------------------------ MODULE RateLimit ------------------------------
(***************************************************************************)
(* The in-memory rate limiter of internal/ratelimit, for one limit cell    *)
(* group: the counters that share a key hash, a model, a slot and a level. *)
(* Two groups never touch each other's counters (the map key holds all     *)
(* four), so one group stands for all of them.                             *)
(*                                                                         *)
(* Each call is a loop over the windows that takes the shard lock anew for *)
(* every window, so a call is a sequence of steps, one per window, and the *)
(* calls of different requests interleave between the locks.  Every loop   *)
(* reads the clock once, before its first lock, and the clock may move on  *)
(* while the loop is under way: that time is what the loop's later steps   *)
(* still work with.                                                        *)
(***************************************************************************)
EXTENDS Integers, FiniteSets, Functions

CONSTANTS
  Requests,       \* the requests, each of which reserves once
  Limit,          \* the limit set: window -> ceiling, or Unlimited
  Unlimited,      \* a nil ceiling
  CostSet,        \* the estimates a request may carry
  ActualSet,      \* the usage a provider may report
  MinutesPerDay,  \* minute buckets in a day bucket
  MaxClock        \* bound: the last minute of the model

(* ratelimit.go:30, in check order; the last two kinds share the audio     *)
(* estimate.                                                               *)
CheckOrder == << "rpm", "tpm", "rpd", "tpd", "cpm", "cpd", "asec", "amin" >>

Window == { "rpm", "tpm", "rpd", "tpd", "cpm", "cpd", "asec", "amin" }

MinuteWindows == { "rpm", "tpm", "cpm" }

TokenWindows == { "tpm", "tpd" }

Cost == [tokens : Nat, chars : Nat, audioSec : Nat]

ASSUME RequestAssumption == IsFiniteSet(Requests)
ASSUME LimitAssumption ==
  /\ Unlimited \notin Nat
  /\ Limit \in [Window -> Nat \cup {Unlimited}]
ASSUME CostAssumption == CostSet \subseteq Cost /\ ActualSet \subseteq Nat
ASSUME ClockAssumption == MinutesPerDay \in Nat \ {0} /\ MaxClock \in Nat

VARIABLES
  clock,    \* the wall clock, in minutes
  cell,     \* window -> its counter; start = -1 when the map has no entry
  pc,       \* where each request is in its use of the limiter
  todo,     \* request -> the windows its current loop has still to visit
  cost,     \* request -> the estimate it reserves
  actual,   \* request -> the usage it reports to Reconcile
  reservedAt,  \* request -> the time CheckAndReserve read
  finishedAt,  \* request -> the time Refund or Reconcile read
  sweepAt,  \* the time the purge in progress read, -1 when there is none
  surplus,  \* history: tokens Reconcile has added to the present bucket
  skewed    \* history: windows touched across a bucket boundary

vars == << clock, cell, pc, todo, cost, actual, reservedAt, finishedAt,
           sweepAt, surplus, skewed >>

PC == { "idle", "checking", "rollback", "rejected", "reserved", "refunding",
        "refunded", "reconciling", "settled" }

Limited == { w \in Window : Limit[w] # Unlimited }

-----------------------------------------------------------------------------
(* The pure parts: what a request consumes of a window, the bucket a time  *)
(* falls in, and the counter a caller finds.                               *)

AmountOf(w, c) ==
  CASE w \in { "rpm", "rpd" }  -> 1
    [] w \in TokenWindows      -> c.tokens
    [] w \in { "cpm", "cpd" }  -> c.chars
    [] w = "asec"              -> c.audioSec
    [] w = "amin"              -> (c.audioSec + 59) \div 60

WindowStart(w, t) == IF w \in MinuteWindows THEN t ELSE t \div MinutesPerDay

NoCounter == [start |-> -1, count |-> 0]

CounterFor(w, t) ==
  IF cell[w].start = WindowStart(w, t)
  THEN cell[w]
  ELSE [start |-> WindowStart(w, t), count |-> 0]

(* A fault to be caught: the credit is not clamped.                        *)
FaultUnclamped(n) == n

AtLeastZero(n) == IF n < 0 THEN 0 ELSE n

(* The next window of a loop that visits S in check order.                 *)
Rank(w) == CHOOSE i \in DOMAIN CheckOrder : CheckOrder[i] = w
IsNext(w, S) == w \in S /\ \A v \in S : Rank(w) <= Rank(v)

(* The step works with a bucket that is not the present one.               *)
Late(w, t) == WindowStart(w, t) # WindowStart(w, clock)

(* The step of r that credits w works in another bucket than r charged.    *)
Straddles(r, w) ==
  WindowStart(w, finishedAt[r]) # WindowStart(w, reservedAt[r])

-----------------------------------------------------------------------------

Init ==
  /\ clock = 0
  /\ cell = [w \in Window |-> NoCounter]
  /\ pc = [r \in Requests |-> "idle"]
  /\ todo = [r \in Requests |-> {}]
  /\ cost = [r \in Requests |-> [tokens |-> 0, chars |-> 0, audioSec |-> 0]]
  /\ actual = [r \in Requests |-> 0]
  /\ reservedAt = [r \in Requests |-> 0]
  /\ finishedAt = [r \in Requests |-> 0]
  /\ sweepAt = -1
  /\ surplus = [w \in Window |-> 0]
  /\ skewed = {}

(* Time passes; it never goes back.                                        *)
Tick ==
  /\ clock < MaxClock
  /\ clock' = clock + 1
  /\ UNCHANGED << cell, pc, todo, cost, actual, reservedAt, finishedAt,
                  sweepAt, surplus, skewed >>

(* CheckAndReserve reads the clock and starts over the limited windows.    *)
CallCheckAndReserve(r, c) ==
  /\ pc[r] = "idle"
  /\ pc' = [pc EXCEPT ![r] = IF Limited = {} THEN "reserved" ELSE "checking"]
  /\ todo' = [todo EXCEPT ![r] = Limited]
  /\ cost' = [cost EXCEPT ![r] = c]
  /\ reservedAt' = [reservedAt EXCEPT ![r] = clock]
  /\ UNCHANGED << clock, cell, actual, finishedAt, sweepAt, surplus, skewed >>

(* A fault to be caught: the test leaves the new amount out.               *)
FaultFits(r, w) == CounterFor(w, reservedAt[r]).count < Limit[w]

(* One window is tested and charged under its lock.                        *)
Fits(r, w) ==
  CounterFor(w, reservedAt[r]).count + AmountOf(w, cost[r]) <= Limit[w]

(* The bucket the loop finds, or starts, replaces the one of another label.*)
Touch(w, t, c) ==
  /\ cell' = [cell EXCEPT ![w] = c]
  /\ skewed' = IF Late(w, t) THEN skewed \cup {w} ELSE skewed

Charge(r, w) ==
  LET c == CounterFor(w, reservedAt[r]) IN
  /\ pc[r] = "checking"
  /\ IsNext(w, todo[r])
  /\ Fits(r, w)
  /\ Touch(w, reservedAt[r], [c EXCEPT !.count = @ + AmountOf(w, cost[r])])
  /\ surplus' = [surplus EXCEPT ![w] = IF c = cell[w] THEN @ ELSE 0]
  /\ todo' = [todo EXCEPT ![r] = @ \ {w}]
  /\ pc' = [pc EXCEPT ![r] = IF todo[r] = {w} THEN "reserved" ELSE @]
  /\ UNCHANGED << clock, cost, actual, reservedAt, finishedAt, sweepAt >>

(* A fault to be caught: the refusal leaves the charges before it in place.*)
FaultReject(r, w) ==
  /\ pc[r] = "checking"
  /\ IsNext(w, todo[r])
  /\ ~ Fits(r, w)
  /\ todo' = [todo EXCEPT ![r] = {}]
  /\ pc' = [pc EXCEPT ![r] = "rejected"]
  /\ UNCHANGED << clock, cell, cost, actual, reservedAt, finishedAt, sweepAt,
                  surplus, skewed >>

(* The window is full: the windows charged before it are to be rolled back.*)
Reject(r, w) ==
  LET c == CounterFor(w, reservedAt[r]) IN
  /\ pc[r] = "checking"
  /\ IsNext(w, todo[r])
  /\ ~ Fits(r, w)
  /\ Touch(w, reservedAt[r], c)
  /\ surplus' = [surplus EXCEPT ![w] = IF c = cell[w] THEN @ ELSE 0]
  /\ todo' = [todo EXCEPT ![r] = Limited \ @]
  /\ pc' = [pc EXCEPT ![r] = IF Limited = todo[r] THEN "rejected"
                                                  ELSE "rollback"]
  /\ UNCHANGED << clock, cost, actual, reservedAt, finishedAt, sweepAt >>

(* What rollback and Refund take off a counter that still has the label.   *)
Credit(r, w, t) ==
  cell' = [cell EXCEPT ![w].count =
             IF cell[w].start = WindowStart(w, t)
             THEN AtLeastZero(@ - AmountOf(w, cost[r])) ELSE @]

Rollback(r, w) ==
  /\ pc[r] = "rollback"
  /\ IsNext(w, todo[r])
  /\ Credit(r, w, reservedAt[r])
  /\ todo' = [todo EXCEPT ![r] = @ \ {w}]
  /\ pc' = [pc EXCEPT ![r] = IF todo[r] = {w} THEN "rejected" ELSE @]
  /\ UNCHANGED << clock, cost, actual, reservedAt, finishedAt, sweepAt,
                  surplus, skewed >>

(* Refund reads the clock again.                                           *)
CallRefund(r) ==
  /\ pc[r] = "reserved"
  /\ pc' = [pc EXCEPT ![r] = IF Limited = {} THEN "refunded" ELSE "refunding"]
  /\ todo' = [todo EXCEPT ![r] = Limited]
  /\ finishedAt' = [finishedAt EXCEPT ![r] = clock]
  /\ UNCHANGED << clock, cell, cost, actual, reservedAt, sweepAt, surplus,
                  skewed >>

Refund(r, w) ==
  /\ pc[r] = "refunding"
  /\ IsNext(w, todo[r])
  /\ Credit(r, w, finishedAt[r])
  /\ skewed' = IF Straddles(r, w) THEN skewed \cup {w} ELSE skewed
  /\ todo' = [todo EXCEPT ![r] = @ \ {w}]
  /\ pc' = [pc EXCEPT ![r] = IF todo[r] = {w} THEN "refunded" ELSE @]
  /\ UNCHANGED << clock, cost, actual, reservedAt, finishedAt, sweepAt,
                  surplus >>

(* Reconcile returns at once when the estimate was exact, and visits both  *)
(* token windows, limited or not, otherwise.                               *)
CallReconcile(r, a) ==
  /\ pc[r] = "reserved"
  /\ actual' = [actual EXCEPT ![r] = a]
  /\ finishedAt' = [finishedAt EXCEPT ![r] = clock]
  /\ IF a = cost[r].tokens
     THEN /\ pc' = [pc EXCEPT ![r] = "settled"]
          /\ UNCHANGED todo
     ELSE /\ pc' = [pc EXCEPT ![r] = "reconciling"]
          /\ todo' = [todo EXCEPT ![r] = TokenWindows]
  /\ UNCHANGED << clock, cell, cost, reservedAt, sweepAt, surplus, skewed >>

Reconcile(r, w) ==
  LET c == CounterFor(w, finishedAt[r])
      delta == actual[r] - cost[r].tokens
  IN
  /\ pc[r] = "reconciling"
  /\ IsNext(w, todo[r])
  /\ cell' = [cell EXCEPT ![w] =
                [c EXCEPT !.count = AtLeastZero(@ + delta)]]
  /\ surplus' = [surplus EXCEPT ![w] =
                   (IF c = cell[w] THEN @ ELSE 0) + AtLeastZero(delta)]
  /\ skewed' = IF Late(w, finishedAt[r]) \/ Straddles(r, w)
               THEN skewed \cup {w} ELSE skewed
  /\ todo' = [todo EXCEPT ![r] = @ \ {w}]
  /\ pc' = [pc EXCEPT ![r] = IF todo[r] = {w} THEN "settled" ELSE @]
  /\ UNCHANGED << clock, cost, actual, reservedAt, finishedAt, sweepAt >>

(* The purge reads the clock, then visits the shards one at a time; all    *)
(* the windows of a group are in one shard.                                *)
StartPurge ==
  /\ sweepAt = -1
  /\ sweepAt' = clock
  /\ UNCHANGED << clock, cell, pc, todo, cost, actual, reservedAt,
                  finishedAt, surplus, skewed >>

(* A fault to be caught: the purge drops counters that are still live.     *)
FaultStale(w) == cell[w].start # -1

Stale(w) == cell[w].start # -1 /\ cell[w].start # WindowStart(w, sweepAt)

PurgeStale ==
  /\ sweepAt # -1
  /\ cell' = [w \in Window |-> IF Stale(w) THEN NoCounter ELSE cell[w]]
  /\ surplus' = [w \in Window |-> IF Stale(w) THEN 0 ELSE surplus[w]]
  /\ skewed' = skewed \cup { w \in Window : Stale(w) /\ Late(w, sweepAt) }
  /\ sweepAt' = -1
  /\ UNCHANGED << clock, pc, todo, cost, actual, reservedAt, finishedAt >>

Step(r) ==
  \/ \E c \in CostSet : CallCheckAndReserve(r, c)
  \/ CallRefund(r)
  \/ \E a \in ActualSet : CallReconcile(r, a)
  \/ \E w \in Window :
       \/ Charge(r, w)
       \/ Reject(r, w)
       \/ Rollback(r, w)
       \/ Refund(r, w)
       \/ Reconcile(r, w)

Next ==
  \/ Tick
  \/ StartPurge
  \/ PurgeStale
  \/ \E r \in Requests : Step(r)

Spec == Init /\ [][Next]_vars

-----------------------------------------------------------------------------
(* The ledger: what each request has in the counters at this moment.       *)

Charged(r) ==
  CASE pc[r] = "checking"                               -> Limited \ todo[r]
    [] pc[r] \in { "rollback", "refunding" }            -> todo[r]
    [] pc[r] \in { "reserved", "reconciling", "settled" } -> Limited
    [] OTHER                                            -> {}

Adjusted(r) ==
  CASE pc[r] = "reconciling" -> TokenWindows \ todo[r]
    [] pc[r] = "settled"     -> TokenWindows
    [] OTHER                 -> {}

Holds(r, w) ==
  IF w \notin Charged(r) THEN 0
  ELSE IF w \in Adjusted(r) THEN actual[r] ELSE AmountOf(w, cost[r])

ReservedIn(w, b) == { r \in Requests : WindowStart(w, reservedAt[r]) = b }

HeldIn(w, b) == SumFunction([r \in ReservedIn(w, b) |-> Holds(r, w)])

(* Admitted and not refunded.                                              *)
Admitted(r) == pc[r] \in { "reserved", "reconciling", "settled" }

-----------------------------------------------------------------------------
(* The types of the variables; a counter never goes below zero, and the    *)
(* loops of CheckAndReserve, its rollback and Refund visit limited windows.*)
TypeOK ==
  /\ clock \in Nat
  /\ cell \in [Window -> [start : Int, count : Nat]]
  /\ pc \in [Requests -> PC]
  /\ todo \in [Requests -> SUBSET Window]
  /\ \A r \in Requests :
       pc[r] \in { "checking", "rollback", "refunding" } =>
         todo[r] \subseteq Limited
  /\ cost \in [Requests -> Cost]
  /\ actual \in [Requests -> Nat]
  /\ reservedAt \in [Requests -> Nat]
  /\ finishedAt \in [Requests -> Nat]
  /\ sweepAt \in Int
  /\ surplus \in [Window -> Nat]
  /\ skewed \subseteq Window

(* The counter of a limited window passes its ceiling only by tokens that  *)
(* Reconcile added after the fact: however the calls of concurrent         *)
(* requests interleave between the locks, no reservation is committed      *)
(* beyond the ceiling (CheckAndReserve, ratelimit.go:265-279).             *)
NeverOverLimit ==
  \A w \in Limited : cell[w].count <= Limit[w] + surplus[w]

(* As long as no call has worked across a bucket boundary, a counter is    *)
(* exactly the sum of what the requests hold of its bucket: partial        *)
(* reservations under way, rollbacks, refunds and reconciliations in       *)
(* flight neither lose nor invent a unit, and the clamp at zero never      *)
(* bites (ratelimit.go:268-330).                                           *)
ChargesConserved ==
  \A w \in Limited \ skewed : cell[w].count = HeldIn(w, cell[w].start)

(* What the limiter promises: see Quota.  A request counts for a window    *)
(* while the bucket it reserved in is the present one.  Until a call works *)
(* across a bucket boundary, every step of the window-by-window loops is a *)
(* step of the atomic quota or changes nothing of it.                      *)
Counts(r, w) == Admitted(r) /\ w \in Limited /\ ~ Late(w, reservedAt[r])

Reservation ==
  [r \in Requests |-> [w \in Window |->
     IF Counts(r, w) THEN AmountOf(w, cost[r]) ELSE 0]]

Usage ==
  [r \in Requests |-> [w \in Window |->
     IF Counts(r, w) THEN Holds(r, w) ELSE 0]]

Promise == INSTANCE Quota WITH
  reserve <- Reservation,
  use <- Usage,
  admitted <- { r \in Requests : Admitted(r) },
  broken <- skewed # {}

(* The limiter implements the atomic quota.                                *)
ImplementsQuota == Promise!Spec
=============================================================================
