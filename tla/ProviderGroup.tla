---------------------------- MODULE ProviderGroup ----------------------------
(***************************************************************************)
(* One provider slot of a model, as internal/router keeps it: a circuit    *)
(* breaker, the pool of credentials with their cooldowns, and the requests *)
(* that internal/proxy resolves against it, sends upstream, and reports    *)
(* back.  The breaker, the rotation and each credential have a mutex of    *)
(* their own, so a request is a sequence of steps, one per mutex, and the  *)
(* results of requests arrive in any order.                                *)
(*                                                                         *)
(* Time is counted down: `cooling` is what is left of a cooldown and       *)
(* `openFor` is how long the breaker has been open, both in ticks of ten   *)
(* seconds.  Counts that are only compared with a threshold stop there.    *)
(***************************************************************************)
EXTENDS Integers, Sequences, FiniteSets

CONSTANTS
  Requests,          \* the callers; each sends one request after another
  KeyOrder,          \* the credentials of the slot, in configured order
  NoKey,             \* no credential handed out yet
  FailureThreshold,  \* circuit_breaker_failure_threshold
  RecoveryTimeout,   \* circuit_breaker_recovery_timeout, in ticks
  ShortCooldown,     \* 10 s after a 429, in ticks
  LongCooldown,      \* 30 s once a credential has failed three times
  Forever,           \* 365 days: longer than any behaviour of the model
  Outcomes,          \* how upstream calls may end
  LimiterRefuses     \* whether the limiter may refuse a resolved request

Keys == { KeyOrder[i] : i \in DOMAIN KeyOrder }

Outcome == { "ok", "429", "auth", "5xx", "4xx" }

LongAfter == 3       \* router.go:264

ASSUME KeyAssumption ==
  /\ KeyOrder \in Seq(Keys)
  /\ Keys # {} /\ NoKey \notin Keys
  /\ \A i, j \in DOMAIN KeyOrder : KeyOrder[i] = KeyOrder[j] => i = j
ASSUME TimeAssumption ==
  /\ FailureThreshold \in Nat \ {0}
  /\ RecoveryTimeout \in Nat
  /\ ShortCooldown \in Nat \ {0} /\ LongCooldown \in Nat \ {0}
  /\ Forever \in Nat
  /\ ShortCooldown < Forever /\ LongCooldown < Forever
ASSUME OutcomeAssumption ==
  Outcomes \subseteq Outcome /\ LimiterRefuses \in BOOLEAN

VARIABLES
  state,       \* the breaker: "closed", "open" or "half_open"
  errorCount,  \* its failures since the last success, up to the threshold
  probes,      \* its half-open seats taken
  openFor,     \* ticks since openedAt, up to the recovery timeout
  cooling,     \* credential -> ticks left of its cooldown
  fails,       \* credential -> its 429s since the last success, up to three
  lastKey,     \* the credential handed out last
  pc,          \* where each request is
  keyOf,       \* request -> the credential it was handed
  skipped,     \* request -> the credentials that are in cooldown at the time
               \* it read the clock
  read,        \* request -> how many credentials it has looked at, while it
               \* holds the group's mutex
  clearing,    \* request -> the credentials its success has still to clear
  grants,      \* history: seats granted since an outcome was recorded
  pool,        \* history: the credentials eligible at the last pick
  share        \* history: credential -> its picks since the pool changed,
               \* less the rounds completed

breakerVars == << state, errorCount, probes, openFor >>
keyVars == << cooling, fails >>
rotationVars == << lastKey, pool, share >>
requestVars == << pc, keyOf, skipped, read, clearing >>
vars == << breakerVars, keyVars, rotationVars, requestVars, grants >>

PC == { "idle", "resolving", "picking", "reserving", "sent", "clearing" }

-----------------------------------------------------------------------------

Init ==
  /\ state = "closed" /\ errorCount = 0 /\ probes = 0 /\ openFor = 0
  /\ cooling = [k \in Keys |-> 0]
  /\ fails = [k \in Keys |-> 0]
  /\ lastKey = NoKey
  /\ pc = [r \in Requests |-> "idle"]
  /\ keyOf = [r \in Requests |-> NoKey]
  /\ skipped = [r \in Requests |-> {}]
  /\ read = [r \in Requests |-> 0]
  /\ clearing = [r \in Requests |-> {}]
  /\ grants = 0
  /\ pool = {} /\ share = [k \in Keys |-> 0]

AtMost(n, bound) == IF n < bound THEN n ELSE bound

(* Ten seconds pass.                                                       *)
Tick ==
  /\ openFor' = IF state = "open" THEN AtMost(openFor + 1, RecoveryTimeout)
                                  ELSE openFor
  /\ cooling' = [k \in Keys |-> IF cooling[k] \in {0, Forever} THEN cooling[k]
                                ELSE cooling[k] - 1]
  /\ UNCHANGED << state, errorCount, probes, fails, rotationVars,
                  requestVars, grants >>

(* The request is over; its caller may send another one.                   *)
Finish(r) ==
  /\ pc' = [pc EXCEPT ![r] = "idle"]
  /\ keyOf' = [keyOf EXCEPT ![r] = NoKey]
  /\ skipped' = [skipped EXCEPT ![r] = {}]
  /\ read' = [read EXCEPT ![r] = 0]
  /\ clearing' = [clearing EXCEPT ![r] = {}]

Goto(r, label) == pc' = [pc EXCEPT ![r] = label]

(* ResolveSlot reads the clock: what is in cooldown now is in cooldown for *)
(* this call, whenever it gets to pick.                                    *)
ResolveSlot(r) ==
  /\ pc[r] = "idle"
  /\ Goto(r, "resolving")
  /\ skipped' = [skipped EXCEPT ![r] = { k \in Keys : cooling[k] > 0 }]
  /\ UNCHANGED << breakerVars, keyVars, rotationVars, keyOf, read, clearing,
                  grants >>

-----------------------------------------------------------------------------
(* breaker.allows, under the breaker's mutex.                              *)

(* A fault to be caught: half-open admits probes without limit.            *)
FaultSeatFree == IF state = "open" THEN openFor >= RecoveryTimeout ELSE TRUE

SeatFree ==
  IF state = "open" THEN openFor >= RecoveryTimeout ELSE probes = 0

Allow(r) ==
  /\ pc[r] = "resolving"
  /\ state = "closed"
  /\ Goto(r, "picking")
  /\ UNCHANGED << breakerVars, keyVars, rotationVars, keyOf, skipped, read,
                  clearing, grants >>

AllowProbe(r) ==
  /\ pc[r] = "resolving"
  /\ state # "closed" /\ SeatFree
  /\ state' = "half_open"
  /\ probes' = 1
  /\ grants' = grants + 1
  /\ Goto(r, "picking")
  /\ UNCHANGED << errorCount, openFor, keyVars, rotationVars, keyOf, skipped,
                  read, clearing >>

(* A fault to be caught: a refused call starts the recovery time again.    *)
FaultRefuse(r) ==
  /\ pc[r] = "resolving"
  /\ state # "closed" /\ ~ SeatFree
  /\ openFor' = 0
  /\ Finish(r)
  /\ UNCHANGED << state, errorCount, probes, keyVars, rotationVars, grants >>

Refuse(r) ==
  /\ pc[r] = "resolving"
  /\ state # "closed" /\ ~ SeatFree
  /\ Finish(r)
  /\ UNCHANGED << breakerVars, keyVars, rotationVars, grants >>

-----------------------------------------------------------------------------
(* group.pickKey: under the group's mutex it looks at one credential after *)
(* another, each under its own.                                            *)

ReadKey(r) ==
  /\ pc[r] = "picking" /\ read[r] < Len(KeyOrder)
  /\ \A q \in Requests \ {r} : read[q] = 0
  /\ read' = [read EXCEPT ![r] = @ + 1]
  /\ UNCHANGED << breakerVars, keyVars, rotationVars, pc, keyOf, skipped,
                  clearing, grants >>

Eligible(r) == Keys \ skipped[r]

Position(k) == CHOOSE i \in DOMAIN KeyOrder : KeyOrder[i] = k

(* k comes first in P, in configured order and cyclically, after position  *)
(* `from`; the credential at `from` itself comes last.                     *)
Comes(k, P, from) ==
  LET distance(j) == (Position(j) - from - 1) % Len(KeyOrder)
  IN  k \in P /\ \A j \in P : distance(k) <= distance(j)

(* A fault to be caught: the walk always starts at the head of the list.   *)
FaultStartAfter(P) == 0

(* The walk starts after the previous credential if that one is eligible,  *)
(* and at the head of the list otherwise.                                  *)
StartAfter(P) == IF lastKey \in P THEN Position(lastKey) ELSE 0

(* The picks of each credential since the pool was last another one; once  *)
(* all have had their turn a round is complete and is taken off.           *)
Turns(k, P) ==
  LET old == IF P = pool THEN share ELSE [j \in Keys |-> 0]
      new == [old EXCEPT ![k] = @ + 1]
  IN  IF \A j \in P : new[j] > 0
      THEN [j \in Keys |-> IF j \in P THEN new[j] - 1 ELSE 0]
      ELSE new

PickKey(r) ==
  /\ pc[r] = "picking" /\ read[r] = Len(KeyOrder)
  /\ \E k \in Eligible(r) :
       /\ Comes(k, Eligible(r), StartAfter(Eligible(r)))
       /\ lastKey' = k
       /\ keyOf' = [keyOf EXCEPT ![r] = k]
       /\ share' = Turns(k, Eligible(r))
  /\ pool' = Eligible(r)
  /\ Goto(r, "reserving")
  /\ skipped' = [skipped EXCEPT ![r] = {}]
  /\ read' = [read EXCEPT ![r] = 0]
  /\ UNCHANGED << breakerVars, keyVars, clearing, grants >>

(* All credentials are cooling down: the call fails, and whatever seat the *)
(* breaker granted stays taken.                                            *)
NoKeyLeft(r) ==
  /\ pc[r] = "picking" /\ read[r] = Len(KeyOrder)
  /\ Eligible(r) = {}
  /\ Finish(r)
  /\ UNCHANGED << breakerVars, keyVars, rotationVars, grants >>

(* attemptSlot reserves between the resolve and the call; a refusal ends   *)
(* the visit of this slot with no outcome recorded.                        *)
QuotaRefused(r) ==
  /\ pc[r] = "reserving"
  /\ LimiterRefuses
  /\ Finish(r)
  /\ UNCHANGED << breakerVars, keyVars, rotationVars, grants >>

Send(r) ==
  /\ pc[r] = "reserving"
  /\ Goto(r, "sent")
  /\ UNCHANGED << breakerVars, keyVars, rotationVars, keyOf, skipped, read,
                  clearing, grants >>

-----------------------------------------------------------------------------
(* The outcome of the upstream call, as RecordSuccess and RecordFailure    *)
(* are told of it.                                                         *)

Ends(r, outcome) == pc[r] = "sent" /\ outcome \in Outcomes

(* breaker.recordSuccess, whoever reports it.                              *)
Succeed(r) ==
  /\ Ends(r, "ok")
  /\ state' = "closed" /\ errorCount' = 0 /\ probes' = 0 /\ openFor' = 0
  /\ grants' = 0
  /\ clearing' = [clearing EXCEPT ![r] = Keys]
  /\ Goto(r, "clearing")
  /\ UNCHANGED << keyVars, rotationVars, keyOf, skipped, read >>

(* The failure streaks are cleared one credential at a time.               *)
ClearFails(r) ==
  /\ pc[r] = "clearing"
  /\ \E i \in DOMAIN KeyOrder :
       /\ KeyOrder[i] \in clearing[r]
       /\ \A j \in 1 .. (i - 1) : KeyOrder[j] \notin clearing[r]
       /\ fails' = [fails EXCEPT ![KeyOrder[i]] = 0]
       /\ IF clearing[r] = {KeyOrder[i]}
          THEN Finish(r)
          ELSE /\ clearing' = [clearing EXCEPT ![r] = @ \ {KeyOrder[i]}]
               /\ UNCHANGED << pc, keyOf, skipped, read >>
  /\ UNCHANGED << breakerVars, cooling, rotationVars, grants >>

(* A fault to be caught: a seat is given back that was never taken.        *)
FaultServerError(r) ==
  LET count == AtMost(errorCount + 1, FailureThreshold) IN
  /\ Ends(r, "5xx")
  /\ probes' = probes - 1
  /\ errorCount' = count
  /\ IF state = "half_open" \/ count >= FailureThreshold
     THEN state' = "open" /\ openFor' = 0
     ELSE UNCHANGED << state, openFor >>
  /\ grants' = 0
  /\ Finish(r)
  /\ UNCHANGED << keyVars, rotationVars >>

(* A fault to be caught: the seat is not given back.                       *)
FaultKeepSeat(r) ==
  LET count == AtMost(errorCount + 1, FailureThreshold) IN
  /\ Ends(r, "5xx")
  /\ errorCount' = count
  /\ IF state = "half_open" \/ count >= FailureThreshold
     THEN state' = "open" /\ openFor' = 0
     ELSE UNCHANGED << state, openFor >>
  /\ grants' = 0
  /\ Finish(r)
  /\ UNCHANGED << probes, keyVars, rotationVars >>

(* breaker.recordFailure: the seat goes back first, whoever took it.       *)
ServerError(r) ==
  LET count == AtMost(errorCount + 1, FailureThreshold) IN
  /\ Ends(r, "5xx")
  /\ probes' = IF probes > 0 THEN probes - 1 ELSE probes
  /\ errorCount' = count
  /\ IF state = "half_open" \/ count >= FailureThreshold
     THEN state' = "open" /\ openFor' = 0
     ELSE UNCHANGED << state, openFor >>
  /\ grants' = 0
  /\ Finish(r)
  /\ UNCHANGED << keyVars, rotationVars >>

(* A credential goes into cooldown; every call that has read the clock but *)
(* has still to look at it sees it there, since the cooldown ends after    *)
(* that time.                                                              *)
CoolDown(r, ticks) ==
  /\ cooling' = [cooling EXCEPT ![keyOf[r]] = ticks]
  /\ pc' = [pc EXCEPT ![r] = "idle"]
  /\ keyOf' = [keyOf EXCEPT ![r] = NoKey]
  /\ skipped' = [q \in Requests |->
                   IF \/ pc[q] = "resolving"
                      \/ pc[q] = "picking" /\ read[q] < Position(keyOf[r])
                   THEN skipped[q] \cup {keyOf[r]} ELSE skipped[q]]
  /\ UNCHANGED << read, clearing >>

Throttled(r) ==
  /\ Ends(r, "429")
  /\ CoolDown(r, IF fails[keyOf[r]] >= LongAfter THEN LongCooldown
                                                 ELSE ShortCooldown)
  /\ fails' = [fails EXCEPT ![keyOf[r]] = AtMost(@ + 1, LongAfter)]
  /\ UNCHANGED << breakerVars, rotationVars, grants >>

KeyRefused(r) ==
  /\ Ends(r, "auth")
  /\ CoolDown(r, Forever)
  /\ UNCHANGED << breakerVars, fails, rotationVars, grants >>

(* Any other 4xx is the caller's fault: neither the credential nor the     *)
(* breaker is told.                                                        *)
CallerFault(r) ==
  /\ Ends(r, "4xx")
  /\ Finish(r)
  /\ UNCHANGED << breakerVars, keyVars, rotationVars, grants >>

Step(r) ==
  \/ Allow(r) \/ AllowProbe(r) \/ Refuse(r)
  \/ ReadKey(r) \/ PickKey(r) \/ NoKeyLeft(r) \/ QuotaRefused(r) \/ Send(r)
  \/ Succeed(r) \/ ClearFails(r) \/ ServerError(r)
  \/ Throttled(r) \/ KeyRefused(r) \/ CallerFault(r)

Next == Tick \/ \E r \in Requests : ResolveSlot(r) \/ Step(r)

Spec == Init /\ [][Next]_vars

(* Callers keep coming, every call makes progress, upstream calls end, and *)
(* time passes.                                                            *)
Fairness ==
  /\ WF_vars(Tick)
  /\ \A r \in Requests : WF_vars(ResolveSlot(r)) /\ WF_vars(Step(r))

FairSpec == Spec /\ Fairness

-----------------------------------------------------------------------------
(* The types of the variables.                                             *)
TypeOK ==
  /\ state \in { "closed", "open", "half_open" }
  /\ errorCount \in 0 .. FailureThreshold
  /\ probes \in 0 .. 1
  /\ openFor \in 0 .. RecoveryTimeout
  /\ cooling \in [Keys -> 0 .. Forever]
  /\ fails \in [Keys -> 0 .. LongAfter]
  /\ lastKey \in Keys \cup {NoKey}
  /\ pc \in [Requests -> PC]
  /\ keyOf \in [Requests -> Keys \cup {NoKey}]
  /\ \A r \in Requests : pc[r] \in { "reserving", "sent" } => keyOf[r] \in Keys
  /\ skipped \in [Requests -> SUBSET Keys]
  /\ read \in [Requests -> 0 .. Len(KeyOrder)]
  /\ clearing \in [Requests -> SUBSET Keys]
  /\ grants \in Nat
  /\ pool \subseteq Keys
  /\ share \in [Keys -> Nat]

(* The breaker is consistent, whatever the order in which results arrive:  *)
(* a probe seat is taken exactly while the breaker is half-open, and a     *)
(* closed breaker is below its threshold.  A late result can neither leave *)
(* a seat behind in another state nor close the breaker with its failures  *)
(* still counted (router.go:75-124).                                       *)
BreakerConsistent ==
  /\ probes = (IF state = "half_open" THEN 1 ELSE 0)
  /\ state = "closed" => errorCount < FailureThreshold

(* After a probe seat is granted no other is, until an outcome has been    *)
(* recorded, however many callers race for it (router.go:99-124).          *)
OneSeatPerOutcome == grants <= 1

(* Over any stretch in which the same credentials are eligible, no two of  *)
(* them differ by more than one pick (pickKey, router.go:199-234).         *)
EvenShareWhileStable == \A j, k \in pool : share[j] - share[k] <= 1

(* An open breaker is eventually left, as long as callers keep coming:     *)
(* neither the calls it refuses nor the late failures of calls sent before *)
(* it opened can put off the recovery for ever (router.go:75-114).         *)
OpenIsProbed == (state = "open") ~> (state # "open")

(* Refutable claim, from the comment on allows (router.go:99-101): callers *)
(* are refused only "until the probe outcome is recorded", so a half-open  *)
(* breaker is eventually left.                                             *)
HalfOpenIsResolved == (state = "half_open") ~> (state # "half_open")
=============================================================================
