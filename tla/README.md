# A TLA+ verification of llm-pico

llm-pico is a gateway in front of several LLM providers: it authenticates a
caller, picks a provider slot and a credential for the requested model, reserves
rate-limit quota, calls the provider, relays the answer or the stream, and settles
the accounts. It is one Go process; what makes it hard is that everything a
request touches is shared with the other requests, that every piece of it has a
lock of its own, and that results come back late and out of order.

Paths are relative to `src/`. `PROJECT.json` lists the components, the runs, the
mapping of every definition to its lines, the hazards, the findings and the
theorems.

## 1. Inventory

| Component | State | Operations | Talks to |
|---|---|---|---|
| Rate limiter, `internal/ratelimit` | 64 shards of counters keyed by (key hash, model, slot, level, window), each with a bucket label | CheckAndReserve, rollback, Refund, Reconcile, purgeStale, Usage | called by reserve, settle, refund of the proxy; the purge is a ticker goroutine |
| Router: breaker and credentials, `internal/router` | per slot: breaker state, failures, seats, openedAt; per credential: cooldownUntil, failure streak; the last credential handed out | ResolveSlot (allows, pickKey), RecordSuccess, RecordFailure | called by attemptSlot on every try |
| Router: model cooldown | model -> losses in a row, model -> end of its cooldown | RecordModelFailure, clearModelFailure, isCoolingDown | called by Dispatch and by the above |
| Slot walk and retries, `internal/proxy` Dispatch, attemptSlot | per request: slot, try, attempts, reservation | Dispatch, attemptSlot, reserve, call, settle, refund | router, limiter, provider adapters |
| Streaming copy, callStreaming | per stream: pipe, watchdog, settle Once, usage | copy loop, watchdog, settle or refund at the end | provider, client, limiter |
| Drain and shutdown, BeginDrain and `cmd/llm-pico/main.go` | draining, inFlight, streamWG | Dispatch's entry, BeginDrain, the HTTP server's Shutdown | signals, all requests |
| Snapshots and reload | three pointers: config, router, registry | Reload on SIGHUP, loads by every request | loader, all requests |
| Admission and modes | semaphore, mode | admit, release | the mode is never set: see section 14 |
| Media and context gates, estimates, usage accounting | none (pure) | mediaSlots, slotsWithinContext, Estimate*, finalizeFn, Classify | Dispatch |
| Provider adapters and SSE | per stream: block and tool state of the Anthropic and Gemini translators | Complete, Stream, Embeddings, Transcribe, Speak | HTTP |
| Registry, `internal/providers` | compiled and configured providers by lower-case name | Define, Lookup, AdapterFor | loader, attemptSlot, probes |
| Configuration loader and init | three files: `keys.env`, `provider.yaml`, `models.yaml` | Load, Init, IsEmptyConfigDir, NeedsInit | boot, reload |
| HTTP server, auth, errors, headers | cached key set | handle, authenticate, models | Dispatch |
| Observability, version | tracer, latency ring | Add, Record, percentiles | Dispatch |

What must hold, component by component:

- *limiter*: no interleaving of calls commits a reservation beyond a ceiling; a
  refused, refunded or reconciled request leaves exactly what it should in every
  window; the whole behaves like a quota that admits in one step.
- *breaker and credentials*: a seat is granted once per outcome and is never left
  behind; an open breaker is eventually probed, a half-open one resolved; the
  rotation is even; a refused credential stays away.
- *model cooldown*: it takes two losses, and it ends.
- *walk*: one reservation per visit, resolved exactly once; every walk ends; the
  budget holds.
- *stream*: settled exactly once whoever ends first; a live stream is not cut.
- *drain*: nothing counted is cut off while the drain says it has drained.
- *reload*: no request uses what a reload that had returned before it came has
  replaced; a key that was taken back is refused.
- *boot and init*: an interrupted init is not served as half a configuration; a
  failed reload changes nothing, and the last signal wins.
- *translators*: the provider is told what the caller said, turn by turn, and the
  caller what the provider said, streamed or not; the bill is the report.
- *loader, gates, registry, listing*: what one of them says a slot can do, the
  others do too.

The behaviours that are hard to test, each at its line, are the `hazards` of
`PROJECT.json`. The common patterns are: the clock read before the lock; a seat
or a reservation taken several failures before it is given back; a result that
arrives after the state it refers to is gone; and validation and commit window
by window.

## 2. Plan

In order of importance. All but the last is done.

1. `RateLimit`, with the abstract `Quota` it implements, and `RateLimitProofs`.
2. `ProviderGroup` and `ProviderGroupProofs`.
3. `Dispatch` and `DispatchProofs`.
4. `Stream` and `StreamProofs`.
5. `Lifecycle`: the handler's way into Dispatch, reloads under it, the drain.
6. `Boot`: the three files, init, start and reload, with crashes.
7. `Translate`: the stream translators against their buffered form, and the bill.
8. `Messages`: the conversation on its way to the provider.
9. `Catalog`: the loader's rules, the gates, the registry and the listing.
10. Proofs for `Lifecycle`, `Boot`, `Translate`, `Messages` and `Catalog`; of the rotation,
    the sums of the limiter and its refinement, and the end of the slot walk.
11. `Dispatch` composed with several `ProviderGroup`s, the answers of each slot
    given by its group instead of a free choice: a refinement that would replace
    the argument that free choices cover them.

There is one passing run per module, with safety and liveness in one
configuration. Every invariant of a passing run is also a theorem (section 12). What a
further theorem could still say lies beyond these modules: item 11, and the safety half
of the other liveness properties as `NoWalkGoesBack` states it of `AlwaysReturns`.

## 3. `RateLimit` and `Quota`

**The code.** `CheckAndReserve` reads the clock once and then, for each limited
window in check order, takes the shard's lock, finds or starts the counter of the
bucket the clock fell in, tests it and charges it, and releases the lock. If a window
is full, the windows charged before are rolled back, one lock at a time.
`Refund` and `Reconcile` are such loops too, with a clock of their own; the purge
reads the clock and then visits the shards.

**The model.** One limit cell group: all the counters that differ only in their
window. Groups share nothing (the map key holds everything else), so one stands
for all. An action is one call's entry (which reads the clock) or one lock section:
`CallCheckAndReserve`, `Charge`, `Reject`, `Rollback`, `CallRefund`, `Refund`,
`CallReconcile`, `Reconcile`, `StartPurge`, `PurgeStale`, and `Tick` for time.
`cell[w]` is the counter and its bucket, `start = -1` standing for no map entry;
`todo[r]` is what is left of the loop of request `r`; `reservedAt`, `finishedAt`
and `sweepAt` are the times read before the locks. Time is a minute count and a
day is `MinutesPerDay` of them, so that both kinds of window turn.
`surplus` and `skewed` are history variables: tokens added by reconciliations, and
windows in which a call has worked with another bucket than the one it should.

**The promise.** `Quota` admits in one step and only within every ceiling,
gives back or corrects in one step. `ImplementsQuota` states that under the
mapping of `Promise` every step of the loops is a step of the quota or none,
until a window is skewed. The ceiling in `Quota` binds what is reserved and
still kept: a reconciliation that books more tokens than were reserved may fall
between the charge of a window and the end of the same call's loop, so the
corrected sums may pass the ceiling at the instant of admission. The first
version of `Quota` did not allow for that and TLC refuted the refinement.

| Run | Shows |
|---|---|
| `limiter` | `NeverOverLimit`, `ChargesConserved`, `ImplementsQuota` and the types hold with three requests, a token window per minute (ceiling 3, estimate 2, actual usage 0 or 3) and an audio window per day (ceiling 3, 61 seconds counting as 2 minutes), over three minutes in two days, with the purge |

*Bounds.* Three requests are needed: one to hold room, one to lose it, one to
take it. Two windows of different kinds make the loops, the rollback and the
partial reservation happen; the ceilings let one, or one and a corrected one, in.
Three minutes of a two-minute day let minute and day turn separately and
together. Requests are symmetric.

*Abstractions.* `Requests` is a finite set of any size, so that sums over it are
numbers (`RequestAssumption`): the process serves finitely many. They are added up
with `SumFunction` of the community modules. A request reserves once (a retry keeps its
reservation, see `Dispatch`), in the one group of its key, model and slot
(`reserve`, `proxy.go:640`). Wall-clock time does not go backwards. The shard is one
lock, as all windows of a group fall into the same shard. `Usage`, which only
reads, is left out.

## 4. `ProviderGroup`

**The code.** `ResolveSlot` reads the clock, asks the breaker (its mutex), then
picks a credential (the group's mutex, then each credential's). The proxy then reserves quota, calls
the provider and reports the outcome: `recordSuccess` closes the breaker and
clears every credential's streak, one at a time; `recordFailure` cools the credential
down after a 429, quarantines it after 401-403, tells the breaker of a 5xx and
nobody of another 4xx.

**The model.** One slot. An action per mutex section: `ResolveSlot`, `Allow`,
`AllowProbe`, `Refuse`, `ReadKey`, `PickKey`, `NoKeyLeft`, `QuotaRefused`, `Send`, `Succeed`,
`ClearFails`, `ServerError`, `Throttled`, `KeyRefused`, `CallerFault`, `Tick`. A tick is
ten seconds. `skipped[r]` holds the credentials in cooldown at the time `r` read
the clock, plus those cooled since and before `r` looked at them: their cooldown ends after that
time. `pickKey` looks at them one by one (`ReadKey`), each under its own mutex, while it holds the
group's; `read[r]` is how many it has seen. Counts
that are only compared with a threshold stop there. `grants`, `pool` and `share`
are history variables for the properties.

| Run | Shows |
|---|---|
| `group` | with every outcome, late results, quota refusals and cooldowns: the seat is taken exactly in half-open and a closed breaker is below its threshold; one seat per recorded outcome; an even rotation while the pool is stable; an open breaker is eventually left |
| `group_stuck` | a half-open breaker may stay half-open for ever: the seat leaks when no credential is ready, the limiter refuses, or the probe ends in a 429 or another 4xx, and only a reload or a restart builds a new breaker |

*Bounds.* Two callers suffice for a late result against a probe and for a race for
the seat (`BreakerConsistent` and `OneSeatPerOutcome` are proved for any number);
two credentials for the rotation and for an exhausted pool; a threshold of two so
that failures below it exist; recovery after two ticks, longer than a cooldown, so that
refused calls happen; in `group_stuck` it is one tick. `Forever` is never counted
down: it is longer than any behaviour of the process.

*Fairness.* Callers keep coming (the claim is about what traffic finds), each call
makes progress (its goroutine runs), upstream calls end (the transport bounds the wait
for response headers by 60 s, `providers.go:233`; that a body ends is an assumption about the
provider or the caller's patience), time passes. The outcome is not fair: a provider may fail for ever.
That is why `OpenIsProbed` only says that the state is left.

*Abstractions.* Health score and latency window are left out: only `Resolve`, which
production code does not call, and Status read them. Credentials are distinct, as
the loader makes them. A group has at least one.

`BreakerConsistent` also shows that the branch of `allows` for a half-open breaker without a
seat taken (`router.go:119-120`) is not reached: a breaker is half-open exactly while a seat is
taken.

## 5. `Dispatch`

**The code.** `Dispatch` walks the slots in declared order. `attemptSlot` tries a slot up to
retries + 1 times within the walk's attempt budget, resolving each time, reserving once, and gives the reservation back
when all tries failed. An answer is settled inline; a stream by its copy goroutine, after
`Dispatch` has returned. When the last slot fails the model loses; two losses in a row put
it into cooldown, which a success, or its end, lifts.

**The model.** The answers of the group, the limiter and the provider are free
choices, so what holds here holds for all of them. Actions: `Start`, `Visit`,
`OutOfTries`, `ResolveFails`, `Resolves`, `Reserve`, `ReserveFails`, `Call`, `Answered`,
`Streams`, `StreamEnds`, `RecordSuccess`, `Terminal`, `Fails`, `Backoff`, `Unwind`, `RecordModelFailure`, `Again`, `Tick`.
`owed[r][s]` is the ledger: reservations charged in slot `s` less those settled or
given back. `res[r]` is the local variable of `attemptSlot`; it goes out of
scope with whatever it holds when the slot is left. `failures` and `coolFor` are
the router's two maps for this model.

| Run | Shows |
|---|---|
| `walk` | nothing is reserved, settled or refunded twice and nothing goes upstream without a reservation; a slot with a single try leaks nothing; a cooldown has two losses behind it and ends; every walk ends |
| `walk_leak` | with a retry, one 429 on a slot whose only credential it was: the second resolve fails and the reservation is never given back |

*Bounds.* Two requests share the cooldown and its two losses. Three slots: a
retrying one with a slot before and one after it. Two retries and a budget of three
let the budget run out within a visit and between two. The cooldown lasts two ticks so that
walks under way meet it running and elapsed.

*Fairness.* The goroutine of a request and of a stream runs; upstream calls and
streams end (as above; the watchdog of `callStreaming` bounds a stalled stream); callers keep coming; time passes.

*Abstractions.* The slots are those left by the gates. A failed call is retried
after a sleep: every error that is not terminal is a 429 or a 5xx
(`proxy.go:963-1047`), so `retryableUpstream` always says yes, and
`isClientRejection` never ends the walk after a failed call. The branch for an exhausted budget without
an error (`proxy.go:575-578`) is not reached, as `Dispatch` has just tested the
budget. A sleep cut short by the caller breaks the retry loop but not the walk, as in the code.

## 6. `Stream`

**The code.** `callStreaming` hands the read end of a pipe to the handler as the
body of its answer and starts two goroutines. The copy loop stamps `lastChunk`,
waits for the next chunk and writes its frame into the pipe; it ends at the sentinel, at the end of the body
or when the pipe's reader has closed (body and pipe are closed, the reported
usage is settled, or the reservation if none was reported), or at an error (the
pipe ends with it, the reservation is refunded). The watchdog closes the body when the stamp is older
than the timeout. `copyBody` in the server reads the pipe and writes to the
caller until either fails, and closes the pipe when it returns. There is no write
timeout.

**The model.** One stream (streams share only the limiter, see `Dispatch`). Provider and
caller: `Send`, `End`, `Leave`; the context that a caller who left, or a handler that returned, cancels: `Cancel`. The
copy goroutine: `Stamp`, `TakeChunk`, `TakeSentinel`, `TakeEOF`, `TakeError`, `WriteFails`,
`Close`, and `Settle` or `Refund`. The watchdog looks, and closes later: `FindStale`, `CutOff`.
The handler: `PassOn` (the rendezvous of the pipe), `Relay`, `RelayFails`,
`HandlerEnds`. `Rest` is the state in which everything is over.

| Run | Shows |
|---|---|
| `stream` | whoever ends the stream first, the reservation is booked exactly once; a caller that is still there and sees a clean end of the pipe has received everything the provider sent; only a stream that the provider finished or the caller left is charged; the stream ends even if the provider falls silent |

*Bounds.* Three chunks: one in the handler's hands, one in the pipe and one unread at
the provider, which is what the watchdog needs to go wrong. A timeout of two ticks
leaves room below it.

*Fairness.* The goroutines run, a context that is over cancels, time passes while the copy
goroutine waits. The handler's fairness says of the caller that it either reads
on or leaves: one that keeps its connection and never reads holds the handler for
ever, as there is no write timeout. The provider owes nothing.

*Abstractions.* A read of the handler takes a whole frame (its buffer is 32 KiB);
of a longer frame the caller may get a part, which counts as nothing. Ticks are
seconds, so time stands still while every goroutine can run. Some of what came before
a close may still be read after it, so a closed body may yield its chunks or an
error. When the caller leaves, the copy loop may meet the cancelled body (and refund) or the closed
pipe (and settle) first: the model has both, and both are what the code does. An
error of the stream and its end look alike to the caller: `copyBody` returns
in both cases, and the HTTP answer ends; `CleanEndIsWhole` is about the pipe. The `sync.Once`
around the booking is left out, as each way out of the loop books once; that nothing books twice is
`BookedOnce`.

## 7. `Lifecycle`

**The code.** A request comes to the server's handler, which loads the
configuration for the key check (the hashed key set is cached with the snapshot it
was built from), again for the model, and enters `Dispatch`: the test of `draining`,
the count, the loads of configuration and router, and on every attempt one of the
registry. A stream is counted in a second wait group and outlives `Dispatch`.
`Reload` stores three pointers one after another. On SIGINT or SIGTERM main stops
listening to SIGHUP, waits in the HTTP server's `Shutdown` for the handlers, up to
a timeout, then in `BeginDrain` for the two wait groups, up to another, and ends.

**The model.** A generation is what one load produced. One action per load, store
or change of a counter: `StoreRegistry`, `StoreConfig`, `StoreRoutes`; `Arrive`,
`ResolveIdentity`, `Authenticate`, `StoreKeySet`, `FindModel`, `CheckDraining`, `Count`, `LoadConfig`,
`LoadRoutes`, `ResolveFails`, `Attempt`, `CallEnds`, `Streams`, `Return`, `HandlerEnds`,
`StreamEnds`; `Stop`, `ListenFails`, `ShutdownEnds`, `ShutdownTimesOut`, `WaitReturns`,
`WaitPanics`, `Drained`, `DrainTimesOut`, `HangupKills`. `seen[r]` is what a request has
loaded, in the key check, for its model and in `Dispatch`. A request that finds the cached key set to be of another
snapshot than its own builds one (`hashing`), checks its key against that, and stores it
(`StoreKeySet`); another may have stored in between. Requests arrive until `Shutdown` has
returned, as a connection accepted before the listener closed may still bring one; later ones
there are none, since `Shutdown` waits for connections longer (at least 35 s, `main.go:128` and 177) than a new one
may take for its header (20 s, `main.go:204`). `began` and `covered` are history variables: the last reload that had
returned when a request came, and the requests counted before the drain had finished
waiting for requests.

| Run | Shows |
|---|---|
| `lifecycle` | no request loads anything older than the reload that had returned when it came; a key that no configuration in force since then has is refused, whoever rebuilds the cached set; a drain that reports success covers every request counted in time, with its stream; a process that was told to stop ends |

*Bounds.* Two requests race for the cached key set and for the wait groups. Two
reloads, the first without the callers' key and their model, the second with both again: a
request can load the parts of three generations, in any mixture the code allows.

*Fairness.* The main goroutine and its timers run; requests, providers and callers
owe nothing, so the process must end although streams hang.

*Abstractions.* `Requests` is finite, as in `RateLimit`. `Dispatch` is its entry, the attempts and the ways out (see `Dispatch`
and `Stream` for what happens inside). The limiter outlives reloads. A wait
group that is entered from zero while its waiter is between waking and returning
panics, as `sync.WaitGroup` documents: `WaitPanics`. Once the process has exited
nothing moves.

## 8. `Boot`

**The code.** `--init` refuses if one of the three files is there, then creates and
writes them in turn. A start in a directory with none of them does the same first.
Every start, and every SIGHUP while serving, runs `Load`, which reads the three files in
turn, each against the one before. A failed load ends a process that starts; a process
that serves keeps what it has. SIGHUPs wait in a channel of one.

**The model.** Each file holds the starter text, the operator's save of some
number, or something unusable (created and not yet written, or nonsense). Actions: `Start`,
`Check`, `RefuseToOverwrite`, `Create`, `Write`, `Read`, `ReadFails`, `Install`,
`TakeSignal`, `Hangup`, `Save` by the operator, and `Die` at any step. `asked`, `edited` and
`half` are history variables: a SIGHUP since the last save, a save since the load began,
an init cut short and nobody's hand since.

| Run | Shows |
|---|---|
| `boot` | a configuration half written by an init that died is never completed and never served, by any sequence of starts; whatever fails, what serves is a whole configuration that fits together, read as the files are unless somebody saved meanwhile; the last SIGHUP after the last save takes effect, even one that comes in the middle of a load |

*Bounds.* Three saves: one file broken and mended, or two files changed together.
`Clash` makes some versions of a file name what the one before does not have, in
both directions.

*Fairness.* The goroutine that reloads runs, and reading a file ends. Starts, saves
and signals are free.

*Abstractions.* A save replaces a file in one step, and the operator does not save
while an init writes (see section 13). A whole `Load` between two of the operator's
saves sees the files as they are; a mixture is what `edited` marks.
`Write` gives a file its text in one step after its creation, as `os.WriteFile` hands a short text over in one
call; a file that holds part of its text counts as one that cannot be used, so a cut that leaves a text
the loader would accept, as a loss of power might, is not modelled. The registry is
built from the same load and fails on nothing the loader accepts but a base URL that is
no URL, which counts as a file that cannot be used.

## 9. `Translate`

**The code.** `anthropicStream.Next` turns typed events into OpenAI chunks: blocks of
text, thinking and tool calls share one numbering upstream, tool calls have their own
downstream; usage comes in two parts, at the start and with every `message_delta`, of which one brings the stop reason.
`geminiStream.Next` turns chunks of parts into chunks, each with the usage so far. The
proxy keeps the last usage report and charges by it when the stream ends.

**The model.** A step is one event and the call of `Next` that reads it: `MessageStart`,
`ContentBlockStart`, `ContentBlockDelta`, `MessageDelta`; `GeminiChunk`; `End`, `Cut`.
`said` is what the provider has said, `report` the tokens it has reported last; the caller's side (`text`, with the choice of
each fragment, `calls`, `finish`) is what an
OpenAI client accumulates, and `last` the usage that the proxy has read, which no frame carries to
the caller (`anthropic.go:966-969`, `gemini.go:817-823`). `Buffered` translates `toOpenAI` of both adapters on the whole
answer, `Charge` the proxy's `finalizeFn`.

| Run | Shows |
|---|---|
| `translate` | every tool call has its own index in the order of the answer and its fragments whole and in order; a stream that ended has told the finish reason and the calls of the buffered answer (of a call without arguments nothing, where that has `{}`) and every fragment of its text, in order and for choice 0 where the text stands in block 0 or comes from Gemini; the charge is what was reported less what came from the cache, and the estimate exactly when the tokens of the answer, or any at all, were not reported |
| `translate_choice` | the stream is said to be a normal one (`anthropic.go:758-759`), but a text block that is not block 0, as after thinking, is sent for a choice of its own |

*Bounds.* Five fragments or blocks allow two tool calls with text or thinking between
them, and fragments of overlapping blocks. Counts of 0 and 2 distinguish no
report from one, and cached from fresh. `StreamedAsBuffered` says of text after a thinking block or a tool
call only that it is all told: `translate_choice` shows for which choice.

The loops that skip what they do not want are sets of places: `PlacesOf` the places of a
kind in what was said, and the k-th of them by its rank (`Nth`, in `Ranks`), so that the index
of a tool call is the number of tool calls up to its place.

*Abstractions.* Fragments are numbers. Counts that a provider reports do not go down, and the counts of a
chunk of Gemini add up to its total, with `other` for what only the total counts. A `message_delta`
may come several times, with a stop reason or without one; a provider that goes on with content
after it has given a stop reason is not modelled, nor one that ends (`message_stop`, or the end of Gemini's
body) without having given one, nor are events that are skipped (`ping`, what is not JSON).

## 10. `Messages`

**The code.** `buildAnthropic` and `toGemini` go over the OpenAI messages once to
collect the tool calls, then take them in turn: system messages go to a field of their own,
an assistant's calls and a tool's results become parts, what the provider cannot carry is
dropped, neighbours of one role are merged. Then the completion cap, the thinking budget
and the cache marks are settled.

**The model.** `Say` lets the caller add a message; `Begin`, `Hoist`, `Take` and `Send` are the
translator's pass. A part is known by its place in the conversation. The calls collected first are
the places `CallsMade`, the entry of a map that is overwritten by each is `LastOf` them. What
is sent is looked at by `Sendings`, the turn and the position in it.

| Run | Shows |
|---|---|
| `messages` | turns alternate, none is empty, and they hold every part that can be carried, once, in order and in its role; a result is sent paired with the call it answers; a budget the caller chose is sent, with room beyond it where Anthropic wants it |

*Bounds.* Four messages out of thirteen: calls of one function under two ids, two functions in
one message, results by id or by name, parts that are carried by one provider or none. Seven
mixtures of the settings, at the boundary where cap and budget are equal. `ResultsAnswerCalls` is
about conversations with distinct ids whose results name a call an assistant's message made before
them; what becomes of others is in section 13.

*Abstractions.* `function` results are `tool` results, and a role the code does not name is a
user's. A call without an id keeps the empty one, where the code makes one up that no result can
name. Text is not empty. Stop sequences, tools, top_p and
response formats are copied field by field and left out.

## 11. `Catalog`

**The code.** `loadProviders` and `parseModel` check entries and fields in file order; `expandSlots`
makes a slot of each provider the model names. `Dispatch` keeps the slots of the route's
kind that take the media of the body and whose window holds the estimate. The registry finds a slot's adapter by
the name of its provider, compiled names first. The listing joins the slots' flags with the last probe.

**The model.** `ReadProvider`, `RefuseProvider`, `ProvidersEnd`, `ReadField` and
`expandSlots` read one model's configuration; `Ask` answers a request through the gates;
`RecordCapability` is a probe's answer. A loop that keeps some of the slots is the set of their
places, so that `InOrder` (of `Ranks`) gives what is tried, in declared order; `Reason` is the
first gate that keeps none. Names carry the module's prefix because the proofs read it
together with `Boot`. `CatalogAssumption` says only what the inputs are: a list of providers is a
list of names, and a route is that of a kind.

| Run | Shows |
|---|---|
| `catalog` | a request goes to exactly the declared providers that the files say can serve it, in declared order and, where the provider's name is its own, through an adapter of its protocol; a refusal gives a reason that holds; what is listed is what the gates let through; no accepted model has a limit or a restriction that its kind ignores |

*Bounds.* Two provider entries of ten, with each of the loader's mistakes; five fields of a model in every
order, so that a limit comes before or after its kind; thirteen requests around the windows and the media.

*Abstractions.* Token counts are in thousands, one estimate per kind of part. One model is read; no rule joins
two. Keys of a mapping are distinct. Retries, budgets, `max-output`, `model` and `cache` are copied and no rule depends on them.

## 12. Proofs

All proofs are about the modules above, for all values of their constants under
their named assumptions: any number of requests, credentials, slots, chunks, fragments,
messages, saves and reloads. Every invariant of every passing run is a theorem; the
inductive invariants were checked by TLC before they were proved.

**`RateLimitProofs`** (`LimitAssumption`, `CostAssumption`, `ClockAssumption`).
`TypeCorrect`, by induction. `LimitHolds`: `NeverOverLimit` is inductive
together with the types. The critical action is `Charge`, whose test was made on the counter
it replaces, in the same lock section, so nothing can come between; a counter
that restarts from zero restarts its surplus with it; credits only lower a
counter; and a reconciliation raises it by no more than it adds to the
surplus. The point is that the proof does not need `skewed`: the ceiling
holds even across bucket boundaries, for what is left in the counter.
`ChargesAreConserved` (`RequestAssumption`): `LedgerInv` says of every window that is not skewed
that its counter is the sum of what the requests hold of its bucket (`HeldType`,
`FoundIsBalanced`), `TimesInv` that no call works with a time to come. The sum is a fold, and the
provers have no induction over one; `SumIsUnits` therefore counts it as the cardinality of a set of
units, from the smallest subset for which it would fail (`SmallestSubset`, by well-foundedness
of the naturals), and everything else about sums follows from cardinalities.
`LimiterImplementsQuota`: the initial states map to the quota's, and every step is a step of
`Quota` or none under `Promise`: the last `Charge` of a call admits at once (`AdmitsAtOnce`), a
refund gives back as it is called (`GivesBackAtOnce`), a reconciliation corrects window by
window (`CorrectsOneWindow`), a tick rolls over (`TimeRollsOver`), the rest stutters.

**`ProviderGroupProofs`** (`KeyAssumption`, `TimeAssumption`,
`OutcomeAssumption`). `TypeCorrect`; `BreakerStaysConsistent` and
`SeatGrantedOnce`: neither is inductive by itself, and
`BreakerInv` adds that the grants since the last outcome are the seats taken, so
that a second grant would need a free seat in half-open, which
`BreakerConsistent` excludes. `SharesStayEven`: `RotationInv` says that the credentials that
have had their turn in this round are one call ahead of the others, and that the walk from the one
handed out last comes to the others first; `PickKeepsRotation` is the arithmetic of that walk.

**`DispatchProofs`** (`SlotAssumption`). `TypeCorrect`; `CooldownIsEarned`;
`LedgerHolds`: `LedgerConsistent` says nothing of a visit that holds no
reservation or of the slots to come, so the inductive invariant `LedgerInv` adds
that these owe nothing, that `res` is set exactly where the loop reads it as
such, and that a running stream owes its own slot and belongs to a walk that has its
answer. `SingleTryNeverLeaks`: on top of it `NoLeak` says, for slots with a single try, that a
visit at the head of its loop that holds a reservation has used its try, so that it is
not resolved again, which is the step where the others leak.
A step of one request leaves the entries of the others alone (`OthersUntouched`),
so each proof looks at one request's own step, action by action. `BudgetIsKept` and
`NoWalkGoesBack` are what can be proved of `AlwaysReturns`: `Moves` says what a step of a walk does
to its slot, its try and its place, `TryInv` that a try begins only while budget and tries are left, and
together that each step gets closer to the end, slot before try before place, in an order with
no infinite descent. Fairness has only to add that a walk is scheduled and its calls upstream end.

**`StreamProofs`** (`StreamAssumption`). `TypeCorrect`; `StreamBookedOnce`, inductive
with the verdict that goes with the booking (`BookInv`); `CleanEnd` and `OnlyCharged`,
from `FlowInv`, which says where each frame is: what has been read is what the caller
has received, what the handler holds and what is being written, and the loop gets to its normal end only
through the end of the provider's stream with nothing left unread, or through a
handler that has already returned, which it does while the pipe is open only when its caller is gone.

**`LifecycleProofs`** (`LifecycleAssumption`). `TypeCorrect`, with `SnapshotOrder` (the
three pointers lag by at most the reload under way, in the order of the stores) and
`NoStreamYet`. `LoadsNeverStale`: `FreshInv` bounds what a request has loaded from below by the
reload that had returned when it came and from above by the newest. `RevokedKeysAreRefused` is
inductive on top of it: the cached set may be rebuilt by any request, but a request only takes a
set built from the snapshot it loaded itself, be it the cached one or its own. `DrainIsComplete`: `DrainInv` says that what the
drain has waited for stays over, because a covered request has been counted and does not come back
into `Dispatch`, the only place a stream starts from. The counters are cardinalities of the sets of
requests that hold them, which is what `CountsAreNat` and its neighbours are for.

**`ConfigurationProofs`** (`BootAssumption`, `CatalogAssumption`), of `Boot`: `TypeCorrect`. `HalfInitIsNeverServed`: `HalfInv` says that
some file is absent or unusable and that no load has got past it, which holds through any number
of starts as long as nobody saves; `Writing` ties the place of the init to the files.
`ServesOnlyWholeConfigurations`: `ReadInv` says that what a load has read fits together so far and
is what the files hold unless one was saved meanwhile.
Of `Catalog`, on the inductive invariant `CatalogInv`: names of providers are distinct and each entry
acceptable (`ProvidersInv`); what has been read of the model was valid when it was read and still is, since
a limit presupposes the kind and no field is read twice (`ModelInv`), which is `CatalogTypeCorrect`; the
slots are those of the files (`SlotsInv`), the last answer that of the slots (`AnswerInv`).
`OnlyTheAbleAreChosen` then goes gate by gate, each against the files (`PassesKind`, `PassesMedia`,
`PassesContext`, `PassesDims`), and from the names of one's own to the adapter (`LookupIs`);
`ListingMatchesGates` compares the listing with the media gate slot by slot.

**`TranslateProofs`** (`TranslateAssumption`). `BilledAsReported`: `BillInv` ties the proxy's
last report to the provider's, count by count. `CallsAreWhole`: `CallsInv` and `IndexInv` say that the caller's
call at an index is the block of that rank, with its fragments so far. `StreamedIsBuffered`: `TextIsTold` (what is
told is what stands in text blocks, each fragment once), `TextInOrder`, `ChoicesInv` (the choice of a fragment
is its block, or 0) and `EndInv` (the finish reason told is that of what was said). In block 0 the order of the
text in the buffered answer is that of its places, which `BlocksRise` makes the order of its
telling; `RisingIsNth` then makes both the same sequence. Filtered sequences are handled through ranks:
`RankRises`, `RanksAreTaken` (the ranks of n places are 1..n, by counting an injection) and
`NthIs` replace the induction over a sequence. `TypeCorrect` from the same invariants.

**`MessagesProofs`** (`MessagesAssumption`, which types messages and settings and nothing else).
The inductive invariant `IInv` is `ShapeInv` (types), `TurnsInv` and `RequestInv`. `TurnsInv` says,
at any point of the pass, that no turn is empty, turns alternate, the parts are in order, each
comes from a message already taken, in its role's turn (`FromMessages`), and each part of a message
taken is there (`AllSaid`). `Grown` states what appending a turn and merging into the last one have
in common, so that one argument serves both (`GrownInOrder`, `GrownSays`); `Lists` states that the
parts of a message are those of a set of places, in order, for content, calls and results alike.
`TurnsKeepTheConversation` follows with `MeantIs`. `ResultsArePaired`: a result comes from
a tool's message, the call it answers from an assistant's before it; both are in some turn
by `AllSaid`, the roles differ and the order of places is the order of turns, so the call's turn
is the earlier one. `BudgetHasRoom` is `Asked`, the arithmetic of cap and budget for all integers.
`TypeCorrect` includes that cache marks are places of the conversation, for which the first
turn must not be empty.

**Only model-checked.** Liveness (`OpenIsProbed`, `HalfOpenIsResolved`,
`CoolingEnds`, `AlwaysReturns`, `StreamEnds`, `HangupTakesEffect`, `StopEnds`): fairness and
ENABLED are out of the prover's reach.

## 13. How the properties are kept honest

Each module holds, before a definition, the `Fault...` operators: the same
definition with a plausible bug (a test that leaves the new amount out, a rollback that is
skipped, a seat that is not given back, a try that reserves again). No
specification uses them. `mutants` in `PROJECT.json` says which property each of
them breaks when it takes the definition's place. Deadlock is checked in every
run.

The disagreements (`expect: violation`) each check one property that states what
a comment or a document says; TLC's trace is the counterexample. Others were met
while modelling and have no run. What the code does there is in the models; only no
property claims the contrary.

Limiter and router:

- a call that read the clock before the minute turned resets the newer bucket's
  counter, or the purge drops it, so more can be admitted in a bucket than its limit
  (`ratelimit.go:254`; 186-188 says overshooting is excluded). `NeverOverLimit` holds all the
  same: it is about what is left in the counter;
- a refund after the bucket has turned takes other requests' charges
  (`ratelimit.go:308`, against 297-298);
- a request about to be refused in a later window holds room in an earlier one
  until it is rolled back, and another request is refused for it (`ratelimit.go:265-270`);
- a late 5xx gives back the seat of a probe in flight, and a second probe is admitted
  beside it (`router.go:79`, against 99-101);
- a late 429 ends the quarantine of a refused credential (`router.go:267`, against 275);
- when the credential handed out last is itself in cooldown the rotation starts
  over at the head of the list (`router.go:224-230`);
- a late success of a call sent before the breaker opened closes it without a probe
  (`router.go:93`), where HAND-OFF.md:126-127 speaks of one half-open probe.

Streams:

- the goroutine that stamps `lastChunk` also waits for the caller, so a slow caller gets a
  live provider cut off (`proxy.go:867`, against 826-827);
- a stream broken off half way is refunded in full (`proxy.go:875`, against 676);
- Anthropic's `error` event is skipped, and the end of the body after it settles as a
  clean end; of Gemini every end of the body is followed by a made-up sentinel;
- a tool call without arguments has `{}` in a buffered answer and nothing in a stream
  (`anthropic.go:630`).

Reload, shutdown and boot:

- a request loads configuration, router and registry one by one, so it need not see
  "either the old or the new snapshot in full" (`proxy.go:107-108`); a model that the
  configuration has and the router has not yet gives 429 rather than 404;
- a request between `proxy.go:189` and 193 when `Shutdown` has timed out is not waited for
  and may make the wait group panic; a SIGHUP during the drain kills the process
  (`main.go:175`);
- the check and the writes of `Init` are not one step: what an operator or another init
  saves between them is overwritten (`init.go:60-76`);
- the probe loop's backoff passes its cap once (`main.go:256`); it probes every model with
  every provider's adapter, the last answer stands, and survives reloads.

Translators, loader and listing:

- results without an id of a function that was called twice are all paired with its last
  call (`anthropic.go:312`); calls that stand in a message of another role than an assistant's are
  recorded for pairing (`anthropic.go:309-315`) but not sent, so their results answer nothing; an empty text part becomes a blank block; a budget below
  Anthropic's minimum is sent as it is; a caller's own cache marks are lost in the conversion
  (`anthropic.go:431-432` says they are left alone);
- Gemini's translator ignores the model's `max-output`, and takes `developer` messages for the
  user's;
- a remote image passes the media gate and is then dropped by both translators;
- a limit that comes before `kind:` in an entry is refused; a model without `providers:` is
  accepted without slots;
- a provider named like a compiled one is served by that one's protocol whatever its adapter
  (`registry.go:92-93` says so), and names that differ only in case share one definition;
- video may be advertised for a window that cannot hold its flat estimate.

## 14. Not modelled

- Admission: `SetMode` (`proxy.go:135`) has no caller, so the mode stays normal and
  the semaphore is never used. `Server.Shutdown` has no caller either: main shuts
  the HTTP server down itself.
- Of the adapters: tool declarations and tool choice, response formats, embeddings
  (Gemini's batches included), speech and transcription, the OpenAI adapter's
  rewriting of parameters, reasoning blocks and streams it forwards as they are. Each
  maps fields one by one, without state between them.
- The HTTP client, status codes and retry-after headers, the discovery of models
  (`registry.go:258-436`), which nothing calls while the gateway serves.
- The grammar of YAML and of `keys.env`, the size limits and multipart parsing of
  bodies, and the signature check, which reads one request and the configuration.
- Error and header formatting, hashing, tracing, the latency buffer, version: pure
  functions or formatting with no property beyond their own text.
- The probe loop's backoff (`main.go:217-262`): one goroutine that logs; what it
  records for the listing is an action of `Catalog`.
