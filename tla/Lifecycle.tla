------------------------------- MODULE Lifecycle ------------------------------
(***************************************************************************)
(* The life of the serving process: requests from the server's handler     *)
(* into Dispatch and out of it (internal/server, internal/proxy), reloads  *)
(* that swap the configuration under them, and the shutdown that waits for *)
(* them (cmd/llm-pico/main.go).                                            *)
(*                                                                         *)
(* A generation is what one load of the configuration produced.  Its three *)
(* parts, the registry, the configuration and the routes, are stored, and  *)
(* loaded, one after another.                                              *)
(***************************************************************************)
EXTENDS Integers, FiniteSets

CONSTANTS
  Requests,
  MaxReloads,   \* bound: reloads
  Revoked,      \* generations without the callers' key
  Withdrawn     \* generations without the model they ask for

Generations == 0..MaxReloads

ASSUME LifecycleAssumption ==
  /\ IsFiniteSet(Requests)
  /\ MaxReloads \in Nat /\ Revoked \subseteq Nat /\ Withdrawn \subseteq Nat

VARIABLES
  newest,     \* generation of the reload under way, or of the last one
  storing,    \* the pointer it stores next, "none" when it has returned
  registry, config, routes,   \* generations of what the service points to
  keySet,     \* generation whose hashed keys are cached, Unset for none
  proc,       \* main: "serving", "stopping", "draining", "exited"
  draining,   \* the service refuses new requests
  drain,      \* the goroutine of BeginDrain: what it waits for
  woken,      \* a wait group has reached zero since it began to wait for it
  verdict,    \* how the process ended
  inFlight, streamWG,   \* the wait groups
  pc,         \* where each request's handler is
  stream,     \* its copy goroutine: "none", "running", "over"
  seen,       \* the generations each request has loaded
  began,      \* history: the last reload that had returned when it came
  covered     \* history: requests counted before the drain waited for streams

snapshot == << newest, storing, registry, config, routes >>
shutdown == << proc, draining, drain, woken, verdict >>
groups == << inFlight, streamWG >>
requests == << pc, stream, seen >>
history == << began, covered >>
vars == << snapshot, keySet, shutdown, groups, requests, history >>

Unset == -1
Parts == { "auth", "model", "config", "routes", "registry" }

(* The handler's way, in the order of the code.                            *)
InDispatch == { "counted", "configured", "routed", "calling", "returning" }
Handled ==
  { "arrived", "keyed", "hashing", "known", "found", "entered", "relaying" }
    \cup InDispatch

Init ==
  /\ newest = 0 /\ storing = "none"
  /\ registry = 0 /\ config = 0 /\ routes = 0
  /\ keySet = Unset
  /\ proc = "serving" /\ draining = FALSE
  /\ drain = "off" /\ woken = FALSE /\ verdict = "none"
  /\ inFlight = 0 /\ streamWG = 0
  /\ pc = [r \in Requests |-> "idle"]
  /\ stream = [r \in Requests |-> "none"]
  /\ seen = [r \in Requests |-> [p \in Parts |-> Unset]]
  /\ began = [r \in Requests |-> 0]
  /\ covered = {}

Go(r, from, to) ==
  /\ pc[r] = from /\ proc # "exited"
  /\ pc' = [pc EXCEPT ![r] = to]

Load(r, part, generation) ==
  seen' = [seen EXCEPT ![r][part] = generation]

-----------------------------------------------------------------------------
(* Reload, one store after another.  It may still be running while the     *)
(* process stops.                                                          *)

StoreRegistry ==
  /\ proc # "exited" /\ storing = "none" /\ newest < MaxReloads
  /\ newest' = newest + 1
  /\ registry' = newest' /\ storing' = "config"
  /\ UNCHANGED << config, routes, keySet, shutdown, groups, requests, history >>

StoreConfig ==
  /\ proc # "exited" /\ storing = "config"
  /\ config' = newest /\ storing' = "routes"
  /\ UNCHANGED << newest, registry, routes, keySet, shutdown, groups, requests,
                  history >>

(* A fault to be caught: the routes are built from the old configuration.  *)
FaultStoreRoutes ==
  /\ proc # "exited" /\ storing = "routes"
  /\ routes' = newest - 1 /\ storing' = "none"
  /\ UNCHANGED << newest, registry, config, keySet, shutdown, groups, requests,
                  history >>

StoreRoutes ==
  /\ proc # "exited" /\ storing = "routes"
  /\ routes' = newest /\ storing' = "none"
  /\ UNCHANGED << newest, registry, config, keySet, shutdown, groups, requests,
                  history >>

-----------------------------------------------------------------------------
(* The server's handler.                                                   *)

(* A connection accepted before the listener closed may still bring one:   *)
(* Shutdown outlasts the time that a header may take.                      *)
Arrive(r) ==
  /\ proc \in { "serving", "stopping" }
  /\ Go(r, "idle", "arrived")
  /\ began' = [began EXCEPT ![r] = IF storing = "none" THEN newest
                                  ELSE newest - 1]
  /\ UNCHANGED << snapshot, keySet, shutdown, groups, stream, seen, covered >>

ResolveIdentity(r) ==
  /\ Go(r, "arrived", "keyed")
  /\ Load(r, "auth", config)
  /\ UNCHANGED << snapshot, keySet, shutdown, groups, stream, history >>

(* A fault to be caught: a key set once cached is used ever after.         *)
FaultIsCached(r) == keySet # Unset

(* The cached set serves the snapshot it was built from and no other.      *)
IsCached(r) == keySet = seen[r]["auth"]

(* The caller's key against the set of one generation.                     *)
CheckKey(r, from, generation) ==
  \/ generation \notin Revoked /\ Go(r, from, "known")
  \/ generation \in Revoked /\ Go(r, from, "over")

Authenticate(r) ==
  /\ \/ IsCached(r) /\ CheckKey(r, "keyed", keySet)
     \/ ~ IsCached(r) /\ Go(r, "keyed", "hashing")
  /\ UNCHANGED << snapshot, keySet, shutdown, groups, stream, seen, history >>

(* The request has built a set of its own, and caches it.                  *)
StoreKeySet(r) ==
  /\ CheckKey(r, "hashing", seen[r]["auth"])
  /\ keySet' = seen[r]["auth"]
  /\ UNCHANGED << snapshot, shutdown, groups, stream, seen, history >>

(* Body and signature are read in between; they may take their time.       *)
FindModel(r) ==
  /\ \/ config \notin Withdrawn /\ Go(r, "known", "found")
     \/ config \in Withdrawn /\ Go(r, "known", "over")
  /\ Load(r, "model", config)
  /\ UNCHANGED << snapshot, keySet, shutdown, groups, stream, history >>

-----------------------------------------------------------------------------
(* Dispatch.                                                               *)

CheckDraining(r) ==
  /\ \/ ~ draining /\ Go(r, "found", "entered")
     \/ draining /\ Go(r, "found", "over")
  /\ UNCHANGED << snapshot, keySet, shutdown, groups, stream, seen, history >>

Count(r) ==
  /\ Go(r, "entered", "counted")
  /\ inFlight' = inFlight + 1
  /\ covered' = IF drain \in { "off", "requests" } /\ ~ woken
                  THEN covered \cup { r } ELSE covered
  /\ UNCHANGED << snapshot, keySet, shutdown, streamWG, stream, seen, began >>

LoadConfig(r) ==
  /\ \/ config \notin Withdrawn /\ Go(r, "counted", "configured")
     \/ config \in Withdrawn /\ Go(r, "counted", "returning")
  /\ Load(r, "config", config)
  /\ UNCHANGED << snapshot, keySet, shutdown, groups, stream, history >>

LoadRoutes(r) ==
  /\ Go(r, "configured", "routed")
  /\ Load(r, "routes", routes)
  /\ UNCHANGED << snapshot, keySet, shutdown, groups, stream, history >>

(* The routes may not know the model that the configuration has.           *)
ResolveFails(r) ==
  /\ seen[r]["routes"] \in Withdrawn
  /\ Go(r, "routed", "returning")
  /\ UNCHANGED << snapshot, keySet, shutdown, groups, stream, seen, history >>

Attempt(r) ==
  /\ seen[r]["routes"] \notin Withdrawn
  /\ Go(r, "routed", "calling")
  /\ Load(r, "registry", registry)
  /\ UNCHANGED << snapshot, keySet, shutdown, groups, stream, history >>

(* Another attempt, an answer, or the last failure.                        *)
CallEnds(r) ==
  /\ Go(r, "calling", "routed") \/ Go(r, "calling", "returning")
  /\ UNCHANGED << snapshot, keySet, shutdown, groups, stream, seen, history >>

(* A fault to be caught: the stream is not counted.                        *)
FaultStreams(r) ==
  /\ Go(r, "calling", "returning")
  /\ stream' = [stream EXCEPT ![r] = "running"]
  /\ UNCHANGED << snapshot, keySet, shutdown, groups, seen, history >>

Streams(r) ==
  /\ Go(r, "calling", "returning")
  /\ stream' = [stream EXCEPT ![r] = "running"]
  /\ streamWG' = streamWG + 1
  /\ UNCHANGED << snapshot, keySet, shutdown, inFlight, seen, history >>

Return(r) ==
  /\ Go(r, "returning", "relaying")
  /\ inFlight' = inFlight - 1
  /\ woken' = (woken \/ (drain = "requests" /\ inFlight' = 0))
  /\ UNCHANGED << snapshot, keySet, proc, draining, drain, verdict, streamWG,
                  stream, seen, history >>

(* The body has been relayed, or the caller has gone.                      *)
HandlerEnds(r) ==
  /\ Go(r, "relaying", "over")
  /\ UNCHANGED << snapshot, keySet, shutdown, groups, stream, seen, history >>

(* The copy goroutine has closed the pipe and settled.                     *)
StreamEnds(r) ==
  /\ stream[r] = "running" /\ proc # "exited"
  /\ stream' = [stream EXCEPT ![r] = "over"]
  /\ streamWG' = streamWG - 1
  /\ woken' = (woken \/ (drain = "streams" /\ streamWG' = 0))
  /\ UNCHANGED << snapshot, keySet, proc, draining, drain, verdict, inFlight,
                  pc, seen, history >>

-----------------------------------------------------------------------------
(* The end of the process.                                                 *)

Exit(how) ==
  /\ proc' = "exited"
  /\ verdict' = how

(* SIGINT or SIGTERM.  The listener closes with it.                        *)
Stop ==
  /\ proc = "serving"
  /\ proc' = "stopping"
  /\ UNCHANGED << snapshot, keySet, draining, drain, woken, verdict, groups,
                  requests, history >>

ListenFails ==
  /\ proc = "serving" /\ Exit("failed")
  /\ UNCHANGED << snapshot, keySet, draining, drain, woken, groups, requests,
                  history >>

(* The server's Shutdown waits for the handlers, up to its timeout; then   *)
(* the service drains.                                                     *)
BeginDrain ==
  /\ proc = "stopping"
  /\ proc' = "draining"
  /\ draining' = TRUE
  /\ drain' = "requests"
  /\ UNCHANGED << snapshot, keySet, woken, verdict, groups, requests, history >>

ShutdownEnds ==
  /\ \A r \in Requests : pc[r] \notin Handled
  /\ BeginDrain

ShutdownTimesOut ==
  /\ \E r \in Requests : pc[r] \in Handled
  /\ BeginDrain

(* A fault to be caught: the streams are waited for first.                 *)
FaultWaitReturns ==
  /\ proc = "draining"
  /\ \/ drain = "requests" /\ streamWG = 0 /\ drain' = "streams"
     \/ drain = "streams" /\ inFlight = 0 /\ drain' = "done"
  /\ woken' = FALSE
  /\ UNCHANGED << snapshot, keySet, proc, draining, verdict, groups, requests,
                  history >>

WaitReturns ==
  /\ proc = "draining"
  /\ \/ drain = "requests" /\ inFlight = 0 /\ drain' = "streams"
     \/ drain = "streams" /\ streamWG = 0 /\ drain' = "done"
  /\ woken' = FALSE
  /\ UNCHANGED << snapshot, keySet, proc, draining, verdict, groups, requests,
                  history >>

(* A wait group that is entered again before the waiter it has woken has   *)
(* returned panics.                                                        *)
WaitPanics ==
  /\ proc = "draining" /\ woken
  /\ \/ drain = "requests" /\ inFlight > 0
     \/ drain = "streams" /\ streamWG > 0
  /\ Exit("panic")
  /\ UNCHANGED << snapshot, keySet, draining, drain, woken, groups, requests,
                  history >>

Drained ==
  /\ proc = "draining" /\ drain = "done"
  /\ Exit("drained")
  /\ UNCHANGED << snapshot, keySet, draining, drain, woken, groups, requests,
                  history >>

(* A fault to be caught: the drain waits without a deadline.               *)
FaultDrainTimesOut == FALSE /\ UNCHANGED vars

DrainTimesOut ==
  /\ proc = "draining" /\ drain # "done"
  /\ Exit("timeout")
  /\ UNCHANGED << snapshot, keySet, draining, drain, woken, groups, requests,
                  history >>

(* Once signal.Stop has been called a SIGHUP has its default effect.       *)
HangupKills ==
  /\ proc \in { "stopping", "draining" }
  /\ Exit("killed")
  /\ UNCHANGED << snapshot, keySet, draining, drain, woken, groups, requests,
                  history >>

Exited == proc = "exited" /\ UNCHANGED vars

-----------------------------------------------------------------------------
Handle(r) ==
  \/ Arrive(r) \/ ResolveIdentity(r) \/ Authenticate(r) \/ StoreKeySet(r)
  \/ FindModel(r) \/ CheckDraining(r) \/ Count(r) \/ LoadConfig(r)
  \/ LoadRoutes(r) \/ ResolveFails(r) \/ Attempt(r) \/ CallEnds(r) \/ Streams(r)
  \/ Return(r) \/ HandlerEnds(r) \/ StreamEnds(r)

Reload == StoreRegistry \/ StoreConfig \/ StoreRoutes

Shutdown ==
  \/ ShutdownEnds \/ ShutdownTimesOut \/ WaitReturns \/ WaitPanics \/ Drained
  \/ DrainTimesOut

Next ==
  \/ \E r \in Requests : Handle(r)
  \/ Reload \/ Shutdown
  \/ Stop \/ ListenFails \/ HangupKills \/ Exited

(* The main goroutine and its timers run.  Requests, providers and callers *)
(* owe nothing.                                                            *)
Spec == Init /\ [][Next]_vars /\ WF_vars(Shutdown)

-----------------------------------------------------------------------------
(* The service, the requests and the shutdown keep their types, and the    *)
(* wait groups count what they are for.                                    *)
TypeOK ==
  /\ newest \in Generations /\ registry \in Generations
  /\ storing \in { "none", "config", "routes" }
  /\ config \in Generations /\ routes \in Generations
  /\ keySet \in Generations \cup { Unset }
  /\ proc \in { "serving", "stopping", "draining", "exited" }
  /\ draining \in BOOLEAN /\ woken \in BOOLEAN
  /\ drain \in { "off", "requests", "streams", "done" }
  /\ verdict \in { "none", "failed", "drained", "timeout", "panic", "killed" }
  /\ pc \in [Requests -> Handled \cup { "idle", "over" }]
  /\ stream \in [Requests -> { "none", "running", "over" }]
  /\ seen \in [Requests -> [Parts -> Generations \cup { Unset }]]
  /\ began \in [Requests -> Generations]
  /\ covered \subseteq Requests
  /\ inFlight = Cardinality({ r \in Requests : pc[r] \in InDispatch })
  /\ streamWG = Cardinality({ r \in Requests : stream[r] = "running" })

(* Whatever a request loads, in the handler, at the start of Dispatch and  *)
(* on every attempt, is no older than the reload that had returned when    *)
(* the request came in (proxy.go:107-117).                                 *)
NeverStale ==
  \A r \in Requests : \A p \in Parts :
    seen[r][p] # Unset => seen[r][p] >= began[r]

(* A request gets past the key check only if some configuration in force   *)
(* since it came in has its key: the cached key set never outlives the     *)
(* reload that revoked it, whoever rebuilds it (server.go:285-297).        *)
RevokedKeyRefused ==
  \A r \in Requests :
    pc[r] \notin { "idle", "arrived", "keyed", "hashing", "over" } =>
      \E g \in began[r]..newest : g \notin Revoked

(* When the drain reports success, every request counted before it had     *)
(* finished waiting for requests is out of Dispatch, and the stream it may *)
(* have started there is over and settled (proxy.go:137-153).              *)
DrainCoversCounted ==
  verdict = "drained" =>
    \A r \in covered : pc[r] \notin InDispatch /\ stream[r] # "running"

(* A stopped process ends, whatever hangs upstream (main.go:175-190).      *)
StopEnds == proc = "stopping" ~> proc = "exited"
=============================================================================
