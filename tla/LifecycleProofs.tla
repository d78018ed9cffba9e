--------------------------- MODULE LifecycleProofs ---------------------------
(***************************************************************************)
(* Theorems about Lifecycle, for any finite number of requests and any     *)
(* number of reloads, whatever keys and models each of them takes away.    *)
(***************************************************************************)
EXTENDS Lifecycle, FiniteSetTheorems, TLAPS

-----------------------------------------------------------------------------
(* Counting.  A wait group's counter follows the requests it counts.       *)

Dispatched == { r \in Requests : pc[r] \in InDispatch }
Streaming == { r \in Requests : stream[r] = "running" }

(* The sets that are counted are finite, so their numbers are naturals.    *)
LEMMA CountsAreNat ==
  TypeOK => /\ IsFiniteSet(Dispatched) /\ inFlight = Cardinality(Dispatched)
            /\ IsFiniteSet(Streaming) /\ streamWG = Cardinality(Streaming)
            /\ inFlight \in Nat /\ streamWG \in Nat
<1>1. IsFiniteSet(Dispatched) /\ IsFiniteSet(Streaming)
  <2>1. Dispatched \in SUBSET Requests /\ Streaming \in SUBSET Requests
    BY DEF Dispatched, Streaming
  <2>. QED
    BY <2>1, FS_Subset, LifecycleAssumption
<1>2. Cardinality(Dispatched) \in Nat /\ Cardinality(Streaming) \in Nat
  BY <1>1, FS_CardinalityType
<1>. QED
  BY <1>1, <1>2 DEF TypeOK, Dispatched, Streaming

(* A request that moves within Dispatch, or outside it, changes no count.  *)
LEMMA DispatchedStays ==
  ASSUME TypeOK, NEW r \in Requests, NEW to,
         pc' = [pc EXCEPT ![r] = to],
         pc[r] \in InDispatch <=> to \in InDispatch
  PROVE  Cardinality(Dispatched') = inFlight
<1>1. Dispatched' = Dispatched
  BY DEF TypeOK, Dispatched
<1>. QED
  BY <1>1 DEF TypeOK, Dispatched

(* One that enters is counted once more.                                   *)
LEMMA DispatchedEnters ==
  ASSUME TypeOK, NEW r \in Requests, NEW to,
         pc' = [pc EXCEPT ![r] = to],
         pc[r] \notin InDispatch, to \in InDispatch
  PROVE  Cardinality(Dispatched') = inFlight + 1
<1>1. Dispatched' = Dispatched \cup { r } /\ r \notin Dispatched
  BY DEF TypeOK, Dispatched
<1>2. IsFiniteSet(Dispatched) /\ inFlight = Cardinality(Dispatched)
  BY CountsAreNat
<1>. QED
  BY <1>1, <1>2, FS_AddElement

(* One that leaves is counted once less.                                   *)
LEMMA DispatchedLeaves ==
  ASSUME TypeOK, NEW r \in Requests, NEW to,
         pc' = [pc EXCEPT ![r] = to],
         pc[r] \in InDispatch, to \notin InDispatch
  PROVE  Cardinality(Dispatched') = inFlight - 1
<1>1. Dispatched' = Dispatched \ { r } /\ r \in Dispatched
  BY DEF TypeOK, Dispatched
<1>2. IsFiniteSet(Dispatched) /\ inFlight = Cardinality(Dispatched)
  BY CountsAreNat
<1>. QED
  BY <1>1, <1>2, FS_RemoveElement

(* The same for a stream that starts.                                      *)
LEMMA StreamStarts ==
  ASSUME TypeOK, NEW r \in Requests, stream[r] # "running",
         stream' = [stream EXCEPT ![r] = "running"]
  PROVE  Cardinality(Streaming') = streamWG + 1
<1>1. Streaming' = Streaming \cup { r } /\ r \notin Streaming
  BY DEF TypeOK, Streaming
<1>2. IsFiniteSet(Streaming) /\ streamWG = Cardinality(Streaming)
  BY CountsAreNat
<1>. QED
  BY <1>1, <1>2, FS_AddElement

(* And for one that is over.                                               *)
LEMMA StreamStops ==
  ASSUME TypeOK, NEW r \in Requests, stream[r] = "running",
         stream' = [stream EXCEPT ![r] = "over"]
  PROVE  Cardinality(Streaming') = streamWG - 1
<1>1. Streaming' = Streaming \ { r } /\ r \in Streaming
  BY DEF TypeOK, Streaming
<1>2. IsFiniteSet(Streaming) /\ streamWG = Cardinality(Streaming)
  BY CountsAreNat
<1>. QED
  BY <1>1, <1>2, FS_RemoveElement

-----------------------------------------------------------------------------
(* Types.  They are inductive together with the order of the stores of a   *)
(* reload and with what a request cannot have yet.                         *)

SnapshotOrder ==
  /\ registry = newest
  /\ config = IF storing = "config" THEN newest - 1 ELSE newest
  /\ routes = IF storing = "none" THEN newest ELSE newest - 1
  /\ storing # "none" => newest > 0

NoStreamYet ==
  \A r \in Requests :
    pc[r] \notin { "returning", "relaying", "over" } => stream[r] = "none"

(* Only a reload changes what the service points to.                       *)
LEMMA OnlyReloadStores ==
  [Next]_vars => Reload \/ UNCHANGED snapshot
<1>1. ASSUME NEW r \in Requests, Handle(r)
      PROVE  UNCHANGED snapshot
  BY <1>1 DEF Handle, Arrive, ResolveIdentity, Authenticate, StoreKeySet,
     CheckKey, FindModel, CheckDraining, Count, LoadConfig, LoadRoutes,
     ResolveFails, Attempt, CallEnds, Streams, Return, HandlerEnds, StreamEnds
<1>2. ASSUME Shutdown \/ Stop \/ ListenFails \/ HangupKills \/ Exited
      PROVE  UNCHANGED snapshot
  BY <1>2 DEF Shutdown, ShutdownEnds, ShutdownTimesOut, BeginDrain,
     WaitReturns, WaitPanics, Drained, DrainTimesOut, Stop, ListenFails,
     HangupKills, Exited, vars
<1>. QED
  BY <1>1, <1>2 DEF Next, vars

(* A reload stores in one order, each store after the one before.          *)
LEMMA NextSnapshotOrder ==
  TypeOK /\ SnapshotOrder /\ [Next]_vars => SnapshotOrder'
<1>. SUFFICES ASSUME TypeOK, SnapshotOrder, [Next]_vars
              PROVE  SnapshotOrder'
  OBVIOUS
<1>1. CASE UNCHANGED snapshot
  BY <1>1 DEF SnapshotOrder, snapshot
<1>2. CASE StoreRegistry
  BY <1>2 DEF SnapshotOrder, TypeOK, Generations, StoreRegistry
<1>3. CASE StoreConfig
  BY <1>3 DEF SnapshotOrder, TypeOK, Generations, StoreConfig
<1>4. CASE StoreRoutes
  BY <1>4 DEF SnapshotOrder, TypeOK, Generations, StoreRoutes
<1>. QED
  BY <1>1, <1>2, <1>3, <1>4, OnlyReloadStores DEF Reload

(* A request that has not been through its call has no stream.             *)
LEMMA NextNoStreamYet ==
  TypeOK /\ NoStreamYet /\ [Next]_vars => NoStreamYet'
<1>. SUFFICES ASSUME TypeOK, NoStreamYet, [Next]_vars
              PROVE  NoStreamYet'
  OBVIOUS
<1>. USE DEF TypeOK, NoStreamYet
<1>1. CASE UNCHANGED << pc, stream >>
  BY <1>1
<1>2. ASSUME NEW r \in Requests, NEW from, NEW to, Go(r, from, to),
             from \notin { "returning", "relaying", "over" }, UNCHANGED stream
      PROVE  NoStreamYet'
  BY <1>2 DEF Go
<1>3. ASSUME NEW r \in Requests,
             \/ Arrive(r) \/ ResolveIdentity(r) \/ Authenticate(r)
             \/ StoreKeySet(r) \/ FindModel(r) \/ CheckDraining(r)
             \/ Count(r) \/ LoadConfig(r)
             \/ LoadRoutes(r) \/ ResolveFails(r) \/ Attempt(r) \/ CallEnds(r)
      PROVE  NoStreamYet'
  BY <1>2, <1>3 DEF Arrive, ResolveIdentity, Authenticate, StoreKeySet,
     CheckKey, FindModel, CheckDraining, Count, LoadConfig, LoadRoutes,
     ResolveFails, Attempt, CallEnds
<1>4. ASSUME NEW r \in Requests,
             Streams(r) \/ Return(r) \/ HandlerEnds(r) \/ StreamEnds(r)
      PROVE  NoStreamYet'
  BY <1>4 DEF Streams, Return, HandlerEnds, StreamEnds, Go
<1>5. CASE Reload
  BY <1>1, <1>5 DEF Reload, StoreRegistry, StoreConfig, StoreRoutes, requests
<1>6. CASE Shutdown \/ Stop \/ ListenFails \/ HangupKills \/ Exited
  BY <1>1, <1>6 DEF Shutdown, ShutdownEnds, ShutdownTimesOut, BeginDrain,
     WaitReturns, WaitPanics, Drained, DrainTimesOut, Stop, ListenFails,
     HangupKills, Exited, vars, requests
<1>. QED
  BY <1>1, <1>3, <1>4, <1>5, <1>6 DEF Next, Handle, vars, requests

(* The types of a step that moves one request, from the move and from the  *)
(* counts it leads to.                                                     *)
LEMMA MoveTypeOK ==
  ASSUME TypeOK, NEW r \in Requests, NEW from, NEW to \in Handled \cup { "over" },
         Go(r, from, to), UNCHANGED << snapshot, proc, draining, drain, verdict >>,
         keySet' \in Generations \cup { Unset }, woken' \in BOOLEAN,
         stream' \in [Requests -> { "none", "running", "over" }],
         seen' \in [Requests -> [Parts -> Generations \cup { Unset }]],
         began' \in [Requests -> Generations], covered' \subseteq Requests,
         inFlight' = Cardinality(Dispatched'),
         streamWG' = Cardinality(Streaming')
  PROVE  TypeOK'
<1>1. pc' \in [Requests -> Handled \cup { "idle", "over" }]
  BY DEF TypeOK, Go
<1>. QED
  BY <1>1 DEF TypeOK, snapshot, Dispatched, Streaming

LEMMA NextTypeOK ==
  TypeOK /\ SnapshotOrder /\ NoStreamYet /\ [Next]_vars => TypeOK'
<1>. SUFFICES ASSUME TypeOK, SnapshotOrder, NoStreamYet, [Next]_vars
              PROVE  TypeOK'
  OBVIOUS
<1>. USE LifecycleAssumption
<1>1. CASE Reload
  <2>1. UNCHANGED << keySet, shutdown, groups, requests, history >>
    BY <1>1 DEF Reload, StoreRegistry, StoreConfig, StoreRoutes
  <2>2. /\ newest' \in Generations /\ registry' \in Generations
        /\ config' \in Generations /\ routes' \in Generations
        /\ storing' \in { "none", "config", "routes" }
    BY <1>1 DEF Reload, StoreRegistry, StoreConfig, StoreRoutes, TypeOK,
       Generations
  <2>. QED
    BY <2>1, <2>2 DEF TypeOK, shutdown, groups, requests, history
<1>2. ASSUME NEW r \in Requests,
             \/ Arrive(r) \/ ResolveIdentity(r) \/ Authenticate(r) \/ StoreKeySet(r)
             \/ FindModel(r)
             \/ CheckDraining(r) \/ HandlerEnds(r) \/ LoadConfig(r)
             \/ LoadRoutes(r) \/ ResolveFails(r) \/ Attempt(r) \/ CallEnds(r)
      PROVE  TypeOK'
  <2>1. PICK from, to :
          /\ Go(r, from, to) /\ to \in Handled \cup { "over" }
          /\ from \in InDispatch <=> to \in InDispatch
    BY <1>2 DEF Arrive, ResolveIdentity, Authenticate, StoreKeySet, CheckKey,
       FindModel, CheckDraining, HandlerEnds, LoadConfig, LoadRoutes,
       ResolveFails, Attempt, CallEnds, Handled, InDispatch
  <2>2. /\ UNCHANGED << snapshot, shutdown, groups, stream, covered >>
        /\ keySet' \in Generations \cup { Unset }
        /\ seen' \in [Requests -> [Parts -> Generations \cup { Unset }]]
    <3>1. /\ seen[r]["auth"] \in Generations \cup { Unset }
          /\ config \in Generations \cup { Unset }
          /\ routes \in Generations \cup { Unset }
          /\ registry \in Generations \cup { Unset }
      BY DEF TypeOK, Parts
    <3>2. keySet' \in { keySet, seen[r]["auth"] }
      BY <1>2 DEF Arrive, ResolveIdentity, Authenticate,
         StoreKeySet, CheckKey, FindModel, CheckDraining, HandlerEnds,
         LoadConfig, LoadRoutes, ResolveFails, Attempt, CallEnds
    <3>3. \/ UNCHANGED seen
          \/ \E part \in Parts, g \in Generations : Load(r, part, g)
      BY <1>2 DEF Arrive, ResolveIdentity, Authenticate, StoreKeySet,
         CheckKey, FindModel, CheckDraining, HandlerEnds, LoadConfig,
         LoadRoutes, ResolveFails, Attempt, CallEnds, TypeOK, Parts
    <3>4. seen' \in [Requests -> [Parts -> Generations \cup { Unset }]]
      <4>1. CASE UNCHANGED seen
        BY <4>1 DEF TypeOK
      <4>2. ASSUME NEW part \in Parts, NEW g \in Generations, Load(r, part, g)
            PROVE  seen' \in [Requests -> [Parts -> Generations \cup { Unset }]]
        <5>1. [seen[r] EXCEPT ![part] = g] \in [Parts -> Generations \cup { Unset }]
          BY DEF TypeOK
        <5>. QED
          BY <4>2, <5>1 DEF Load, TypeOK
      <4>. QED
        BY <3>3, <4>1, <4>2
    <3>5. UNCHANGED << snapshot, shutdown, groups, stream, covered >>
      BY <1>2 DEF Arrive, ResolveIdentity, Authenticate, StoreKeySet,
         CheckKey, FindModel, CheckDraining, HandlerEnds, LoadConfig,
         LoadRoutes, ResolveFails, Attempt, CallEnds, history
    <3>. QED
      BY <3>1, <3>2, <3>4, <3>5 DEF TypeOK
  <2>3. began' \in [Requests -> Generations]
    <3>1. CASE Arrive(r)
      <4>1. (IF storing = "none" THEN newest ELSE newest - 1) \in Generations
        BY DEF TypeOK, SnapshotOrder, Generations
      <4>. QED
        BY <3>1, <4>1 DEF Arrive, TypeOK
    <3>2. CASE ~ Arrive(r)
      BY <1>2, <3>2 DEF ResolveIdentity, Authenticate, StoreKeySet, CheckKey,
         FindModel, CheckDraining, HandlerEnds, LoadConfig, LoadRoutes,
         ResolveFails, Attempt, CallEnds, history, TypeOK
    <3>. QED
      BY <3>1, <3>2
  <2>4. inFlight' = Cardinality(Dispatched')
    BY <2>1, <2>2, DispatchedStays DEF Go, groups
  <2>5. streamWG' = Cardinality(Streaming')
    BY <2>2 DEF TypeOK, groups, Streaming
  <2>. QED
    BY <2>1, <2>2, <2>3, <2>4, <2>5, MoveTypeOK DEF TypeOK, shutdown
<1>3. ASSUME NEW r \in Requests, Count(r)
      PROVE  TypeOK'
  <2>1. Go(r, "entered", "counted")
    BY <1>3 DEF Count
  <2>2. inFlight' = Cardinality(Dispatched')
    BY <1>3, <2>1, DispatchedEnters DEF Count, Go, InDispatch
  <2>3. streamWG' = Cardinality(Streaming')
    BY <1>3 DEF Count, TypeOK, Streaming
  <2>4. covered' \subseteq Requests
    BY <1>3 DEF Count, TypeOK
  <2>. QED
    BY <1>3, <2>1, <2>2, <2>3, <2>4, MoveTypeOK
    DEF Count, TypeOK, shutdown, Handled, InDispatch
<1>4. ASSUME NEW r \in Requests, Streams(r)
      PROVE  TypeOK'
  <2>1. Go(r, "calling", "returning") /\ stream[r] # "running"
    BY <1>4 DEF Streams, Go, NoStreamYet
  <2>2. inFlight' = Cardinality(Dispatched')
    BY <1>4, <2>1, DispatchedStays DEF Streams, Go, InDispatch
  <2>3. streamWG' = Cardinality(Streaming')
    BY <1>4, <2>1, StreamStarts DEF Streams
  <2>4. stream' \in [Requests -> { "none", "running", "over" }]
    BY <1>4 DEF Streams, TypeOK
  <2>. QED
    BY <1>4, <2>1, <2>2, <2>3, <2>4, MoveTypeOK
    DEF Streams, TypeOK, shutdown, history, Handled, InDispatch
<1>5. ASSUME NEW r \in Requests, Return(r)
      PROVE  TypeOK'
  <2>1. Go(r, "returning", "relaying")
    BY <1>5 DEF Return
  <2>2. inFlight' = Cardinality(Dispatched')
    BY <1>5, <2>1, DispatchedLeaves DEF Return, Go, InDispatch
  <2>3. streamWG' = Cardinality(Streaming')
    BY <1>5 DEF Return, TypeOK, Streaming
  <2>4. woken' \in BOOLEAN
    BY <1>5 DEF Return, TypeOK
  <2>. QED
    BY <1>5, <2>1, <2>2, <2>3, <2>4, MoveTypeOK
    DEF Return, TypeOK, history, Handled, InDispatch
<1>6. ASSUME NEW r \in Requests, StreamEnds(r)
      PROVE  TypeOK'
  <2>1. streamWG' = Cardinality(Streaming')
    BY <1>6, StreamStops DEF StreamEnds
  <2>2. stream' \in [Requests -> { "none", "running", "over" }]
    BY <1>6 DEF StreamEnds, TypeOK
  <2>3. woken' \in BOOLEAN
    BY <1>6 DEF StreamEnds, TypeOK
  <2>. QED
    BY <1>6, <2>1, <2>2, <2>3 DEF StreamEnds, TypeOK, Streaming, snapshot,
       history
<1>7. CASE Shutdown \/ Stop \/ ListenFails \/ HangupKills
  <2>1. UNCHANGED << snapshot, keySet, groups, requests, history >>
    BY <1>7 DEF Shutdown, ShutdownEnds, ShutdownTimesOut, BeginDrain,
       WaitReturns, WaitPanics, Drained, DrainTimesOut, Stop, ListenFails,
       HangupKills
  <2>2. /\ proc' \in { "serving", "stopping", "draining", "exited" }
        /\ draining' \in BOOLEAN /\ woken' \in BOOLEAN
        /\ drain' \in { "off", "requests", "streams", "done" }
        /\ verdict' \in { "none", "failed", "drained", "timeout", "panic",
                          "killed" }
    BY <1>7 DEF Shutdown, ShutdownEnds, ShutdownTimesOut, BeginDrain,
       WaitReturns, WaitPanics, Drained, DrainTimesOut, Stop, ListenFails,
       HangupKills, Exit, TypeOK
  <2>. QED
    BY <2>1, <2>2 DEF TypeOK, snapshot, groups, requests, history
<1>8. CASE UNCHANGED vars
  BY <1>8 DEF TypeOK, vars, snapshot, shutdown, groups, requests, history
<1>. QED
  BY <1>1, <1>2, <1>3, <1>4, <1>5, <1>6, <1>7, <1>8 DEF Next, Handle, Exited

LEMMA InitTypeOK == Init => TypeOK /\ SnapshotOrder /\ NoStreamYet
<1>. SUFFICES ASSUME Init PROVE TypeOK /\ SnapshotOrder /\ NoStreamYet
  OBVIOUS
<1>1. /\ Cardinality({ r \in Requests : pc[r] \in InDispatch }) = 0
      /\ Cardinality({ r \in Requests : stream[r] = "running" }) = 0
  <2>1. /\ { r \in Requests : pc[r] \in InDispatch } = {}
        /\ { r \in Requests : stream[r] = "running" } = {}
    BY DEF Init, InDispatch
  <2>. QED
    BY <2>1, FS_EmptySet
<1>2. 0 \in Generations
  BY LifecycleAssumption DEF Generations
<1>. QED
  BY <1>1, <1>2 DEF Init, TypeOK, SnapshotOrder, NoStreamYet

(* What the process holds, and what each request does, keep their types;   *)
(* each wait group counts exactly the requests, or the streams, that it is *)
(* for, however many come and go at once.                                  *)
THEOREM TypeCorrect == Spec => []TypeOK
<1>1. Spec => [](TypeOK /\ SnapshotOrder /\ NoStreamYet)
  BY InitTypeOK, NextTypeOK, NextSnapshotOrder, NextNoStreamYet, PTL DEF Spec
<1>. QED
  BY <1>1, PTL

-----------------------------------------------------------------------------
(* Reloads.                                                                *)

(* The last reload that has returned.                                      *)
Returned == IF storing = "none" THEN newest ELSE newest - 1

(* Nothing that can be loaded is older than the last reload that has       *)
(* returned, which no step makes older.                                    *)
LEMMA LoadsAreFresh ==
  ASSUME TypeOK, SnapshotOrder
  PROVE  /\ Returned \in Nat /\ Returned <= newest
         /\ Returned <= registry /\ registry <= newest
         /\ Returned <= config /\ config <= newest
         /\ Returned <= routes /\ routes <= newest
  BY LifecycleAssumption DEF TypeOK, SnapshotOrder, Returned, Generations

LEMMA ReturnedGrows ==
  ASSUME TypeOK, SnapshotOrder, [Next]_vars
  PROVE  newest <= newest' /\ Returned <= Returned'
<1>1. CASE Reload
  BY <1>1, LifecycleAssumption DEF Reload, StoreRegistry, StoreConfig,
     StoreRoutes, Returned, TypeOK, SnapshotOrder, Generations
<1>2. CASE UNCHANGED snapshot
  BY <1>2, LifecycleAssumption DEF snapshot, Returned, TypeOK, Generations
<1>. QED
  BY <1>1, <1>2, OnlyReloadStores

(* What a request has loaded is no older than the reload that had returned *)
(* when it came, nor newer than the newest; before it came it has loaded   *)
(* nothing, and with its key check ahead it has loaded what that needs.    *)
FreshInv ==
  \A r \in Requests :
    /\ began[r] <= Returned
    /\ pc[r] = "idle" => \A p \in Parts : seen[r][p] = Unset
    /\ pc[r] \in { "keyed", "hashing" } => seen[r]["auth"] # Unset
    /\ \A p \in Parts : seen[r][p] # Unset =>
         began[r] <= seen[r][p] /\ seen[r][p] <= newest

LEMMA InitFreshInv == Init => FreshInv
  BY DEF Init, FreshInv, Returned, Parts

LEMMA NextFreshInv ==
  TypeOK /\ SnapshotOrder /\ FreshInv /\ [Next]_vars => FreshInv'
<1>. SUFFICES ASSUME TypeOK, SnapshotOrder, FreshInv, [Next]_vars
              PROVE  FreshInv'
  OBVIOUS
<1>0. /\ newest <= newest' /\ Returned <= Returned'
      /\ newest \in Nat /\ newest' \in Nat /\ Returned \in Nat /\ Returned' \in Int
  <2>1. Returned \in Nat /\ newest \in Nat
    BY LoadsAreFresh, LifecycleAssumption DEF TypeOK, Generations
  <2>2. newest' \in { newest, newest + 1 }
    BY OnlyReloadStores
    DEF Reload, StoreRegistry, StoreConfig, StoreRoutes, snapshot
  <2>3. Returned' \in Int
    BY <2>1, <2>2 DEF Returned
  <2>4. newest <= newest' /\ Returned <= Returned'
    BY ReturnedGrows
  <2>. QED
    BY <2>1, <2>2, <2>3, <2>4
<1>1. ASSUME UNCHANGED << pc, seen, began >>
      PROVE  FreshInv'
  BY <1>0, <1>1, LifecycleAssumption DEF FreshInv, TypeOK, Generations, Unset,
     Parts
<1>2. ASSUME NEW r \in Requests, Arrive(r)
      PROVE  FreshInv'
  <2>1. began' = [began EXCEPT ![r] = Returned] /\ UNCHANGED << newest, storing, seen >>
    BY <1>2 DEF Arrive, Returned, snapshot
  <2>2. pc[r] = "idle" /\ pc' = [pc EXCEPT ![r] = "arrived"]
    BY <1>2 DEF Arrive, Go
  <2>. QED
    BY <1>0, <2>1, <2>2 DEF FreshInv, TypeOK, Returned
<1>3. ASSUME NEW r \in Requests, NEW from, NEW to, Go(r, from, to),
             to \notin { "idle", "keyed" }, to = "hashing" => from = "keyed",
             UNCHANGED << seen, began >>
      PROVE  FreshInv'
  BY <1>0, <1>3, LifecycleAssumption DEF FreshInv, TypeOK, Go, Generations,
     Unset, Parts
<1>4. ASSUME NEW r \in Requests, NEW from, NEW to, Go(r, from, to),
             \/ to \notin { "idle", "keyed", "hashing" }
             \/ to = "keyed" /\ seen'[r]["auth"] # Unset,
             NEW part \in Parts, NEW g \in Nat, Returned <= g, g <= newest,
             Load(r, part, g), UNCHANGED << newest, began >>
      PROVE  FreshInv'
  <2>1. ASSUME NEW q \in Requests, NEW p \in Parts, seen'[q][p] # Unset
        PROVE  began'[q] <= seen'[q][p] /\ seen'[q][p] <= newest'
    <3>1. CASE q = r /\ p = part
      <4>1. seen'[q][p] = g /\ began'[q] = began[q] /\ began[q] \in Nat
        BY <1>4, <3>1 DEF Load, TypeOK, Generations
      <4>2. began[q] <= Returned
        BY DEF FreshInv
      <4>. QED
        BY <1>0, <1>4, <4>1, <4>2
    <3>2. CASE ~ (q = r /\ p = part)
      <4>1. seen'[q][p] = seen[q][p]
        BY <1>4, <3>2 DEF Load, TypeOK
      <4>. QED
        BY <1>4, <2>1, <4>1 DEF FreshInv
    <3>. QED
      BY <3>1, <3>2
  <2>2. ASSUME NEW q \in Requests
        PROVE  /\ began'[q] <= Returned'
               /\ pc'[q] = "idle" => \A p \in Parts : seen'[q][p] = Unset
               /\ pc'[q] \in { "keyed", "hashing" } => seen'[q]["auth"] # Unset
    <3>1. began'[q] <= Returned'
      BY <1>0, <1>4 DEF FreshInv, TypeOK, Generations
    <3>2. q # r => seen'[q] = seen[q] /\ pc'[q] = pc[q]
      BY <1>4 DEF Load, Go, TypeOK
    <3>3. pc'[r] = to
      BY <1>4 DEF Go, TypeOK
    <3>. QED
      BY <1>4, <3>1, <3>2, <3>3 DEF FreshInv
  <2>. QED
    BY <2>1, <2>2 DEF FreshInv
<1>5. ASSUME NEW r \in Requests, ResolveIdentity(r)
      PROVE  FreshInv'
  <2>1. seen'[r]["auth"] = config
    BY <1>5 DEF ResolveIdentity, Load, TypeOK, Parts
  <2>2. config \in Nat
    BY LoadsAreFresh, LifecycleAssumption DEF TypeOK, Generations
  <2>3. UNCHANGED << newest, began >>
    BY <1>5 DEF ResolveIdentity, snapshot, history
  <2>. QED
    BY <1>4, <1>5, <2>1, <2>2, <2>3, LoadsAreFresh DEF ResolveIdentity, Parts,
       Unset
<1>6. ASSUME NEW r \in Requests,
             FindModel(r) \/ LoadConfig(r) \/ LoadRoutes(r) \/ Attempt(r)
      PROVE  FreshInv'
  <2>1. config \in Nat /\ routes \in Nat /\ registry \in Nat
    BY LifecycleAssumption DEF TypeOK, Generations
  <2>2. UNCHANGED << newest, began >>
    BY <1>6 DEF FindModel, LoadConfig, LoadRoutes, Attempt, snapshot, history
  <2>3. \E part \in Parts : \E from, to : \E g \in { config, routes, registry } :
          /\ Go(r, from, to) /\ to \notin { "idle", "keyed", "hashing" }
          /\ Load(r, part, g)
    BY <1>6 DEF FindModel, LoadConfig, LoadRoutes, Attempt, Parts
  <2>. QED
    BY <1>4, <2>1, <2>2, <2>3, LoadsAreFresh
<1>7. ASSUME NEW r \in Requests,
             \/ Authenticate(r) \/ StoreKeySet(r) \/ CheckDraining(r) \/ Count(r)
             \/ ResolveFails(r) \/ CallEnds(r) \/ Streams(r) \/ Return(r)
             \/ HandlerEnds(r)
      PROVE  FreshInv'
  BY <1>3, <1>7 DEF Authenticate, StoreKeySet, CheckKey, CheckDraining, Count,
     ResolveFails, CallEnds, Streams, Return, HandlerEnds, history
<1>8. ASSUME NEW r \in Requests, StreamEnds(r)
      PROVE  FreshInv'
  BY <1>1, <1>8 DEF StreamEnds, history
<1>9. CASE Reload
  BY <1>1, <1>9 DEF Reload, StoreRegistry, StoreConfig, StoreRoutes, requests,
     history
<1>10. CASE Shutdown \/ Stop \/ ListenFails \/ HangupKills \/ Exited
  BY <1>1, <1>10 DEF Shutdown, ShutdownEnds, ShutdownTimesOut, BeginDrain,
     WaitReturns, WaitPanics, Drained, DrainTimesOut, Stop, ListenFails,
     HangupKills, Exited, vars, requests, history
<1>. QED
  BY <1>1, <1>2, <1>5, <1>6, <1>7, <1>8, <1>9, <1>10
  DEF Next, Handle, vars, requests, history

(* A request never works with anything that a reload which had returned    *)
(* before it came has replaced, however many reloads run under it.         *)
THEOREM LoadsNeverStale == Spec => []NeverStale
<1>1. Spec => [](TypeOK /\ SnapshotOrder /\ NoStreamYet)
  BY InitTypeOK, NextTypeOK, NextSnapshotOrder, NextNoStreamYet, PTL DEF Spec
<1>2. Spec => []FreshInv
  BY <1>1, InitFreshInv, NextFreshInv, PTL DEF Spec
<1>3. FreshInv => NeverStale
  BY DEF FreshInv, NeverStale
<1>. QED
  BY <1>2, <1>3, PTL

-----------------------------------------------------------------------------
(* Keys.                                                                   *)

(* A request past its key check needs a configuration with its key among   *)
(* those in force since it came: once there is one there always is, and    *)
(* the check itself is made against one.                                   *)
LEMMA NextRevokedKeyRefused ==
  ASSUME TypeOK, SnapshotOrder, FreshInv, RevokedKeyRefused, [Next]_vars
  PROVE  RevokedKeyRefused'
<1>. DEFINE KeyInForce(r) == \E g \in began[r]..newest : g \notin Revoked
            Passed(r) ==
              pc[r] \notin { "idle", "arrived", "keyed", "hashing", "over" }
<1>0. newest <= newest' /\ newest \in Nat /\ newest' \in Nat
  <2>1. newest \in Nat
    BY LifecycleAssumption DEF TypeOK, Generations
  <2>2. newest' \in { newest, newest + 1 }
    BY OnlyReloadStores
    DEF Reload, StoreRegistry, StoreConfig, StoreRoutes, snapshot
  <2>. QED
    BY <2>1, <2>2
<1>1. ASSUME NEW r \in Requests, KeyInForce(r), began'[r] = began[r]
      PROVE  KeyInForce(r)'
  <2>1. began[r] \in Nat
    BY LifecycleAssumption DEF TypeOK, Generations
  <2>. QED
    BY <1>0, <1>1, <2>1
<1>2. ASSUME NEW r \in Requests, Authenticate(r) \/ StoreKeySet(r), Passed(r)'
      PROVE  KeyInForce(r)
  <2>1. \E from \in { "keyed", "hashing" } : CheckKey(r, from, seen[r]["auth"])
    BY <1>2 DEF Authenticate, StoreKeySet, IsCached, Go, TypeOK
  <2>2. seen[r]["auth"] \notin Revoked /\ pc[r] \in { "keyed", "hashing" }
    BY <1>2, <2>1 DEF CheckKey, Go, TypeOK
  <2>3. seen[r]["auth"] # Unset /\ seen[r]["auth"] \in Generations \cup { Unset }
    BY <2>2 DEF FreshInv, TypeOK, Parts
  <2>4. began[r] <= seen[r]["auth"] /\ seen[r]["auth"] <= newest
    BY <2>3 DEF FreshInv, Parts
  <2>5. seen[r]["auth"] \in began[r]..newest
    BY <1>0, <2>3, <2>4, LifecycleAssumption DEF TypeOK, Generations
  <2>. QED
    BY <2>2, <2>5
<1>3. ASSUME NEW r \in Requests, Passed(r)'
      PROVE  /\ KeyInForce(r) \/ Authenticate(r) \/ StoreKeySet(r)
             /\ began'[r] = began[r]
  <2>1. CASE UNCHANGED << pc, began >>
    BY <1>3, <2>1 DEF RevokedKeyRefused
  <2>2. ASSUME NEW q \in Requests, Handle(q), q # r
        PROVE  pc'[r] = pc[r] /\ began'[r] = began[r]
    BY <2>2 DEF Handle, Arrive, ResolveIdentity, Authenticate, StoreKeySet,
       CheckKey, FindModel, CheckDraining, Count, LoadConfig, LoadRoutes,
       ResolveFails, Attempt, CallEnds, Streams, Return, HandlerEnds,
       StreamEnds, Go, TypeOK, history
  <2>3. ASSUME Handle(r)
        PROVE  /\ Passed(r) \/ Authenticate(r) \/ StoreKeySet(r)
               /\ began'[r] = began[r]
    BY <1>3, <2>3 DEF Handle, Arrive, ResolveIdentity, Authenticate,
       StoreKeySet, CheckKey, FindModel, CheckDraining, Count, LoadConfig,
       LoadRoutes, ResolveFails, Attempt, CallEnds, Streams, Return,
       HandlerEnds, StreamEnds, Go, TypeOK, history
  <2>4. CASE Reload
    BY <2>1, <2>4 DEF Reload, StoreRegistry, StoreConfig, StoreRoutes,
       requests, history
  <2>5. CASE Shutdown \/ Stop \/ ListenFails \/ HangupKills \/ Exited
    BY <2>1, <2>5 DEF Shutdown, ShutdownEnds, ShutdownTimesOut, BeginDrain,
       WaitReturns, WaitPanics, Drained, DrainTimesOut, Stop, ListenFails,
       HangupKills, Exited, vars, requests, history
  <2>. QED
    BY <1>3, <2>1, <2>2, <2>3, <2>4, <2>5
    DEF Next, vars, requests, history, RevokedKeyRefused
<1>. QED
  BY <1>1, <1>2, <1>3 DEF RevokedKeyRefused

(* A key that was taken back, and not given again since, lets nobody in,   *)
(* whichever requests rebuild the cached key set and in whatever order.    *)
THEOREM RevokedKeysAreRefused == Spec => []RevokedKeyRefused
<1>1. Spec => [](TypeOK /\ SnapshotOrder /\ NoStreamYet)
  BY InitTypeOK, NextTypeOK, NextSnapshotOrder, NextNoStreamYet, PTL DEF Spec
<1>2. Spec => []FreshInv
  BY <1>1, InitFreshInv, NextFreshInv, PTL DEF Spec
<1>3. Init => RevokedKeyRefused
  BY DEF Init, RevokedKeyRefused
<1>. QED
  BY <1>1, <1>2, <1>3, NextRevokedKeyRefused, PTL DEF Spec

-----------------------------------------------------------------------------
(* The drain.                                                              *)

(* What the drain has waited for stays over: a covered request has been    *)
(* counted and does not come back into Dispatch, the only place a stream   *)
(* can start from; and nothing is covered once the wait for requests is    *)
(* over.                                                                   *)
DrainInv ==
  /\ \A r \in covered : pc[r] \in InDispatch \cup { "relaying", "over" }
  /\ drain \in { "streams", "done" } =>
       \A r \in covered : pc[r] \notin InDispatch
  /\ drain = "done" => \A r \in covered : stream[r] # "running"
  /\ verdict = "drained" => drain = "done" /\ proc = "exited"

LEMMA NextDrainInv == TypeOK /\ DrainInv /\ [Next]_vars => DrainInv'
<1>. SUFFICES ASSUME TypeOK, DrainInv, [Next]_vars
              PROVE  DrainInv'
  OBVIOUS
<1>1. ASSUME UNCHANGED << pc, stream, covered >>, UNCHANGED shutdown
      PROVE  DrainInv'
  BY <1>1 DEF DrainInv, shutdown
<1>2. ASSUME NEW r \in Requests, NEW from, NEW to, Go(r, from, to),
             /\ from \in InDispatch => to \in InDispatch \cup { "relaying" }
             /\ from \in { "relaying", "over" } => to = "over"
             /\ from \notin InDispatch => to \notin InDispatch,
             UNCHANGED << stream, covered, proc, drain, verdict >>
      PROVE  DrainInv'
  BY <1>2 DEF DrainInv, Go, TypeOK
<1>3. ASSUME NEW r \in Requests,
             \/ Arrive(r) \/ ResolveIdentity(r) \/ Authenticate(r) \/ StoreKeySet(r)
             \/ FindModel(r)
             \/ CheckDraining(r) \/ LoadConfig(r) \/ LoadRoutes(r)
             \/ ResolveFails(r) \/ Attempt(r) \/ CallEnds(r) \/ Return(r)
             \/ HandlerEnds(r)
      PROVE  DrainInv'
  <2>1. UNCHANGED << stream, covered, proc, drain, verdict >>
    BY <1>3 DEF Arrive, ResolveIdentity, Authenticate, StoreKeySet, CheckKey,
       FindModel, CheckDraining, LoadConfig, LoadRoutes, ResolveFails,
       Attempt, CallEnds, Return, HandlerEnds, history, shutdown
  <2>2. \E from, to :
          /\ Go(r, from, to)
          /\ from \in InDispatch => to \in InDispatch \cup { "relaying" }
          /\ from \in { "relaying", "over" } => to = "over"
          /\ from \notin InDispatch => to \notin InDispatch
    BY <1>3 DEF Arrive, ResolveIdentity, Authenticate, StoreKeySet, CheckKey,
       FindModel, CheckDraining, LoadConfig, LoadRoutes, ResolveFails,
       Attempt, CallEnds, Return, HandlerEnds, InDispatch
  <2>. QED
    BY <1>2, <2>1, <2>2
<1>4. ASSUME NEW r \in Requests, Count(r)
      PROVE  DrainInv'
  <2>1. pc[r] = "entered" /\ pc' = [pc EXCEPT ![r] = "counted"]
    BY <1>4 DEF Count, Go
  <2>2. r \notin covered
    BY <2>1 DEF DrainInv, InDispatch
  <2>3. /\ UNCHANGED << shutdown, stream >>
        /\ covered' = IF drain \in { "off", "requests" } /\ ~ woken
                        THEN covered \cup { r } ELSE covered
    BY <1>4 DEF Count
  <2>. QED
    BY <2>1, <2>2, <2>3 DEF DrainInv, TypeOK, shutdown, InDispatch
<1>5. ASSUME NEW r \in Requests, Streams(r)
      PROVE  DrainInv'
  <2>1. pc[r] = "calling" /\ pc' = [pc EXCEPT ![r] = "returning"]
    BY <1>5 DEF Streams, Go
  <2>2. drain \in { "streams", "done" } => r \notin covered
    BY <2>1 DEF DrainInv, InDispatch
  <2>. QED
    BY <1>5, <2>1, <2>2 DEF Streams, DrainInv, TypeOK, shutdown, history,
       InDispatch
<1>6. ASSUME NEW r \in Requests, StreamEnds(r)
      PROVE  DrainInv'
  BY <1>6 DEF StreamEnds, DrainInv, TypeOK, history
<1>7. CASE WaitReturns
  <2>1. UNCHANGED << proc, verdict, pc, stream, covered >> /\ proc = "draining"
    BY <1>7 DEF WaitReturns, requests, history
  <2>2. CASE drain = "requests"
    <3>1. inFlight = 0 /\ drain' = "streams"
      BY <1>7, <2>2 DEF WaitReturns
    <3>2. Dispatched = {}
      BY <3>1, CountsAreNat, FS_EmptySet
    <3>. QED
      BY <2>1, <3>1, <3>2 DEF DrainInv, TypeOK, Dispatched
  <2>3. CASE drain = "streams"
    <3>1. streamWG = 0 /\ drain' = "done"
      BY <1>7, <2>3 DEF WaitReturns
    <3>2. Streaming = {}
      BY <3>1, CountsAreNat, FS_EmptySet
    <3>. QED
      BY <2>1, <2>3, <3>1, <3>2 DEF DrainInv, TypeOK, Streaming
  <2>. QED
    BY <1>7, <2>2, <2>3 DEF WaitReturns
<1>8. CASE ShutdownEnds \/ ShutdownTimesOut \/ WaitPanics \/ Drained
             \/ DrainTimesOut \/ Stop \/ ListenFails \/ HangupKills
  BY <1>8 DEF ShutdownEnds, ShutdownTimesOut, BeginDrain, WaitPanics, Drained,
     DrainTimesOut, Stop, ListenFails, HangupKills, Exit, DrainInv, requests,
     history
<1>9. CASE Reload
  BY <1>1, <1>9 DEF Reload, StoreRegistry, StoreConfig, StoreRoutes, requests,
     history
<1>10. CASE UNCHANGED vars
  BY <1>1, <1>10 DEF vars, requests, history
<1>. QED
  BY <1>3, <1>4, <1>5, <1>6, <1>7, <1>8, <1>9, <1>10
  DEF Next, Handle, Shutdown, Exited

(* A drain that reports success has left nothing behind of the requests    *)
(* that were counted before it had done waiting for requests: neither a    *)
(* call in Dispatch nor a stream that one of them started.                 *)
THEOREM DrainIsComplete == Spec => []DrainCoversCounted
<1>1. Spec => [](TypeOK /\ SnapshotOrder /\ NoStreamYet)
  BY InitTypeOK, NextTypeOK, NextSnapshotOrder, NextNoStreamYet, PTL DEF Spec
<1>2. Init => DrainInv
  BY DEF Init, DrainInv
<1>3. DrainInv => DrainCoversCounted
  BY DEF DrainInv, DrainCoversCounted
<1>. QED
  BY <1>1, <1>2, <1>3, NextDrainInv, PTL DEF Spec
=============================================================================
