----------------------------- MODULE StreamProofs -----------------------------
(* Proofs about Stream, for any timeout and any number of chunks.          *)
EXTENDS Stream, TLAPS

LEMMA AtMostNat ==
  ASSUME NEW n \in Nat, NEW bound \in Nat
  PROVE  AtMost(n, bound) \in Nat
BY DEF AtMost

(* The flags, apart from the rest of the types.                            *)
LEMMA FlagStep ==
  ASSUME closed \in BOOLEAN, reported \in BOOLEAN,
         [Next]_vars
  PROVE  closed' \in BOOLEAN /\ reported' \in BOOLEAN
<1>1. CASE Send \/ End \/ Leave \/ Cancel \/ Tick
  BY <1>1 DEF Send, End, Leave, Cancel, Tick
<1>2. CASE Stamp \/ TakeChunk \/ TakeSentinel \/ TakeEOF \/ TakeError
  BY <1>2 DEF Stamp, TakeChunk, TakeSentinel, TakeEOF, TakeError
<1>3. CASE WriteFails \/ Close \/ Settle \/ Refund
  BY <1>3 DEF WriteFails, Close, Settle, Refund
<1>4. CASE WatchStep
  BY <1>4 DEF WatchStep, FindStale, CutOff
<1>5. CASE HandlerStep
  BY <1>5 DEF HandlerStep, PassOn, Relay, RelayFails, HandlerEnds
<1>6. CASE Rest \/ UNCHANGED vars
  BY <1>6 DEF Rest, vars
<1> QED
  BY <1>1, <1>2, <1>3, <1>4, <1>5, <1>6 DEF Next, CopyStep

LEMMA TypeStep == TypeOK /\ [Next]_vars => TypeOK'
<1> SUFFICES ASSUME TypeOK, [Next]_vars
             PROVE  TypeOK'
  OBVIOUS
<1>0. closed' \in BOOLEAN /\ reported' \in BOOLEAN
  BY FlagStep DEF TypeOK
<1> USE <1>0 DEF TypeOK, Copy, provider, relay, account
<1>1. CASE Send \/ End \/ Leave \/ Cancel
  BY <1>1 DEF Send, End, Leave, Cancel
<1>2. CASE Tick
  <2>1. age + 1 \in Nat /\ Idle + 1 \in Nat
    BY StreamAssumption
  <2>2. AtMost(age + 1, Idle + 1) \in Nat
    BY <2>1, AtMostNat
  <2> QED
    BY <1>2, <2>2 DEF Tick
<1>3. CASE Stamp \/ TakeChunk \/ TakeSentinel \/ TakeEOF \/ TakeError
  BY <1>3 DEF Stamp, TakeChunk, TakeSentinel, TakeEOF, TakeError
<1>4. CASE WriteFails \/ Close \/ Settle \/ Refund
  BY <1>4 DEF WriteFails, Close, Settle, Refund
<1>5. CASE WatchStep
  BY <1>5 DEF WatchStep, FindStale, CutOff
<1>6. CASE HandlerStep
  BY <1>6 DEF HandlerStep, PassOn, Relay, RelayFails, HandlerEnds
<1>7. CASE Rest \/ UNCHANGED vars
  BY <1>7 DEF Rest, vars
<1> QED
  BY <1>1, <1>2, <1>3, <1>4, <1>5, <1>6, <1>7 DEF Next, CopyStep

(* The counters of a stream never go below zero, and its goroutines stay   *)
(* where the code puts them (proxy.go:792-927).                            *)
THEOREM TypeCorrect == Spec => []TypeOK
<1>1. ASSUME Init PROVE TypeOK
  <2>1. closed \in BOOLEAN /\ reported \in BOOLEAN
    BY <1>1 DEF Init
  <2> QED
    BY <1>1, <2>1 DEF Init, TypeOK, Copy
<1> QED
  BY <1>1, TypeStep, PTL DEF Spec

-----------------------------------------------------------------------------
(* The books: the reservation is held until the goroutine is over, and the *)
(* way the pipe was closed decides what becomes of it.                     *)
BookInv ==
  /\ BookedOnce
  /\ copy # "over" => verdict = "held"
  /\ pipeEnd = "open" <=> copy \notin { "settling", "refunding", "over" }
  /\ pipeEnd = "eof" => copy \in { "settling", "over" }
  /\ pipeEnd = "error" => copy \in { "refunding", "over" }
  /\ verdict \in { "usage", "estimate" } => pipeEnd = "eof"

LEMMA BookStep == TypeOK /\ BookInv /\ [Next]_vars => BookInv'
<1> SUFFICES ASSUME TypeOK, BookInv, [Next]_vars
             PROVE  BookInv'
  OBVIOUS
<1> USE DEF TypeOK, Copy, BookInv, BookedOnce, provider, relay, account
<1>1. CASE Send \/ End \/ Leave \/ Cancel \/ Tick
  BY <1>1 DEF Send, End, Leave, Cancel, Tick
<1>2. CASE Stamp \/ TakeChunk \/ TakeSentinel \/ TakeEOF \/ TakeError
  BY <1>2 DEF Stamp, TakeChunk, TakeSentinel, TakeEOF, TakeError
<1>3. CASE WriteFails \/ Close
  BY <1>3 DEF WriteFails, Close
<1>4. CASE Settle \/ Refund
  BY <1>4 DEF Settle, Refund
<1>5. CASE WatchStep
  BY <1>5 DEF WatchStep, FindStale, CutOff
<1>6. CASE HandlerStep
  BY <1>6 DEF HandlerStep, PassOn, Relay, RelayFails, HandlerEnds
<1>7. CASE Rest \/ UNCHANGED vars
  BY <1>7 DEF Rest, vars
<1> QED
  BY <1>1, <1>2, <1>3, <1>4, <1>5, <1>6, <1>7 DEF Next, CopyStep

(* However a stream ends, its reservation is settled or refunded exactly   *)
(* once (proxy.go:807-819, 866-914).                                       *)
THEOREM StreamBookedOnce == Spec => []BookedOnce
<1>1. Init => BookInv
  BY DEF Init, BookInv, BookedOnce
<1>2. BookInv => BookedOnce
  BY DEF BookInv
<1> QED
  BY <1>1, <1>2, TypeCorrect, BookStep, PTL DEF Spec

-----------------------------------------------------------------------------
(* The flow: every frame read is received, in the handler's hands, or      *)
(* being written, unless the caller has gone; and the normal end is only   *)
(* reached when the provider has ended, or the caller has gone.            *)
InTransit == (IF copy = "write" THEN 1 ELSE 0)
               + (IF inHand = "frame" THEN 1 ELSE 0)

FlowInv ==
  /\ handler = "writing" <=> inHand # "none"
  /\ handler = "over" /\ caller = "there" => pipeEnd # "open"
  /\ caller = "there" => read = received + InTransit
  /\ copy \in { "sentinel", "closing", "settling" } \/ pipeEnd = "eof" =>
       (ending \in { "done", "eof" } /\ waiting = 0) \/ caller = "gone"

LEMMA FlowStep ==
  TypeOK /\ BookInv /\ FlowInv /\ [Next]_vars => FlowInv'
<1> SUFFICES ASSUME TypeOK, BookInv, FlowInv, [Next]_vars
             PROVE  FlowInv'
  OBVIOUS
<1> USE DEF TypeOK, Copy, BookInv, FlowInv, InTransit, provider, relay,
            account
<1>1. CASE Send \/ End \/ Leave \/ Cancel \/ Tick
  BY <1>1 DEF Send, End, Leave, Cancel, Tick
<1>2. CASE Stamp \/ TakeSentinel \/ TakeEOF \/ TakeError
  BY <1>2 DEF Stamp, TakeSentinel, TakeEOF, TakeError
<1>3. CASE TakeChunk
  BY <1>3 DEF TakeChunk
<1>4. CASE WriteFails \/ Close \/ Settle \/ Refund
  BY <1>4 DEF WriteFails, Close, Settle, Refund
<1>5. CASE WatchStep
  BY <1>5 DEF WatchStep, FindStale, CutOff
<1>6. CASE HandlerStep
  BY <1>6 DEF HandlerStep, PassOn, Relay, RelayFails, HandlerEnds
<1>7. CASE Rest \/ UNCHANGED vars
  BY <1>7 DEF Rest, vars
<1> QED
  BY <1>1, <1>2, <1>3, <1>4, <1>5, <1>6, <1>7 DEF Next, CopyStep

LEMMA FlowHolds == Spec => [](TypeOK /\ BookInv /\ FlowInv)
<1>1. Init => BookInv /\ FlowInv
  BY DEF Init, BookInv, BookedOnce, FlowInv, InTransit
<1> QED
  BY <1>1, TypeCorrect, BookStep, FlowStep, PTL DEF Spec

(* A stream that ends cleanly for a caller who stayed is whole, for any    *)
(* timeout and length (proxy.go:866-906, server.go:432-449).               *)
THEOREM CleanEnd == Spec => []CleanEndIsWhole
<1>1. TypeOK /\ BookInv /\ FlowInv => CleanEndIsWhole
  BY DEF TypeOK, BookInv, FlowInv, InTransit, CleanEndIsWhole
<1> QED
  BY <1>1, FlowHolds, PTL

(* What the watchdog or the provider broke off is never charged            *)
(* (proxy.go:697-718, 866-914).                                            *)
THEOREM OnlyCharged == Spec => []ChargedForAReason
<1>1. TypeOK /\ BookInv /\ FlowInv => ChargedForAReason
  BY DEF TypeOK, BookInv, FlowInv, ChargedForAReason
<1> QED
  BY <1>1, FlowHolds, PTL
=============================================================================
