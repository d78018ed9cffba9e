-------------------------------- MODULE Stream --------------------------------
(***************************************************************************)
(* One streamed answer, from the provider to the caller: callStreaming's   *)
(* copy goroutine and its watchdog (internal/proxy), and the handler that  *)
(* relays the other end of the pipe to the caller (internal/server).       *)
(*                                                                         *)
(* The pipe has no buffer: a write waits until the handler has read it, or *)
(* has closed its end.  The handler's own write waits for the caller.      *)
(***************************************************************************)
EXTENDS Integers

CONSTANTS
  Idle,       \* stream_idle_timeout in ticks; 0 for no watchdog
  MaxChunks   \* bound: the chunks the provider sends

ASSUME StreamAssumption == Idle \in Nat /\ MaxChunks \in Nat

VARIABLES
  sent,       \* chunks the provider has sent
  waiting,    \* those the copy goroutine has not read yet
  ending,     \* how the provider ended: "open", "done", "eof" or "failed"
  closed,     \* the provider's body has been closed on this side
  copy,       \* where the copy goroutine is
  reported,   \* a usage report has been read
  read,       \* frames read, to be relayed
  age,        \* ticks since lastChunk was stamped, up to one past the timeout
  watch,      \* the watchdog: "on", "stale" (about to close), "fired", "off"
  pipeEnd,    \* the write end of the pipe: "open", "eof" or "error"
  handler,    \* the handler: "reading", "writing" or "over"
  inHand,     \* what it has read and not written: "none", "frame", "sentinel"
  received,   \* frames the caller has received
  caller,     \* "there" or "gone"
  bookings,   \* settlements and refunds of the reservation
  verdict     \* "held", "usage", "estimate" or "refunded"

provider == << sent, waiting, ending >>
relay == << handler, inHand, received, caller >>
account == << bookings, verdict >>
vars == << provider, closed, copy, reported, read, age, watch, pipeEnd,
           relay, account >>

Copy == { "head", "next", "write", "sentinel", "closing", "settling",
          "refunding", "over" }

AtMost(n, bound) == IF n < bound THEN n ELSE bound

Init ==
  /\ sent = 0 /\ waiting = 0 /\ ending = "open"
  /\ closed = FALSE
  /\ copy = "head"
  /\ reported = FALSE
  /\ read = 0
  /\ age = 0
  /\ watch = IF Idle > 0 THEN "on" ELSE "off"
  /\ pipeEnd = "open"
  /\ handler = "reading" /\ inHand = "none"
  /\ received = 0
  /\ caller = "there"
  /\ bookings = 0 /\ verdict = "held"

-----------------------------------------------------------------------------
(* The provider, the caller and time.                                      *)

Send ==
  /\ ending = "open" /\ sent < MaxChunks
  /\ sent' = sent + 1
  /\ waiting' = waiting + 1
  /\ UNCHANGED << ending, closed, copy, reported, read, age, watch, pipeEnd,
                  relay, account >>

(* The provider ends the stream with its sentinel, without one, or fails.  *)
End ==
  /\ ending = "open"
  /\ ending' \in { "done", "eof", "failed" }
  /\ UNCHANGED << sent, waiting, closed, copy, reported, read, age, watch,
                  pipeEnd, relay, account >>

Leave ==
  /\ caller = "there" /\ handler # "over"
  /\ caller' = "gone"
  /\ UNCHANGED << provider, closed, copy, reported, read, age, watch, pipeEnd,
                  handler, inHand, received, account >>

(* The request's context ends with its caller or its handler, and with it  *)
(* the call to the provider.                                               *)
Cancel ==
  /\ caller = "gone" \/ handler = "over"
  /\ ~ closed
  /\ closed' = TRUE
  /\ UNCHANGED << provider, copy, reported, read, age, watch, pipeEnd, relay,
                  account >>

(* Ticks are seconds, so time passes only while the copy goroutine waits:  *)
(* for the provider, or for the caller to take what the handler holds.     *)
Waits ==
  \/ copy = "next" /\ waiting = 0 /\ ending = "open" /\ ~ closed
  \/ copy \in { "write", "sentinel" } /\ handler = "writing"

Tick ==
  /\ Waits
  /\ age' = AtMost(age + 1, Idle + 1)
  /\ UNCHANGED << provider, closed, copy, reported, read, watch, pipeEnd,
                  relay, account >>

-----------------------------------------------------------------------------
(* The copy goroutine.                                                     *)

(* lastChunk is stamped at the head of the loop, before the wait.          *)
Stamp ==
  /\ copy = "head"
  /\ age' = 0
  /\ copy' = "next"
  /\ UNCHANGED << provider, closed, reported, read, watch, pipeEnd, relay,
                  account >>

(* A fault to be caught: a chunk is read that was never sent.              *)
FaultTakeChunk ==
  /\ copy = "next"
  /\ waiting' = waiting - 1
  /\ \E usage \in BOOLEAN : reported' = (reported \/ usage)
  /\ copy' = "head"
  /\ UNCHANGED << sent, ending, closed, read, age, watch, pipeEnd, relay,
                  account >>

(* A chunk carries a frame to relay, or only a usage report.  Some of what *)
(* came before the body was closed can still be read after.                *)
TakeChunk ==
  /\ copy = "next" /\ waiting > 0
  /\ waiting' = waiting - 1
  /\ \E usage \in BOOLEAN : reported' = (reported \/ usage)
  /\ \/ copy' = "write" /\ read' = read + 1
     \/ copy' = "head" /\ UNCHANGED read
  /\ UNCHANGED << sent, ending, closed, age, watch, pipeEnd, relay, account >>

TakeSentinel ==
  /\ copy = "next" /\ waiting = 0 /\ ending = "done"
  /\ copy' = "sentinel"
  /\ UNCHANGED << provider, closed, reported, read, age, watch, pipeEnd,
                  relay, account >>

TakeEOF ==
  /\ copy = "next" /\ waiting = 0 /\ ending = "eof"
  /\ copy' = "closing"
  /\ UNCHANGED << provider, closed, reported, read, age, watch, pipeEnd,
                  relay, account >>

(* A fault to be caught: an error ends the loop like the end of the stream.*)
FaultTakeError ==
  /\ copy = "next"
  /\ closed \/ (waiting = 0 /\ ending = "failed")
  /\ copy' = "closing"
  /\ UNCHANGED << provider, closed, reported, read, age, watch, pipeEnd,
                  relay, account >>

TakeError ==
  /\ copy = "next"
  /\ closed \/ (waiting = 0 /\ ending = "failed")
  /\ pipeEnd' = "error"
  /\ copy' = "refunding"
  /\ UNCHANGED << provider, closed, reported, read, age, watch, relay,
                  account >>

(* The handler reads what is being written.                                *)
PassOn ==
  /\ copy \in { "write", "sentinel" } /\ handler = "reading"
  /\ handler' = "writing"
  /\ inHand' = IF copy = "write" THEN "frame" ELSE "sentinel"
  /\ copy' = IF copy = "write" THEN "head" ELSE "closing"
  /\ UNCHANGED << provider, closed, reported, read, age, watch, pipeEnd,
                  received, caller, account >>

(* The handler has closed its end.                                         *)
WriteFails ==
  /\ copy \in { "write", "sentinel" } /\ handler = "over"
  /\ copy' = "closing"
  /\ UNCHANGED << provider, closed, reported, read, age, watch, pipeEnd,
                  relay, account >>

Close ==
  /\ copy = "closing"
  /\ closed' = TRUE
  /\ pipeEnd' = "eof"
  /\ copy' = "settling"
  /\ UNCHANGED << provider, reported, read, age, watch, relay, account >>

(* What was reported, or else what was reserved, is settled.               *)
Settle ==
  /\ copy = "settling"
  /\ bookings' = bookings + 1
  /\ verdict' = IF reported THEN "usage" ELSE "estimate"
  /\ watch' = "off"
  /\ copy' = "over"
  /\ UNCHANGED << provider, closed, reported, read, age, pipeEnd, relay >>

(* A fault to be caught: the error path falls through to the normal one.   *)
FaultRefund ==
  /\ copy = "refunding"
  /\ bookings' = bookings + 1
  /\ verdict' = "refunded"
  /\ copy' = "closing"
  /\ UNCHANGED << provider, closed, reported, read, age, watch, pipeEnd,
                  relay >>

Refund ==
  /\ copy = "refunding"
  /\ bookings' = bookings + 1
  /\ verdict' = "refunded"
  /\ watch' = "off"
  /\ copy' = "over"
  /\ UNCHANGED << provider, closed, reported, read, age, pipeEnd, relay >>

-----------------------------------------------------------------------------
(* The watchdog compares lastChunk with the clock, and closes the body     *)
(* after that: the copy goroutine may read on in between.                  *)

FindStale ==
  /\ watch = "on" /\ age > Idle
  /\ watch' = "stale"
  /\ UNCHANGED << provider, closed, copy, reported, read, age, pipeEnd, relay,
                  account >>

(* A fault to be caught: the watchdog only takes note.                     *)
FaultCutOff ==
  /\ watch = "stale"
  /\ watch' = "fired"
  /\ UNCHANGED << provider, closed, copy, reported, read, age, pipeEnd, relay,
                  account >>

CutOff ==
  /\ watch = "stale"
  /\ watch' = "fired"
  /\ closed' = TRUE
  /\ UNCHANGED << provider, copy, reported, read, age, pipeEnd, relay,
                  account >>

-----------------------------------------------------------------------------
(* The handler: copyBody and the deferred Close of the response body.      *)

Relay ==
  /\ handler = "writing" /\ caller = "there"
  /\ received' = IF inHand = "frame" THEN received + 1 ELSE received
  /\ inHand' = "none"
  /\ handler' = "reading"
  /\ UNCHANGED << provider, closed, copy, reported, read, age, watch, pipeEnd,
                  caller, account >>

RelayFails ==
  /\ handler = "writing" /\ caller = "gone"
  /\ inHand' = "none"
  /\ handler' = "over"
  /\ UNCHANGED << provider, closed, copy, reported, read, age, watch, pipeEnd,
                  received, caller, account >>

(* The end of the pipe and an error end the handler alike.                 *)
HandlerEnds ==
  /\ handler = "reading" /\ pipeEnd # "open"
  /\ handler' = "over"
  /\ UNCHANGED << provider, closed, copy, reported, read, age, watch, pipeEnd,
                  inHand, received, caller, account >>

-----------------------------------------------------------------------------

CopyStep ==
  \/ Stamp \/ TakeChunk \/ TakeSentinel \/ TakeEOF \/ TakeError
  \/ WriteFails \/ Close \/ Settle \/ Refund

WatchStep == FindStale \/ CutOff

HandlerStep == PassOn \/ Relay \/ RelayFails \/ HandlerEnds

(* Everything is over and booked.                                          *)
Rest == copy = "over" /\ handler = "over" /\ UNCHANGED vars

Next ==
  \/ Send \/ End \/ Leave \/ Cancel \/ Tick
  \/ CopyStep \/ WatchStep \/ HandlerStep \/ Rest

Spec == Init /\ [][Next]_vars

(* Goroutines run, time passes, and a caller either reads on or leaves.    *)
(* The provider owes nothing: it may fall silent for ever.                 *)
Fairness ==
  /\ WF_vars(Cancel) /\ WF_vars(Tick)
  /\ WF_vars(CopyStep) /\ WF_vars(WatchStep) /\ WF_vars(HandlerStep)

FairSpec == Spec /\ Fairness

-----------------------------------------------------------------------------
(* The types of the variables.                                             *)
TypeOK ==
  /\ sent \in Nat /\ waiting \in Nat
  /\ ending \in { "open", "done", "eof", "failed" }
  /\ closed \in BOOLEAN
  /\ copy \in Copy
  /\ reported \in BOOLEAN
  /\ read \in Nat
  /\ age \in Nat
  /\ watch \in { "on", "stale", "fired", "off" }
  /\ pipeEnd \in { "open", "eof", "error" }
  /\ handler \in { "reading", "writing", "over" }
  /\ inHand \in { "none", "frame", "sentinel" }
  /\ received \in Nat
  /\ caller \in { "there", "gone" }
  /\ bookings \in Nat
  /\ verdict \in { "held", "usage", "estimate", "refunded" }

(* The reservation of a stream is settled or refunded exactly once, by the *)
(* time its goroutine is over, whichever of the end, the watchdog, the     *)
(* caller and the provider's failure comes first (proxy.go:807-819,        *)
(* 866-914).                                                               *)
BookedOnce == bookings = IF copy = "over" THEN 1 ELSE 0

(* A stream that ends cleanly is whole: when the handler has seen the end  *)
(* of the pipe and its caller is still there, the provider had ended the   *)
(* stream by itself and everything it sent was read and relayed            *)
(* (proxy.go:866-906, server.go:432-449).                                  *)
CleanEndIsWhole ==
  handler = "over" /\ caller = "there" /\ pipeEnd = "eof" =>
    ending \in { "done", "eof" } /\ waiting = 0 /\ received = read

(* A caller is charged only for a stream that its provider finished, or    *)
(* that it left itself: what the watchdog or the provider broke off is     *)
(* given back (proxy.go:697-718, 866-914).                                 *)
ChargedForAReason ==
  verdict \in { "usage", "estimate" } =>
    ending \in { "done", "eof" } \/ caller = "gone"

(* With a watchdog, every stream ends and is booked, even when its         *)
(* provider falls silent for ever (proxy.go:824-860).                      *)
StreamEnds == <>(copy = "over" /\ handler = "over")
=============================================================================
