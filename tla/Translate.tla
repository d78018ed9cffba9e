------------------------------- MODULE Translate ------------------------------
(***************************************************************************)
(* The stream translators (internal/providers): the events of an Anthropic *)
(* or a Gemini stream become chunks of an OpenAI one, which the caller     *)
(* puts together again and the proxy bills.                                *)
(*                                                                         *)
(* A step is one event and the call of Next that reads it.  Text, and the  *)
(* arguments of a tool call, come in fragments, numbered as they come.     *)
(***************************************************************************)
EXTENDS Ranks, Sequences, Functions

CONSTANTS
  MaxFragments,  \* bound: fragments and blocks the provider sends
  Counts,        \* token counts it may report
  Reserved       \* what the limiter has reserved for the request

ASSUME TranslateAssumption ==
  MaxFragments \in Nat /\ Counts \subseteq Nat /\ Reserved \in Nat

VARIABLES
  protocol,   \* "anthropic" or "gemini"
  phase,      \* of the stream: "before", "open", "stopped", "ended", "cut"
  said,       \* what the provider has said: blocks of a kind, in fragments
  fragments,  \* their number
  reason,     \* why it says it stopped, "" before
  report,     \* the tokens it has reported last: fresh, cached, out, other;
              \* complete once those of the answer are among them
  toolIndexByBlock, toolCalls, promptTokens, cachedTokens, stopReason,
              \* the translator
  text,       \* the text the caller has, and the choice each fragment is for
  calls,      \* the tool calls it has, by index
  finish,     \* the finish reason it has
  last        \* the usage report the proxy has read last

provider == << protocol, phase, said, fragments, reason, report >>
translator ==
  << toolIndexByBlock, toolCalls, promptTokens, cachedTokens, stopReason >>
caller == << text, calls, finish, last >>
vars == << provider, translator, caller >>

AnthropicReasons == { "end_turn", "max_tokens", "stop_sequence", "tool_use" }
GeminiReasons == { "STOP", "MAX_TOKENS", "SAFETY" }
Kinds == { "text", "tool", "thinking" }
NoReport ==
  [fresh |-> 0, cached |-> 0, out |-> 0, other |-> 0, complete |-> FALSE]
NoUsage == [total |-> 0, cached |-> 0]

mapStopReason(r) ==
  CASE r = "max_tokens" -> "length"
    [] r = "tool_use" -> "tool_calls"
    [] OTHER -> "stop"

mapGeminiFinish(r) ==
  CASE r = "MAX_TOKENS" -> "length"
    [] r = "SAFETY" -> "content_filter"
    [] OTHER -> "stop"

(* A fault to be caught: Anthropic's own words reach the caller.           *)
FaultFinishReason(r) ==
  IF protocol = "anthropic" THEN r ELSE mapGeminiFinish(r)

FinishReason(r) ==
  IF protocol = "anthropic" THEN mapStopReason(r) ELSE mapGeminiFinish(r)

(* An ordinary end after a tool call is a call for its result.             *)
Upgraded(r, sawToolCalls) ==
  IF sawToolCalls /\ FinishReason(r) = "stop" THEN "tool_calls"
  ELSE FinishReason(r)

Init ==
  /\ protocol \in { "anthropic", "gemini" }
  /\ phase = IF protocol = "anthropic" THEN "before" ELSE "open"
  /\ said = << >> /\ fragments = 0 /\ reason = "" /\ report = NoReport
  /\ toolIndexByBlock = << >> /\ toolCalls = 0
  /\ promptTokens = 0 /\ cachedTokens = 0 /\ stopReason = ""
  /\ text = << >> /\ calls = << >> /\ finish = "" /\ last = NoUsage

-----------------------------------------------------------------------------
(* Anthropic: typed events, the content in numbered blocks.                *)

MessageStart ==
  /\ phase = "before"
  /\ phase' = "open"
  /\ \E fresh, cached \in Counts :
       /\ report' = [NoReport EXCEPT !.fresh = fresh, !.cached = cached]
       /\ promptTokens' = fresh + cached
       /\ cachedTokens' = cached
  /\ UNCHANGED << protocol, said, fragments, reason, toolIndexByBlock,
                  toolCalls, stopReason, caller >>

(* A fault to be caught: a tool call takes the index of its block.         *)
FaultContentBlockStart(kind) ==
  /\ protocol = "anthropic" /\ phase = "open" /\ fragments < MaxFragments
  /\ fragments' = fragments + 1
  /\ said' = Append(said, [kind |-> kind, parts |-> << >>])
  /\ IF kind = "tool"
       THEN /\ toolIndexByBlock' =
                 [b \in DOMAIN toolIndexByBlock \cup { Len(said) } |->
                   IF b = Len(said) THEN Len(said) ELSE toolIndexByBlock[b]]
            /\ toolCalls' = toolCalls + 1
            /\ calls' = [i \in DOMAIN calls \cup { Len(said) } |->
                          IF i = Len(said) THEN << >> ELSE calls[i]]
       ELSE UNCHANGED << toolIndexByBlock, toolCalls, calls >>
  /\ UNCHANGED << protocol, phase, reason, report, promptTokens, cachedTokens,
                  stopReason, text, finish, last >>

(* Blocks are numbered from zero, and tool calls among themselves.         *)
ContentBlockStart(kind) ==
  /\ protocol = "anthropic" /\ phase = "open" /\ fragments < MaxFragments
  /\ fragments' = fragments + 1
  /\ said' = Append(said, [kind |-> kind, parts |-> << >>])
  /\ IF kind = "tool"
       THEN /\ toolIndexByBlock' =
                 [b \in DOMAIN toolIndexByBlock \cup { Len(said) } |->
                   IF b = Len(said) THEN toolCalls ELSE toolIndexByBlock[b]]
            /\ toolCalls' = toolCalls + 1
            /\ calls' = [i \in DOMAIN calls \cup { toolCalls } |->
                          IF i = toolCalls THEN << >> ELSE calls[i]]
       ELSE UNCHANGED << toolIndexByBlock, toolCalls, calls >>
  /\ UNCHANGED << protocol, phase, reason, report, promptTokens, cachedTokens,
                  stopReason, text, finish, last >>

(* A fragment of any block: nothing relies on their coming one by one.     *)
ContentBlockDelta(b) ==
  /\ protocol = "anthropic" /\ phase = "open" /\ fragments < MaxFragments
  /\ fragments' = fragments + 1
  /\ said' = [said EXCEPT ![b + 1].parts = Append(@, fragments')]
  /\ CASE said[b + 1].kind = "text" ->
            /\ text' = Append(text, [choice |-> b, part |-> fragments'])
            /\ UNCHANGED calls
       [] said[b + 1].kind = "tool" ->
            /\ calls' = [calls EXCEPT ![toolIndexByBlock[b]] =
                           Append(@, fragments')]
            /\ UNCHANGED text
       [] OTHER -> UNCHANGED << text, calls >>
  /\ UNCHANGED << protocol, phase, reason, report, translator, finish, last >>

(* The usage of a chunk; a chunk of no tokens has none.                    *)
Usage(total, cached) ==
  IF total = 0 THEN last ELSE [total |-> total, cached |-> cached]

(* The output tokens so far, and at some time the stop reason, which every *)
(* later event repeats.                                                    *)
MessageDelta(r) ==
  /\ protocol = "anthropic" /\ phase \in { "open", "stopped" }
  /\ reason' = IF r = "" THEN reason ELSE r
  /\ stopReason' = IF r = "" THEN stopReason ELSE r
  /\ phase' = IF stopReason' = "" THEN "open" ELSE "stopped"
  /\ finish' = IF stopReason' = "" THEN finish
               ELSE Upgraded(stopReason', toolCalls > 0)
  /\ \E out \in Counts :
       /\ report.out <= out
       /\ report' = [report EXCEPT !.out = out, !.complete = TRUE]
       /\ last' = Usage(promptTokens + out, cachedTokens)
  /\ UNCHANGED << protocol, said, fragments, toolIndexByBlock, toolCalls,
                  promptTokens, cachedTokens, text, calls >>

-----------------------------------------------------------------------------
(* Gemini: chunks of parts, each with the usage so far.                    *)

(* What one chunk may say: the kinds of its parts.                         *)
Batches == { << >>, << "text" >>, << "tool" >>, << "text", "tool" >>,
             << "thinking", "text" >>, << "tool", "tool" >> }

NewBlocks(batch) ==
  [i \in DOMAIN batch |-> [kind |-> batch[i], parts |-> << fragments + i >>]]

(* The blocks of a kind, in order: the k-th stands where the k-th place of *)
(* the kind is.                                                            *)
PlacesOf(kind, blocks) == { i \in DOMAIN blocks : blocks[i].kind = kind }

OfKind(kind, blocks) ==
  LET places == PlacesOf(kind, blocks)
  IN [k \in 1..Cardinality(places) |-> blocks[Nth(k, places)]]

(* A fault to be caught: only the chunk's own calls upgrade its finish.    *)
FaultHadCalls(batch) == OfKind("tool", NewBlocks(batch)) # << >>

HadCalls(batch) ==
  toolCalls > 0 \/ OfKind("tool", NewBlocks(batch)) # << >>

(* Every part is a block of its own here; of a function call all arguments *)
(* come at once.  The total may count tokens that no other count does; one *)
(* that is not given is the sum of the others.                             *)
GeminiChunk(batch) ==
  /\ protocol = "gemini" /\ phase = "open"
  /\ fragments + Len(batch) <= MaxFragments
  /\ fragments' = fragments + Len(batch)
  /\ said' = said \o NewBlocks(batch)
  /\ LET texts == OfKind("text", NewBlocks(batch))
         tools == OfKind("tool", NewBlocks(batch))
     IN /\ text' = text \o [i \in DOMAIN texts |->
                             [choice |-> 0, part |-> texts[i].parts[1]]]
        /\ calls' = [i \in 0..(toolCalls + Len(tools) - 1) |->
                      IF i < toolCalls THEN calls[i]
                      ELSE tools[i - toolCalls + 1].parts]
        /\ toolCalls' = toolCalls + Len(tools)
  /\ \E r \in GeminiReasons \cup { "" } :
       /\ reason' = r
       /\ phase' = IF r = "" THEN "open" ELSE "stopped"
       /\ finish' = IF r = "" THEN finish ELSE Upgraded(r, HadCalls(batch))
  /\ \E fresh, cached, out, other \in Counts :
       /\ report.fresh <= fresh /\ report.cached <= cached
       /\ report.out <= out /\ report.other <= other
       /\ report' = [fresh |-> fresh, cached |-> cached, out |-> out,
                     other |-> other, complete |-> TRUE]
       /\ last' = Usage(fresh + cached + out + other, cached)
  /\ UNCHANGED << protocol, toolIndexByBlock, promptTokens, cachedTokens,
                  stopReason >>

-----------------------------------------------------------------------------
(* The end: message_stop, or of Gemini the end of the body, for which the  *)
(* translator makes up the sentinel.                                       *)
End ==
  /\ phase = "stopped"
  /\ phase' = "ended"
  /\ UNCHANGED << protocol, said, fragments, reason, report, translator,
                  caller >>

(* The body ends before its time; one that fails is not charged.           *)
Cut ==
  /\ phase \in { "before", "open", "stopped" }
  /\ phase' = "cut"
  /\ UNCHANGED << protocol, said, fragments, reason, report, translator,
                  caller >>

Rest == phase \in { "ended", "cut" } /\ UNCHANGED vars

Next ==
  \/ MessageStart \/ (\E kind \in Kinds : ContentBlockStart(kind))
  \/ (\E b \in 0..(Len(said) - 1) : ContentBlockDelta(b))
  \/ (\E r \in AnthropicReasons \cup { "" } : MessageDelta(r))
  \/ (\E batch \in Batches : GeminiChunk(batch))
  \/ End \/ Cut \/ Rest

Spec == Init /\ [][Next]_vars

-----------------------------------------------------------------------------
(* The proxy's bill, and the answer as it would be without streaming.      *)

(* A fault to be caught: what came from the cache is charged too.          *)
FaultCharge == IF last.total = 0 THEN Reserved ELSE last.total

(* A report of nothing is no report.                                       *)
Charge == IF last.total = 0 THEN Reserved ELSE last.total - last.cached

Parts(blocks) == [i \in DOMAIN blocks |-> blocks[i].parts]

(* Without streaming a call without arguments has the text {}, here 0.     *)
Arguments(parts) == IF parts = << >> THEN << 0 >> ELSE parts

(* Where the text of an answer stands: its block, and the place in it.     *)
Spots ==
  UNION { { b } \X DOMAIN said[b].parts : b \in PlacesOf("text", said) }

Precedes(s, t) == s[1] < t[1] \/ (s[1] = t[1] /\ s[2] < t[2])

SpotRank(s) == Cardinality({ t \in Spots : ~ Precedes(s, t) })

At(spot) == said[spot[1]].parts[spot[2]]

(* The fragments of the text blocks, block after block.                    *)
Written ==
  [k \in 1..Cardinality(Spots) |->
     At(CHOOSE spot \in Spots : SpotRank(spot) = k)]

(* The adapters' toOpenAI on the whole of what the provider has said.      *)
Buffered ==
  LET tools == Parts(OfKind("tool", said))
  IN [text |-> Written,
      calls |-> [i \in 0..(Len(tools) - 1) |-> Arguments(tools[i + 1])],
      finish |-> Upgraded(reason, tools # << >>)]

-----------------------------------------------------------------------------
(* Provider, translator and caller keep their types; what the caller can   *)
(* tell apart by number comes in order.                                    *)
TypeOK ==
  /\ protocol \in { "anthropic", "gemini" }
  /\ phase \in { "before", "open", "stopped", "ended", "cut" }
  /\ \A i \in DOMAIN said :
       said[i].kind \in Kinds /\ said[i].parts \in Seq(1..MaxFragments)
  /\ fragments \in 0..MaxFragments
  /\ reason \in AnthropicReasons \cup GeminiReasons \cup { "" }
  /\ stopReason \in AnthropicReasons \cup { "" }
  /\ finish \in { "", "stop", "length", "tool_calls", "content_filter" }
  /\ toolCalls \in 0..MaxFragments
  /\ promptTokens \in Nat /\ cachedTokens \in Nat
  /\ \A i, j \in DOMAIN text : i < j => text[i].part < text[j].part

(* The caller has every tool call of the answer so far under an index of   *)
(* its own, numbered in the order of the answer, and every fragment of its *)
(* arguments in that call and in order, whatever text and thinking come    *)
(* between and however the blocks overlap (anthropic.go:811-815).          *)
CallsArriveWhole ==
  calls = [i \in 0..(Len(OfKind("tool", said)) - 1) |->
            OfKind("tool", said)[i + 1].parts]

(* The text a client puts together for a choice.                           *)
TextOf(choice) ==
  InOrder([i \in DOMAIN text |-> text[i].part],
          { i \in DOMAIN text : text[i].choice = choice })

(* Anthropic's text is for choice 0 where it stands in block 0 (OneChoice).*)
TextInBlockZero ==
  protocol = "anthropic" =>
    \A i \in PlacesOf("text", said) : said[i].parts # << >> => i = 1

(* A stream that ended has told its caller the finish reason and the tool  *)
(* calls of the same answer without streaming; only of a call without      *)
(* arguments, which the buffered answer has as {}, the caller has nothing  *)
(* (anthropic.go:630-634).  Every fragment of the text has been told for   *)
(* some choice, and where it all stands in block 0, or comes from Gemini,  *)
(* choice 0 has the text of the buffered answer, in its order.  Usage is   *)
(* not told in a stream.                                                   *)
StreamedAsBuffered ==
  phase = "ended" =>
    /\ finish = Buffered.finish
    /\ Buffered.calls = [i \in DOMAIN calls |-> Arguments(calls[i])]
    /\ { text[i].part : i \in DOMAIN text } = Range(Buffered.text)
    /\ TextInBlockZero => TextOf(0) = Buffered.text

(* What is charged for a stream, wherever its body ended, is what its      *)
(* provider had reported, less what it read from its cache, or else the    *)
(* estimate: when it had not yet reported the tokens of the answer, or     *)
(* reported none at all (proxy.go:697-712).                                *)
ChargedAsReported ==
  LET spent == report.fresh + report.out + report.other
      wasReported == report.complete /\ spent + report.cached > 0
  IN phase \in { "ended", "cut" } =>
       Charge = IF wasReported THEN spent ELSE Reserved

(* Refutable: the text of the answer is for the choice that the role, the  *)
(* tool calls and the finish reason are for.                               *)
OneChoice == \A i \in DOMAIN text : text[i].choice = 0
=============================================================================
