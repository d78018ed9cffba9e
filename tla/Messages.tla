-------------------------------- MODULE Messages ------------------------------
(***************************************************************************)
(* What buildAnthropic and toGemini make of an OpenAI conversation         *)
(* (internal/providers): the caller adds its messages, the translator      *)
(* takes them one after another into turns, and then settles the knobs.    *)
(*                                                                         *)
(* A part is known by its place: the message it comes from and its         *)
(* position there, tool calls after the content.                           *)
(***************************************************************************)
EXTENDS Ranks, Sequences, Functions

CONSTANTS
  Messages,      \* messages: role, content (kinds of parts), calls, id, name
  Knobs,         \* settings of the request and of the model it is for
  MaxMessages    \* bound: messages of a conversation

Roles == { "system", "developer", "user", "assistant", "tool" }
Kinds == { "text", "image", "audio", "remote" }
Calls == [id : STRING, name : STRING]

(* The fields of chatMessage; a role the code does not name is a user's,   *)
(* and "function" an older name of "tool".                                 *)
ASSUME MessagesAssumption ==
  /\ MaxMessages \in Nat
  /\ Messages \subseteq [role : Roles, content : Seq(Kinds), calls : Seq(Calls),
                         id : STRING, name : STRING]
  /\ Knobs \subseteq [maxTokens : Int, maxCompletion : Int, budget : Int,
                      effort : STRING, maxOutput : Int, temperature : BOOLEAN,
                      zeroThinking : BOOLEAN, noCache : BOOLEAN]

VARIABLES
  protocol,       \* "anthropic" or "gemini"
  conversation,   \* the caller's messages
  taken,          \* messages taken, -1 while the caller writes
  system,         \* the system prompt: places of its texts
  turns,          \* turns of a role, in parts
  knobs,          \* the settings the request was sent with
  request         \* what is asked of the provider

vars == << protocol, conversation, taken, system, turns, knobs, request >>

Absent == -2
Unset == [maxTokens |-> 0, maxCompletion |-> 0, budget |-> Absent,
          effort |-> "", maxOutput |-> 0, temperature |-> FALSE,
          zeroThinking |-> FALSE, noCache |-> FALSE]
NoRequest == [maxTokens |-> 0, thinking |-> Absent, temperature |-> FALSE,
              marks |-> {}]

Init ==
  /\ protocol \in { "anthropic", "gemini" }
  /\ conversation = << >> /\ taken = -1
  /\ system = << >> /\ turns = << >>
  /\ knobs = Unset /\ request = NoRequest

Say(m) ==
  /\ taken = -1 /\ Len(conversation) < MaxMessages
  /\ conversation' = Append(conversation, m)
  /\ UNCHANGED << protocol, taken, system, turns, knobs, request >>

-----------------------------------------------------------------------------
(* The pass over all calls, before the messages.                           *)

Before(p, q) == p[1] < q[1] \/ (p[1] = q[1] /\ p[2] < q[2])

CallAt(c) == conversation[c[1]].calls[c[2]]

CallsMade ==
  { c \in UNION { { i } \X DOMAIN conversation[i].calls :
                   i \in DOMAIN conversation } :
      CallAt(c).id # "" /\ CallAt(c).name # "" }

LastOf(places) == CHOOSE p \in places : \A q \in places \ { p } : Before(q, p)

(* A function's last id, and an id's last function; "" for none.           *)
idsByName(name) ==
  LET named == { c \in CallsMade : CallAt(c).name = name }
  IN IF named = {} THEN "" ELSE CallAt(LastOf(named)).id

toolNames(id) ==
  LET named == { c \in CallsMade : CallAt(c).id = id }
  IN IF named = {} THEN "" ELSE CallAt(LastOf(named)).name

firstNonEmpty(names) ==
  LET given == { k \in DOMAIN names : names[k] # "" }
  IN IF given = {} THEN "" ELSE names[Nth(1, given)]

Begin ==
  /\ taken = -1 /\ conversation # << >>
  /\ taken' = 0
  /\ UNCHANGED << protocol, conversation, system, turns, knobs, request >>

-----------------------------------------------------------------------------
(* One message.                                                            *)

(* Remote media have nothing to forward; Anthropic takes no audio.         *)
Carried(kind) ==
  kind \in { "text", "image" } \/ (kind = "audio" /\ protocol = "gemini")

Part(kind, place, id, name) ==
  [kind |-> kind, place |-> place, id |-> id, name |-> name]

Kept(m) == { j \in DOMAIN m.content : Carried(m.content[j]) }

ContentParts(m, i) ==
  [k \in 1..Cardinality(Kept(m)) |->
    LET j == Nth(k, Kept(m)) IN Part(m.content[j], << i, j >>, "", "")]

(* A call without an id is given a new one, which no result can name.      *)
CallParts(m, i) ==
  [j \in DOMAIN m.calls |->
    Part("call", << i, Len(m.content) + j >>, m.calls[j].id, m.calls[j].name)]

(* A fault to be caught: the name is looked up before the id is read.      *)
FaultResultParts(m, i) ==
  IF protocol = "anthropic"
    THEN LET id == firstNonEmpty(<< idsByName(m.name), m.id >>)
         IN IF id = "" THEN << >> ELSE << Part("result", << i, 1 >>, id, "") >>
    ELSE << Part("result", << i, 1 >>, "",
              firstNonEmpty(<< m.id, m.name, "function" >>)) >>

(* Anthropic pairs a result with its call by id, Gemini by function name.  *)
ResultParts(m, i) ==
  IF protocol = "anthropic"
    THEN LET id == firstNonEmpty(<< m.id, idsByName(m.name) >>)
         IN IF id = "" THEN << >> ELSE << Part("result", << i, 1 >>, id, "") >>
    ELSE << Part("result", << i, 1 >>, "",
              firstNonEmpty(<< m.name, toolNames(m.id), m.id, "function" >>)) >>

PartsOf(m, i) ==
  CASE m.role = "assistant" -> ContentParts(m, i) \o CallParts(m, i)
    [] m.role = "tool" -> ResultParts(m, i)
    [] OTHER -> ContentParts(m, i)

TurnOf(role) == IF role = "assistant" THEN "assistant" ELSE "user"

(* A fault to be caught: a turn left empty still separates its neighbours. *)
FaultExtended(role, parts) ==
  IF turns # << >> /\ turns[Len(turns)].role = role
    THEN [turns EXCEPT ![Len(turns)].parts = @ \o parts]
    ELSE Append(turns, [role |-> role, parts |-> parts])

(* Turns alternate: a neighbour of the same role takes the parts over, and *)
(* a message with nothing to carry makes no turn.                          *)
Extended(role, parts) ==
  IF parts = << >> THEN turns
  ELSE IF turns # << >> /\ turns[Len(turns)].role = role
    THEN [turns EXCEPT ![Len(turns)].parts = @ \o parts]
    ELSE Append(turns, [role |-> role, parts |-> parts])

Hoisted(m) ==
  m.role = "system" \/ (m.role = "developer" /\ protocol = "anthropic")

Current == conversation[taken + 1]

(* A fault to be caught: places are counted from zero.                     *)
FaultHoist ==
  /\ taken \in 0..(Len(conversation) - 1) /\ Hoisted(Current)
  /\ taken' = taken + 1
  /\ system' = IF "text" \in Range(Current.content)
                 THEN Append(system, taken) ELSE system
  /\ UNCHANGED << protocol, conversation, turns, knobs, request >>

Hoist ==
  /\ taken \in 0..(Len(conversation) - 1) /\ Hoisted(Current)
  /\ taken' = taken + 1
  /\ system' = IF "text" \in Range(Current.content)
                 THEN Append(system, taken') ELSE system
  /\ UNCHANGED << protocol, conversation, turns, knobs, request >>

Take ==
  /\ taken \in 0..(Len(conversation) - 1) /\ ~ Hoisted(Current)
  /\ taken' = taken + 1
  /\ turns' = Extended(TurnOf(Current.role), PartsOf(Current, taken'))
  /\ UNCHANGED << protocol, conversation, system, knobs, request >>

-----------------------------------------------------------------------------
(* The knobs.                                                              *)

DefaultMaxTokens == IF protocol = "anthropic" THEN 16384 ELSE 4096

EffortBudget(effort) ==
  CASE effort = "none" -> 0
    [] effort = "low" -> 1024
    [] effort = "medium" -> 8192
    [] effort = "high" -> IF protocol = "anthropic" THEN 16384 ELSE 24576
    [] OTHER -> Absent

Budget(k) ==
  IF k.budget # Absent THEN k.budget ELSE EffortBudget(k.effort)

(* The newer field wins, and only Anthropic's translator knows the model's *)
(* own cap.                                                                *)
MaxTokens(k) ==
  IF k.maxCompletion > 0 THEN k.maxCompletion
  ELSE IF k.maxTokens > 0 THEN k.maxTokens
  ELSE IF protocol = "anthropic" /\ k.maxOutput > 0 THEN k.maxOutput
  ELSE DefaultMaxTokens

(* The end of the system prompt and of the first turn.                     *)
CacheBreakpoints ==
  (IF system # << >> THEN { << system[Len(system)], 1 >> } ELSE {})
    \cup (IF turns # << >>
             THEN { turns[1].parts[Len(turns[1].parts)].place } ELSE {})

(* A fault to be caught: a cap as large as the budget is left alone.       *)
FaultRoomFor(k) ==
  IF MaxTokens(k) < Budget(k) THEN Budget(k) + 4096
  ELSE MaxTokens(k)

RoomFor(k) ==
  IF MaxTokens(k) <= Budget(k) THEN Budget(k) + 4096
  ELSE MaxTokens(k)

AnthropicRequest(k) ==
  [maxTokens |-> IF Budget(k) > 0 THEN RoomFor(k) ELSE MaxTokens(k),
   thinking |-> IF Budget(k) > 0 THEN Budget(k) ELSE Absent,
   temperature |-> k.temperature /\ Budget(k) <= 0,
   marks |-> IF k.noCache THEN {} ELSE CacheBreakpoints]

(* A budget of zero goes only to the models that can do without thinking.  *)
GeminiRequest(k) ==
  [maxTokens |-> MaxTokens(k),
   thinking |-> IF Budget(k) = 0 /\ ~ k.zeroThinking THEN Absent ELSE Budget(k),
   temperature |-> k.temperature,
   marks |-> {}]

Send ==
  /\ taken = Len(conversation) /\ request = NoRequest
  /\ knobs' \in Knobs
  /\ request' = IF protocol = "anthropic" THEN AnthropicRequest(knobs')
                ELSE GeminiRequest(knobs')
  /\ UNCHANGED << protocol, conversation, taken, system, turns >>

Sent == request # NoRequest

Rest == Sent /\ UNCHANGED vars

Next ==
  \/ (\E m \in Messages : Say(m))
  \/ Begin \/ Hoist \/ Take \/ Send \/ Rest

Spec == Init /\ [][Next]_vars

-----------------------------------------------------------------------------
(* The parts sent, by turn and position there.                             *)
Sendings == UNION { { t } \X DOMAIN turns[t].parts : t \in DOMAIN turns }
PartAt(s) == turns[s[1]].parts[s[2]]

(* The places a message has something for the provider in.                 *)
Meant(i) ==
  LET m == conversation[i]
      calls == { Len(m.content) + j : j \in DOMAIN m.calls }
  IN CASE m.role = "tool" ->
            IF protocol = "gemini" \/ m.id # "" \/ idsByName(m.name) # ""
              THEN { << i, 1 >> } ELSE {}
       [] Hoisted(m) -> {}
       [] m.role = "assistant" -> { i } \X (Kept(m) \cup calls)
       [] OTHER -> { i } \X Kept(m)

(* Conversation, turns and request keep their types.                       *)
TypeOK ==
  /\ protocol \in { "anthropic", "gemini" }
  /\ \A i \in DOMAIN conversation : conversation[i] \in Messages
  /\ taken \in -1..Len(conversation)
  /\ \A i \in DOMAIN system : system[i] \in 1..MaxMessages
  /\ \A t \in DOMAIN turns : turns[t].role \in { "assistant", "user" }
  /\ knobs \in Knobs \cup { Unset }
  /\ request.maxTokens \in Nat
  /\ request.thinking \in Int
  /\ request.temperature \in BOOLEAN
  /\ request.marks \subseteq (1..MaxMessages) \X Nat

(* The turns alternate, none is empty, and they say what the conversation  *)
(* said: each part the provider can carry once, in order and in a turn of  *)
(* its role, across hoisted, dropped and merged messages                   *)
(* (anthropic.go:317-376, gemini.go:315-371).                              *)
TurnsSayTheConversation ==
  /\ \A t \in DOMAIN turns : turns[t].parts # << >>
  /\ \A t \in 1..(Len(turns) - 1) : turns[t].role # turns[t + 1].role
  /\ \A r, s \in Sendings :
       Before(r, s) => Before(PartAt(r).place, PartAt(s).place)
  /\ { PartAt(s).place : s \in Sendings } = UNION { Meant(i) : i \in 1..taken }
  /\ \A s \in Sendings :
       turns[s[1]].role = TurnOf(conversation[PartAt(s).place[1]].role)

(* The results of a conversation as callers hold it: each answers a call   *)
(* an assistant message made before it, by id; a message without the id    *)
(* names a function called once.                                           *)
CalledBefore(i, c) ==
  c[1] < i /\ conversation[c[1]].role = "assistant"

WellPaired ==
  \A i \in DOMAIN conversation :
    LET m == conversation[i]
    IN m.role = "tool" =>
         \E c \in CallsMade :
           /\ CalledBefore(i, c)
           /\ IF m.id # ""
                THEN CallAt(c).id = m.id /\ m.name \in { "", CallAt(c).name }
                ELSE /\ CallAt(c).name = m.name
                     /\ \A d \in CallsMade :
                          CallAt(d).name = m.name => CallAt(d) = CallAt(c)

DistinctIds ==
  \A c, d \in CallsMade : CallAt(c).id = CallAt(d).id => CallAt(c) = CallAt(d)

(* Every result of such a conversation is sent paired with the call it     *)
(* answers, which an earlier turn carries: by id to Anthropic, by the      *)
(* function's name to Gemini (anthropic.go:304-313, gemini.go:304-313).    *)
ResultsAnswerCalls ==
  WellPaired /\ DistinctIds =>
    \A r \in Sendings : PartAt(r).kind = "result" =>
      \E s \in Sendings :
        /\ s[1] < r[1] /\ PartAt(s).kind = "call"
        /\ IF protocol = "anthropic" THEN PartAt(s).id = PartAt(r).id
           ELSE PartAt(s).name = PartAt(r).name
        /\ conversation[PartAt(r).place[1]].id \in { "", PartAt(s).id }

(* Whatever mixture of old and new fields, presets and model caps a        *)
(* request comes with, it is sent with the budget the caller chose, if it  *)
(* can be sent; to Anthropic with room beyond it and without a temperature *)
(* (anthropic.go:381-397, gemini.go:280-285, 379-394).                     *)
ThinkingHasRoom ==
  Sent =>
    /\ request.maxTokens > 0
    /\ knobs.budget > 0 => request.thinking = knobs.budget
    /\ protocol = "anthropic" /\ request.thinking # Absent =>
         request.maxTokens > request.thinking /\ ~ request.temperature
    /\ protocol = "gemini" /\ request.thinking = 0 => knobs.zeroThinking
    /\ request.thinking <= 0 /\ knobs.maxTokens + knobs.maxCompletion > 0 =>
         request.maxTokens \in { knobs.maxTokens, knobs.maxCompletion }
=============================================================================
