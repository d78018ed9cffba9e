-------------------------------- MODULE Catalog --------------------------------
(***************************************************************************)
(* From the configuration files to the slots that may serve a request:     *)
(* loadProviders and parseModel entry by entry and field by field          *)
(* (internal/config/load.go), the registry that finds a slot's adapter     *)
(* (internal/providers/registry.go), the gates of Dispatch by kind, media  *)
(* and context (internal/proxy), and the listing (internal/server).        *)
(*                                                                         *)
(* One model is read, with any providers; the answers of the gates depend  *)
(* on no other.  Token counts are in thousands.  What a loop over the      *)
(* slots keeps is the set of their places; the proofs read this module     *)
(* together with Boot, hence the prefix of Init, Next and Spec.            *)
(***************************************************************************)
EXTENDS Ranks, Sequences, Functions

CONSTANTS
  ProviderEntries,  \* entries a provider file may hold
  Slug,             \* provider name -> name in lower case
  KnownKeys,        \* key names of keys.env
  ModelFields,      \* fields a model entry may hold: key and value
  Requests,         \* requests: route, parts of the body, maxTokens, dims
  MaxProviders,     \* bound: entries of the provider file
  MaxFields         \* bound: fields of the model entry

(* A list of providers is a list of names; the server has a route for each *)
(* kind and no other.                                                      *)
Kinds == { "chat", "embeddings", "tts", "stt" }

ASSUME CatalogAssumption ==
  /\ MaxProviders \in Nat
  /\ \A f \in ModelFields : f.key = "providers" => f.value \in Seq(STRING)
  /\ \A r \in Requests : r.route \in Kinds

VARIABLES
  phase,      \* "providers", "model", "serving" or "refused"
  providers,  \* the provider entries accepted, in file order
  model,      \* the fields of the model entry, by key
  slots,      \* the slots it expands to
  noTools,    \* the last probe of the model was refused its tools
  request,    \* the last request,
  answer      \* the providers that may serve it, or why none may

catalogVars == << phase, providers, model, slots, noTools, request, answer >>

Adapters == { "openai", "anthropic", "gemini", "openai-compat" }
Media == { "image", "audio", "video" }

(* What each adapter can translate, besides chat.                          *)
adapterCaps ==
  [ adapter \in Adapters |->
      CASE adapter = "openai" -> { "image", "audio", "embeddings", "stt", "tts" }
        [] adapter = "anthropic" -> { "image" }
        [] adapter = "gemini" -> Media \cup { "embeddings" }
        [] adapter = "openai-compat" -> Media \cup Kinds ]

providerProtocol(adapter) ==
  IF adapter = "openai-compat" THEN "openai" ELSE adapter

limitNames(kind) ==
  CASE kind \in { "chat", "embeddings" } -> { "rpm", "rpd", "tpm", "tpd" }
    [] kind = "tts" -> { "rpm", "rpd", "cpm", "cpd", "daily-audio-sec" }
    [] kind = "stt" -> { "rpm", "rpd", "daily-audio-sec", "audio-min" }
    [] OTHER -> {}

Empty == << >>   \* no fields, no request, no answer

CatalogInit ==
  /\ phase = "providers" /\ providers = << >>
  /\ model = Empty /\ slots = << >>
  /\ noTools = FALSE /\ request = Empty /\ answer = Empty

Refuse ==
  /\ phase' = "refused"
  /\ UNCHANGED << providers, model, slots, noTools, request, answer >>

-----------------------------------------------------------------------------
(* The provider file.  A ctx of zero is one that is not given.             *)

Acceptable(p) ==
  /\ p.ctx >= 0
  /\ p.adapter \in Adapters
  /\ p.adapter = "openai-compat" => p.hasBase
  /\ p.keys # {} /\ p.keys \subseteq KnownKeys

Named(name) == CHOOSE p \in Range(providers) : p.name = name
Names == { providers[i].name : i \in DOMAIN providers }

ReadProvider(p) ==
  /\ phase = "providers" /\ Len(providers) < MaxProviders
  /\ p.name \notin Names
  /\ Acceptable(p)
  /\ providers' = Append(providers, p)
  /\ UNCHANGED << phase, model, slots, noTools, request, answer >>

RefuseProvider(p) ==
  /\ phase = "providers" /\ Len(providers) < MaxProviders
  /\ ~Acceptable(p)
  /\ Refuse

ProvidersEnd ==
  /\ phase = "providers"
  /\ IF providers = << >> THEN Refuse
     ELSE /\ phase' = "model"
          /\ UNCHANGED << providers, model, slots, noTools, request, answer >>

-----------------------------------------------------------------------------
(* The model entry: fields in any order, none of them twice.               *)

Has(key) == key \in DOMAIN model
kindSoFar == IF Has("kind") THEN model.kind ELSE "unread"

(* A fault to be caught: a limit of any kind is taken.                     *)
FaultMaybeLimit(key) == \E kind \in Kinds : key \in limitNames(kind)

(* A limit is known by the kind read so far.                               *)
maybeLimit(key) == key \in limitNames(kindSoFar)

ValidField(key, value) ==
  CASE key = "kind" -> value \in Kinds
    [] key = "providers" -> value # << >> /\ Range(value) \subseteq Names
    [] key \in { "ctx", "dims" } -> value > 0
    [] key = "media" -> value \subseteq Media
    [] key = "thinking" -> value \in BOOLEAN
    [] OTHER -> maybeLimit(key) /\ value > 0

ReadField(key, value) ==
  /\ phase = "model" /\ Cardinality(DOMAIN model) < MaxFields
  /\ ~Has(key)
  /\ IF ValidField(key, value)
       THEN /\ model' = [k \in DOMAIN model \cup {key} |->
                            IF k = key THEN value ELSE model[k]]
            /\ UNCHANGED << phase, providers, slots, noTools, request, answer >>
       ELSE Refuse

kindSupports(kind, adapter) ==
  kind = "chat" \/ kind \in adapterCaps[adapter]

(* A chat model takes the media its adapter can translate, unless a list   *)
(* narrows them.                                                           *)
SlotMedia(p) ==
  IF kindSoFar # "chat" THEN {}
  ELSE adapterCaps[p.adapter] \cap (IF Has("media") THEN model.media ELSE Media)

SlotOf(p) ==
  [ provider |-> p.name, kind |-> kindSoFar, media |-> SlotMedia(p),
    ctxOverride |-> p.ctx, ctx |-> IF Has("ctx") THEN model.ctx ELSE 0,
    dims |-> IF Has("dims") THEN model.dims ELSE 0,
    thinking |-> Has("thinking") /\ model.thinking,
    tools |-> kindSoFar = "chat" ]

declared == IF Has("providers") THEN model.providers ELSE << >>

CanExpand ==
  /\ Has("kind")
  /\ Has("media") \/ Has("thinking") => model.kind = "chat"
  /\ \A i \in DOMAIN declared :
       kindSupports(model.kind, Named(declared[i]).adapter)

expandSlots ==
  /\ phase = "model"
  /\ IF CanExpand
       THEN /\ phase' = "serving"
            /\ slots' = [i \in DOMAIN declared |-> SlotOf(Named(declared[i]))]
            /\ UNCHANGED << providers, model, noTools, request, answer >>
       ELSE Refuse

-----------------------------------------------------------------------------
(* The gates of a request.                                                 *)

(* An image part with a video in it is a video, and audio without data is  *)
(* nothing.                                                                *)
HasMediaInput(r) == Range(r.parts) \cap Media

PartTokens(part) ==
  CASE part = "video" -> 4
    [] part \in { "image", "text" } -> 1
    [] OTHER -> 0

(* Every part has its flat price, to which the completion is added.        *)
estimateTokens(r) ==
  FoldFunction(LAMBDA part, sum : sum + PartTokens(part), r.maxTokens, r.parts)

(* A fault to be caught: the model's window beats the provider's.          *)
FaultEffectiveCtx(slot) == IF slot.ctx # 0 THEN slot.ctx ELSE slot.ctxOverride

(* The provider's window beats the model's; zero is no window.             *)
EffectiveCtx(slot) ==
  IF slot.ctxOverride # 0 THEN slot.ctxOverride ELSE slot.ctx

kindOf(route) == IF route \in Kinds THEN route ELSE "chat"

(* Each gate keeps the places of the slots that pass it.                   *)
kindSlots(r) == { i \in DOMAIN slots : slots[i].kind = kindOf(r.route) }

mediaSlots(r) ==
  { i \in kindSlots(r) :
      r.route = "chat" => HasMediaInput(r) \subseteq slots[i].media }

slotsWithinContext(r) ==
  { i \in mediaSlots(r) : \/ EffectiveCtx(slots[i]) = 0
                          \/ estimateTokens(r) <= EffectiveCtx(slots[i]) }

(* Slots that state a size of embeddings constrain what may be asked.      *)
checkDims(r) ==
  LET sizes == { slots[i].dims : i \in DOMAIN slots } \ {0}
  IN r.route = "embeddings" /\ r.dims # 0 /\ sizes # {} => r.dims \in sizes

Reason(r) ==
  CASE ~checkDims(r) -> "dimensions"
    [] checkDims(r) /\ kindSlots(r) = {} -> "endpoint"
    [] checkDims(r) /\ kindSlots(r) # {} /\ mediaSlots(r) = {} -> "media"
    [] checkDims(r) /\ mediaSlots(r) # {} /\ slotsWithinContext(r) = {} ->
         "context"
    [] OTHER -> "none"

Answer(r) ==
  [ error |-> Reason(r),
    chosen |-> IF checkDims(r)
                 THEN InOrder([i \in DOMAIN slots |-> slots[i].provider],
                              slotsWithinContext(r))
                 ELSE << >> ]

Ask(r) ==
  /\ phase = "serving"
  /\ request' = r /\ answer' = Answer(r)
  /\ UNCHANGED << phase, providers, model, slots, noTools >>

(* A boot probe of the model has an answer.                                *)
RecordCapability(supportsTools) ==
  /\ phase = "serving" /\ slots # << >>
  /\ noTools' = ~supportsTools
  /\ UNCHANGED << phase, providers, model, slots, request, answer >>

-----------------------------------------------------------------------------
(* The adapter of a slot, by the name of its provider: the compiled ones   *)
(* first, then those of the file, the last of a name in lower case.        *)

builtin == { "openai", "anthropic", "gemini" }

Lookup(name) ==
  LET same == { i \in DOMAIN providers : Slug[providers[i].name] = Slug[name] }
      last == CHOOSE i \in same : \A j \in same : j <= i
  IN IF Slug[name] \in builtin THEN Slug[name]
     ELSE providerProtocol(providers[last].adapter)

(* A fault to be caught: a later slot overwrites what an earlier one said. *)
FaultModelInfos ==
  LET said == { slots[i] : i \in DOMAIN slots \cap {Len(slots)} }
  IN [ media |-> UNION { slot.media : slot \in said },
       thinking |-> \E slot \in said : slot.thinking,
       tools |-> said # {} /\ (\A slot \in said : slot.tools) /\ ~noTools ]

(* Media of any slot, tools of every slot.                                 *)
modelInfos ==
  LET all == { slots[i] : i \in DOMAIN slots }
  IN [ media |-> UNION { slot.media : slot \in all },
       thinking |-> \E slot \in all : slot.thinking,
       tools |-> all # {} /\ (\A slot \in all : slot.tools) /\ ~noTools ]

Refused == phase = "refused" /\ UNCHANGED catalogVars

CatalogNext ==
  \/ \E p \in ProviderEntries : ReadProvider(p) \/ RefuseProvider(p)
  \/ ProvidersEnd
  \/ \E f \in ModelFields : ReadField(f.key, f.value)
  \/ expandSlots
  \/ \E r \in Requests : Ask(r)
  \/ \E supportsTools \in BOOLEAN : RecordCapability(supportsTools)
  \/ Refused

CatalogSpec == CatalogInit /\ [][CatalogNext]_catalogVars
-----------------------------------------------------------------------------
(* Types.  Of an accepted model every setting means something for its      *)
(* kind, its limits included, whatever the order of the fields: an         *)
(* operator is never left to believe in a restriction that is not applied  *)
(* (load.go:386-397, 404-426).                                             *)
Structural ==
  { "kind", "providers", "ctx", "dims", "media", "thinking" }

CatalogTypeOK ==
  /\ phase \in { "providers", "model", "serving", "refused" }
  /\ providers \in Seq(ProviderEntries) /\ Len(providers) <= MaxProviders
  /\ noTools \in BOOLEAN
  /\ \A i \in DOMAIN slots : slots[i].kind \in Kinds
  /\ phase = "serving" =>
       /\ DOMAIN model \ Structural \subseteq limitNames(model.kind)
       /\ Has("media") \/ Has("thinking") => model.kind = "chat"

(* The files, read plainly: what a provider takes is what its adapter can  *)
(* translate and the model's list lets it; the window that applies must    *)
(* have room.                                                              *)
Takes(p, r) ==
  /\ r.route \in {"chat"} \cup adapterCaps[p.adapter]
  /\ r.route = "chat" =>
       HasMediaInput(r) \subseteq
         adapterCaps[p.adapter] \cap (IF Has("media") THEN model.media ELSE Media)

HasRoom(p, r) ==
  LET window == IF p.ctx # 0 THEN p.ctx ELSE IF Has("ctx") THEN model.ctx ELSE 0
  IN window # 0 => estimateTokens(r) <= window

DimsFit(r) ==
  r.route = "embeddings" /\ r.dims # 0 /\ Has("dims") => r.dims = model.dims

Fits(p, r) ==
  /\ r.route = model.kind
  /\ DimsFit(r) /\ Takes(p, r) /\ HasRoom(p, r)

(* Names of the file that differ only in case, or that are those of a      *)
(* compiled provider of another protocol, are not told apart.              *)
OwnName(name) ==
  /\ \A other \in Names \ {name} : Slug[other] # Slug[name]
  /\ Slug[name] \in builtin =>
       Slug[name] = providerProtocol(Named(name).adapter)

(* A request goes to the providers the files say can serve it, to all of   *)
(* them and in the declared order, each through an adapter of its declared *)
(* protocol; a request nobody may serve is refused for a reason that       *)
(* holds.  This is the promise of mediaSlots (proxy.go:287-292) and        *)
(* slotsWithinContext across the loader, the gates and the registry.       *)
ChosenCanServe ==
  request # Empty =>
    LET fits == { i \in DOMAIN declared : Fits(Named(declared[i]), request) }
        taken == { i \in DOMAIN declared : Takes(Named(declared[i]), request) }
    IN /\ answer.chosen = InOrder(declared, fits)
       /\ \A i \in fits : OwnName(declared[i]) =>
            Lookup(declared[i]) = providerProtocol(Named(declared[i]).adapter)
       /\ answer.error = "none" <=> fits # {}
       /\ answer.error = "dimensions" => ~DimsFit(request)
       /\ answer.error = "endpoint" =>
            declared = << >> \/ request.route # model.kind
       /\ answer.error = "media" => taken = {}
       /\ answer.error = "context" => taken # {}

(* The listing agrees with the gates: a medium is advertised exactly when  *)
(* a chat request that carries it passes the media gate, and tools only of *)
(* a chat model whose probe was not refused them (server.go:352-357).      *)
ListingHonest ==
  phase = "serving" =>
    /\ \A medium \in Media :
         LET alone == [route |-> "chat", parts |-> << medium >>,
                       maxTokens |-> 0, dims |-> 0]
         IN medium \in modelInfos.media <=> mediaSlots(alone) # {}
    /\ modelInfos.tools => model.kind = "chat" /\ ~noTools
    /\ modelInfos.thinking => model.kind = "chat"
=============================================================================
