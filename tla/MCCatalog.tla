------------------------------ MODULE MCCatalog ------------------------------
(* Instance of Catalog.                                                    *)
EXTENDS Catalog, TLC

Provider(name, adapter, hasBase, ctx, keys) ==
  [name |-> name, adapter |-> adapter, hasBase |-> hasBase, ctx |-> ctx,
   keys |-> keys]

MCKeys == { "k1" }

(* Every adapter; names alike but for their case, and one that is a        *)
(* compiled provider's; entries with each of the mistakes.                 *)
MCProviderEntries ==
  { Provider("claude", "anthropic", FALSE, 0, { "k1" }),
    Provider("google", "gemini", FALSE, 5, { "k1" }),
    Provider("gemini", "openai-compat", TRUE, 0, { "k1" }),
    Provider("main", "openai", FALSE, 1, { "k1" }),
    Provider("Main", "openai-compat", TRUE, 2, { "k1" }),
    Provider("x", "openai", FALSE, -1, { "k1" }),
    Provider("x", "cohere", FALSE, 0, { "k1" }),
    Provider("x", "openai-compat", FALSE, 0, { "k1" }),
    Provider("x", "openai", FALSE, 0, {}),
    Provider("x", "openai", FALSE, 0, { "k2" }) }

MCSlug ==
  ("claude" :> "claude") @@ ("google" :> "google") @@ ("gemini" :> "gemini")
    @@ ("main" :> "main") @@ ("Main" :> "main")

Field(key, values) == { [key |-> key, value |-> value] : value \in values }

MCModelFields ==
  Field("kind", Kinds \cup { "images" })
    \cup Field("providers",
           { << >>, << "claude" >>, << "google", "main" >>, << "main", "claude" >>,
             << "gemini", "google" >>, << "Main", "main" >>, << "claude", "gemini" >> })
    \cup Field("ctx", { 0, 2 })
    \cup Field("dims", { 3 })
    \cup Field("media", { {}, { "image" }, { "image", "audio" }, { "video" } })
    \cup Field("thinking", { TRUE })
    \cup Field("rpm", { 1 }) \cup Field("tpm", { 1 }) \cup Field("cpd", { 1 })
    \cup Field("upstream", { 1 })

Request(route, parts, maxTokens, dims) ==
  [route |-> route, parts |-> parts, maxTokens |-> maxTokens, dims |-> dims]

MCRequests ==
  { Request("chat", << "text" >>, 0, 0), Request("chat", << "text" >>, 1, 0),
    Request("chat", << "text" >>, 4, 0),
    Request("chat", << "text", "image" >>, 0, 0),
    Request("chat", << "image", "audio" >>, 0, 0),
    Request("chat", << "video" >>, 0, 0),
    Request("chat", << "text", "video", "image" >>, 0, 0),
    Request("chat", << "empty audio" >>, 0, 0),
    Request("embeddings", << "text" >>, 0, 0),
    Request("embeddings", << "text" >>, 0, 3),
    Request("embeddings", << "text", "text" >>, 0, 2),
    Request("tts", << "text" >>, 0, 0), Request("stt", << "audio" >>, 0, 0) }
=============================================================================
