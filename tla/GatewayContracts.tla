-------------------------- MODULE GatewayContracts --------------------------
(***************************************************************************)
(* What the model gateway accepts, which model it selects, what it asks of *)
(* a server, and which answers it lets through: the validation, routing,   *)
(* adapters and normalisation of src/src/personal_ai_os/model_gateway.     *)
(*                                                                         *)
(* One exchange at a time goes through the stages of generate, embed or    *)
(* health.  Retries, circuits and residency are in ModelGateway.  A text   *)
(* is its length or the JSON value it spells; an optional value is a set   *)
(* with at most one element.  The validator of schemas and values is a     *)
(* parameter: it is in GatewayValidation.                                  *)
(***************************************************************************)
EXTENDS Naturals, Sequences, FiniteSets, SequencesExt

CONSTANTS
    Exchanges,          \* requests with the state of the servers they meet
    Values,             \* JSON values a server may spell
    ToolCalls,          \* sequences of tool calls a server may propose
    Vectors,            \* sequences of vectors a server may return
    MaxMessages, MaxText,           \* limits of GatewaySettings
    MaxImages, MaxImageBytes,
    MaxBatch, MaxTextChars, MaxBatchChars,
    MaxTools,                           \* limit written in the code
    ValidateSchema(_),                  \* outcomes of validate_schema,
    ValidateValue(_, _)                 \* and of validate_structured_value

ASSUME ContractLimits ==
    /\ {MaxMessages, MaxText, MaxImages, MaxImageBytes} \subseteq Nat \ {0}
    /\ {MaxBatch, MaxTextChars, MaxBatchChars} \subseteq Nat \ {0}
    /\ MaxTools \in Nat
ASSUME ExchangeKinds ==
    \A e \in Exchanges : e.request.kind \in {"generate", "embed", "health"}

VARIABLES
    stage,      \* how far the exchange got
    exchange,   \* the request and the servers it meets
    model,      \* the model it was routed to, if any
    result,     \* what the adapter made of the server's answer, if any
    verdict     \* how the exchange ended

contractVars == <<stage, exchange, model, result, verdict>>

-----------------------------------------------------------------------------
(* ModelIdentity: the registry of three models.                             *)
Fast == "qwen3.5:4b"
Embedder == "bge-m3:567m"
Heretic == "qwen3.5-heretic:9b-q4km"
CoreHealth == {Fast, Embedder}
AllModels == CoreHealth \cup {Heretic}

Identity == [m \in AllModels |->
    CASE m = Fast ->
          [server |-> "ollama", budgets |-> {4096, 8192, 16384}, output |-> 256,
           modalities |-> {"text", "image"},
           capabilities |-> {"generation", "chat", "structured_output",
                             "tool_call_proposal", "vision", "multilingual"}]
      [] m = Embedder ->
          [server |-> "ollama", budgets |-> {}, output |-> 0,
           modalities |-> {"text"}, capabilities |-> {"embeddings"}]
      [] m = Heretic ->
          [server |-> "llama_cpp", budgets |-> {4096}, output |-> 256,
           modalities |-> {"text"}, capabilities |-> {"generation", "chat"}]]

(* route_model: no fallback and no guessing.                                *)
Named(profile) ==
    CASE profile = "fast" -> Fast
      [] profile = "advanced" -> Heretic
      [] OTHER -> profile
TextCapabilities ==
    {"generation", "chat", "structured_output", "tool_call_proposal", "multilingual"}
AdvancedServes_All(capability) == TRUE
AdvancedServes(capability) == capability \in {"generation", "chat"}

Routes(m, capability, modalities, profile) ==
    /\ \/ m = Embedder /\ capability = "embeddings" /\ modalities = {"text"}
       \/ m = Fast /\ capability = "vision" /\ modalities = {"text", "image"}
       \/ /\ capability \in TextCapabilities /\ modalities = {"text"}
          /\ m = IF Named(profile) = Heretic THEN Heretic ELSE Fast
          /\ m = Heretic => AdvancedServes(capability)
    /\ profile # "none" => Named(profile) = m

Routable(capability, modalities, profile) ==
    {m \in AllModels : Routes(m, capability, modalities, profile)}

-----------------------------------------------------------------------------
(* _validate_generation_request and _validate_embedding_request             *)

Total(sizes) == FoldSeq(LAMBDA x, sum : x + sum, 0, sizes)
TotalSize(parts) == Total([i \in DOMAIN parts |-> parts[i].size])
Modalities(r) == IF r.images = <<>> THEN {"text"} ELSE {"text", "image"}

MessagesValid(r) ==
    /\ r.identified
    /\ Len(r.messages) \in 1..MaxMessages
    /\ \A i \in DOMAIN r.messages : r.messages[i].size > 0
    /\ TotalSize(r.messages) <= MaxText
    /\ r.output \in 1..256
BudgetsValid(r, m) ==
    /\ r.context \in Identity[m].budgets
    /\ r.output <= Identity[m].output
    /\ r.context > 4096 => r.output <= 32
ImagesValid(r) ==
    /\ r.capability = "vision" <=> r.images # <<>>
    /\ Len(r.images) <= MaxImages
    /\ \A i \in DOMAIN r.images : r.images[i].supported /\ r.images[i].size > 0
    /\ TotalSize(r.images) <= MaxImageBytes

SchemaOutcome(r) ==
    IF r.capability = "structured_output"
    THEN IF r.schema = {} \/ r.tools # <<>> THEN {"refused"}
         ELSE UNION {ValidateSchema(s) : s \in r.schema}
    ELSE IF r.schema # {} THEN {"refused"} ELSE {"accepted"}

(* _validate_tools checks one definition after the other.                   *)
ToolOutcome(tools, i) ==
    IF ~tools[i].named \/ \E j \in 1..(i - 1) : tools[j].name = tools[i].name
    THEN {"refused"}
    ELSE ValidateSchema(tools[i].schema)
ToolOutcomes(r) ==
    IF r.capability = "tool_call_proposal"
    THEN IF r.tools = <<>> \/ Len(r.tools) > MaxTools THEN {"refused"}
         ELSE LET bad == {i \in DOMAIN r.tools : ToolOutcome(r.tools, i) # {"accepted"}}
              IN IF bad = {} THEN {"accepted"}
                 ELSE ToolOutcome(r.tools, CHOOSE i \in bad : \A j \in bad : i <= j)
                        \ {"accepted"}
    ELSE IF r.tools # <<>> THEN {"refused"} ELSE {"accepted"}

(* The outcomes of the validation for the model m, in the order of the code.*)
GenerationOutcomes(r, m) ==
    CASE ~(BudgetsValid(r, m) /\ r.inTime /\ ImagesValid(r)) -> {"refused"}
      [] OTHER -> IF SchemaOutcome(r) # {"accepted"} THEN SchemaOutcome(r) ELSE ToolOutcomes(r)

TextsValid(r) ==
    /\ r.identified
    /\ Len(r.texts) \in 1..MaxBatch
    /\ \A i \in DOMAIN r.texts : r.texts[i] \in 1..MaxTextChars
    /\ Total(r.texts) <= MaxBatchChars

-----------------------------------------------------------------------------
(* Transport: _request_json of both adapters, and the category _with_retry  *)
(* gives to the failure that remains.                                       *)
(* A server that is not configured is one without a listener.               *)
Responses == {"200", "408", "429", "400", "503", "silence", "no listener",
              "not json", "cut short"}
Raised(response) ==
    CASE response \in {"408", "silence"} -> "timeout"
      [] response \in {"429", "503"} -> "transient"
      [] response = "400" -> "request"
      [] response = "no listener" -> "offline"
      [] response = "not json" -> "contract"
      [] response = "cut short" -> "unexpected"
      [] OTHER -> "none"
Category(error) ==
    CASE error = "offline" -> "provider_unavailable"
      [] error = "timeout" -> "timeout"
      [] error = "transient" -> "provider_transient_failure"
      [] OTHER -> "provider_contract_violation"

Server(m) == exchange.servers[Identity[m].server]
Present(server, m) == server.models[m] # "missing"
Pinned(server, m) == server.models[m] = "pinned"

NoModel == "none"
NoResult == [text |-> "blank", spelled |-> {}, calls |-> <<>>, vectors |-> <<>>]
NoVerdict == [outcome |-> "none", category |-> "none", advanced |-> "none"]
Verdict(outcome, category) == [outcome |-> outcome, category |-> category, advanced |-> "none"]
NoExchange == [kind |-> "none"]

ContractInit ==
    /\ stage = "idle"
    /\ exchange = NoExchange
    /\ model = NoModel
    /\ result = NoResult
    /\ verdict = NoVerdict

End(outcome, category) ==
    /\ stage' = "ended"
    /\ verdict' = Verdict(outcome, category)
HealthVerdict(core, advanced) ==
    /\ stage' = "ended"
    /\ verdict' = [outcome |-> "health", category |-> core, advanced |-> advanced]
Fail(error) == End("failed", Category(error))

Submit ==
    /\ stage = "idle"
    /\ \E e \in Exchanges :
         /\ exchange' = e
         /\ stage' = IF e.enabled THEN e.request.kind ELSE "disabled"
    /\ UNCHANGED <<model, result, verdict>>

Disabled ==
    /\ stage = "disabled"
    /\ IF exchange.request.kind = "health" THEN HealthVerdict("offline", "offline")
       ELSE End("failed", "provider_unavailable")
    /\ UNCHANGED <<exchange, model, result>>

ValidateGeneration ==
    LET r == exchange.request
        routable == Routable(r.capability, Modalities(r), r.profile)
    IN
    /\ stage = "generate"
    /\ \/ /\ ~MessagesValid(r)
          /\ End("failed", "invalid_request")
          /\ UNCHANGED model
       \/ /\ MessagesValid(r)
          /\ routable = {}
          /\ End("failed", "unsupported_capability")
          /\ UNCHANGED model
       \/ /\ MessagesValid(r)
          /\ \E m \in routable : \E o \in GenerationOutcomes(r, m) :
               \/ o = "accepted" /\ stage' = "routed" /\ model' = m /\ UNCHANGED verdict
               \/ o = "refused" /\ End("failed", "invalid_request") /\ UNCHANGED model
               \/ o = "raised" /\ End("raised", "none") /\ UNCHANGED model
    /\ UNCHANGED <<exchange, result>>

ValidateEmbedding ==
    LET r == exchange.request
        routable == Routable("embeddings", {"text"}, r.profile)
    IN
    /\ stage = "embed"
    /\ \/ /\ ~(TextsValid(r) /\ r.inTime)
          /\ End("failed", "invalid_request")
          /\ UNCHANGED model
       \/ /\ TextsValid(r) /\ r.inTime
          /\ routable = {}
          /\ End("failed", "unsupported_capability")
          /\ UNCHANGED model
       \/ /\ TextsValid(r) /\ r.inTime
          /\ \E m \in routable : model' = m
          /\ stage' = "routed"
          /\ UNCHANGED verdict
    /\ UNCHANGED <<exchange, result>>

(* _verify_identity                                                         *)
VerifyArtifact ==
    LET server == Server(model) IN
    /\ stage = "routed"
    /\ CASE Raised(server.response) # "none" -> Fail(Raised(server.response))
         [] ~Present(server, model) -> End("failed", "provider_unavailable")
         [] Present(server, model) /\ ~Pinned(server, model) ->
              End("failed", "model_identity_mismatch")
         [] OTHER -> stage' = "verified" /\ UNCHANGED verdict
    /\ UNCHANGED <<exchange, model, result>>

-----------------------------------------------------------------------------
(* The adapters.  What they refuse to send:                                 *)
Unsendable(r) ==
    IF Identity[model].server = "llama_cpp"
    THEN r.images # <<>> \/ r.schema # {} \/ r.tools # <<>>
    ELSE r.images # <<>> /\ ~\E i \in DOMAIN r.messages : r.messages[i].role = "user"

(* What a server may answer, as far as the capability makes a difference.   *)
Texts == [text : {"blank", "words"}, spelled : {{}}]
Spelled == {[text |-> "words", spelled |-> {v}] : v \in Values}
Answers ==
    LET r == exchange.request
        texts == CASE r.kind = "embed" -> {[text |-> "blank", spelled |-> {}]}
                   [] r.kind = "generate" /\ r.capability = "structured_output" ->
                        Texts \cup Spelled
                   [] OTHER -> Texts
        calls == IF r.kind = "generate" /\ r.capability = "tool_call_proposal"
                 THEN ToolCalls ELSE {<<>>}
        vectors == IF r.kind = "embed" THEN Vectors ELSE {<<>>}
    IN {[text |-> t.text, spelled |-> t.spelled, calls |-> c, vectors |-> v] :
          t \in texts, c \in calls, v \in vectors}

(* An answer is well formed, or a part the adapter reads is not.            *)
Flaws == {"none", "message", "content", "calls", "usage", "finish", "reasoning only"}
Violates(flaw) ==
    CASE Identity[model].server = "llama_cpp" -> flaw \in {"message", "content", "usage"}
      [] exchange.request.kind = "embed" -> flaw = "message"
      [] OTHER -> flaw \in {"message", "content", "calls", "usage", "finish"}
(* llama.cpp may put the words in reasoning_content; it has no tool calls.  *)
Read(answer, flaw) ==
    IF Identity[model].server = "llama_cpp" /\ flaw = "reasoning only"
    THEN [answer EXCEPT !.text = "words"]
    ELSE answer

Ask ==
    /\ stage = "verified"
    /\ \/ /\ exchange.request.kind = "generate"
          /\ Unsendable(exchange.request)
          /\ Fail("request")
          /\ UNCHANGED result
       \/ /\ exchange.request.kind = "generate" => ~Unsendable(exchange.request)
          /\ \/ \E response \in Responses \ {"200"} :
                  Fail(Raised(response)) /\ UNCHANGED result
             \/ \E flaw \in Flaws : \E answer \in Answers :
                  IF Violates(flaw)
                  THEN Fail("contract") /\ UNCHANGED result
                  ELSE /\ result' = Read(answer, flaw)
                       /\ stage' = "answered"
                       /\ UNCHANGED verdict
    /\ UNCHANGED <<exchange, model>>

-----------------------------------------------------------------------------
(* _normalize_generation, _normalize_tool_calls, _normalize_vectors         *)

CallOutcomes(call, tools) ==
    LET defined == {i \in DOMAIN tools : tools[i].name = call.name} IN
    IF defined = {} THEN {"rejected"}
    ELSE ValidateValue(call.arguments, tools[CHOOSE i \in defined : TRUE].schema)
CallsOutcomes(calls, tools) ==
    IF Len(calls) > Len(tools) THEN {"rejected"}
    ELSE LET bad == {i \in DOMAIN calls : CallOutcomes(calls[i], tools) # {"fits"}}
         IN IF bad = {} THEN {"fits"}
            ELSE CallOutcomes(calls[CHOOSE i \in bad : \A j \in bad : i <= j], tools)
                   \ {"fits"}

VectorFits(v) == v.full /\ v.values = "finite"
CountFits(r) == result.vectors # <<>> /\ Len(result.vectors) = Len(r.texts)

NormalOutcomes(r) ==
    CASE r.kind = "embed" ->
           IF (\A i \in DOMAIN result.vectors : VectorFits(result.vectors[i])) /\ CountFits(r)
           THEN {"fits"} ELSE {"rejected"}
      [] r.kind = "generate" /\ r.capability = "structured_output" ->
           IF result.spelled = {} THEN {"rejected"}
           ELSE UNION {ValidateValue(v, s) : v \in result.spelled, s \in r.schema}
      [] r.kind = "generate" /\ r.capability = "tool_call_proposal" ->
           CallsOutcomes(result.calls, r.tools)
      [] OTHER -> IF result.text = "blank" THEN {"rejected"} ELSE {"fits"}

Normalise ==
    LET r == exchange.request
        category == IF r.kind = "generate" /\ r.capability = "structured_output"
                    THEN "structured_output_invalid" ELSE "provider_contract_violation"
    IN
    /\ stage = "answered"
    /\ \E o \in NormalOutcomes(r) :
         \/ o = "fits" /\ End("served", "none")
         \/ o = "rejected" /\ End("failed", category)
         \/ o = "raised" /\ End("raised", "none")
    /\ UNCHANGED <<exchange, model, result>>

-----------------------------------------------------------------------------
(* health and _optional_health: the verdict on the pinned artifacts         *)

Reached(server) == Raised(server.response) = "none"
IdentityMatches_Ignored(server, models) == TRUE
IdentityMatches(server, models) == \A m \in models : Pinned(server, m)
Fine(server, models) ==
    /\ server.version
    /\ \A m \in models : Present(server, m)
    /\ IdentityMatches(server, models)

CoreAvailability(server) ==
    CASE Raised(server.response) \in {"timeout", "offline", "transient"} -> "offline"
      [] Raised(server.response) \in {"request", "contract", "unexpected"} -> "degraded"
      [] OTHER -> IF Fine(server, CoreHealth) THEN "available" ELSE "degraded"
AdvancedAvailability(server) ==
    CASE Raised(server.response) \in {"timeout", "offline", "transient"} -> "offline"
      [] Raised(server.response) \in {"request", "contract"} -> "degraded"
      [] OTHER -> IF Fine(server, {Heretic}) THEN "available"
                  ELSE IF server.version /\ ~Present(server, Heretic) THEN "offline"
                  ELSE "degraded"

(* The advanced server is asked only when the core server answered, and an  *)
(* exception that no adapter converts (an answer cut short) is caught for   *)
(* the core server only.                                                    *)
Health ==
    LET core == exchange.servers["ollama"]
        advanced == exchange.servers["llama_cpp"]
    IN
    /\ stage = "health"
    /\ CASE ~Reached(core) -> HealthVerdict(CoreAvailability(core), "offline")
         [] Reached(core) /\ Raised(advanced.response) = "unexpected" -> End("raised", "none")
         [] OTHER -> HealthVerdict(CoreAvailability(core), AdvancedAvailability(advanced))
    /\ UNCHANGED <<exchange, model, result>>

Forget ==
    /\ stage = "ended"
    /\ stage' = "idle"
    /\ exchange' = NoExchange
    /\ model' = NoModel
    /\ result' = NoResult
    /\ verdict' = NoVerdict

ContractNext ==
    \/ Submit \/ Disabled
    \/ ValidateGeneration \/ ValidateEmbedding
    \/ VerifyArtifact
    \/ Ask
    \/ Normalise
    \/ Health
    \/ Forget

ContractSpec == ContractInit /\ [][ContractNext]_contractVars
-----------------------------------------------------------------------------
(* A request that reaches a server fits the model it was routed to, and     *)
(* what the gateway's own checks let through the adapter can send: only a   *)
(* vision request without a user message is stopped there.                  *)
AcceptedFitsModel ==
    model # NoModel /\ exchange.request.kind = "generate" =>
        LET r == exchange.request
            identity == Identity[model]
        IN /\ r.capability \in identity.capabilities
           /\ Modalities(r) \subseteq identity.modalities
           /\ r.context \in identity.budgets
           /\ r.output <= identity.output
           /\ stage = "verified" /\ Unsendable(r) => r.capability = "vision"

(* A model that health reports as available passes the check of its         *)
(* artifact that a request makes, and trouble with the advanced server does *)
(* not change the verdict on the core unless its answer is cut short.       *)
HealthIsTruthful ==
    stage = "ended" /\ exchange.request.kind = "health" /\ exchange.enabled =>
        LET servable(m) == LET s == Server(m) IN Reached(s) /\ Pinned(s, m) IN
        /\ verdict.category = "available" => \A m \in CoreHealth : servable(m)
        /\ verdict.advanced = "available" => servable(Heretic)
        /\ (\A m \in CoreHealth : servable(m)) /\ exchange.servers["ollama"].version
             => \/ verdict.category = "available"
                \/ exchange.servers["llama_cpp"].response = "cut short"
=============================================================================
