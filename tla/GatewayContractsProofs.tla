----------------------- MODULE GatewayContractsProofs -----------------------
(***************************************************************************)
(* What reaches a server fits the model it was routed to, and health is    *)
(* truthful: for all exchanges and limits, and for every validator of      *)
(* schemas and values.  With the validator of the code, replies fit what   *)
(* was asked for: it is recursive, so what is proved of it is proved by    *)
(* induction over the depth of its calls (CallLevels).                     *)
(***************************************************************************)
EXTENDS GatewayValidation, TLAPS

Request == exchange.request

(* What validation establishes for the model it selects.                    *)
Accepted(r, m) ==
    /\ m \in Routable(r.capability, Modalities(r), r.profile)
    /\ BudgetsValid(r, m)
    /\ ImagesValid(r)
    /\ r.schema # {} => r.capability = "structured_output"
    /\ r.tools # <<>> => r.capability = "tool_call_proposal"

(* A model is selected from validation on.                                  *)
Selected ==
    /\ model \in AllModels
    /\ stage \in {"routed", "verified", "answered", "ended"}
    /\ Request.kind \in {"generate", "embed"}
    /\ Request.kind = "generate" => Accepted(Request, model)

(* The verdict of health, as a function of the servers.                     *)
HealthTold ==
    LET core == exchange.servers["ollama"]
        advanced == exchange.servers["llama_cpp"]
        told(c, a) == verdict = [outcome |-> "health", category |-> c, advanced |-> a]
    IN
    \/ ~Reached(core) /\ told(CoreAvailability(core), "offline")
    \/ /\ Reached(core) /\ Raised(advanced.response) = "unexpected"
       /\ verdict = Verdict("raised", "none")
    \/ /\ Reached(core) /\ Raised(advanced.response) # "unexpected"
       /\ told(CoreAvailability(core), AdvancedAvailability(advanced))

Stages == {"idle", "disabled", "generate", "embed", "health", "routed", "verified",
           "answered", "ended"}

ContractInv ==
    /\ stage \in Stages
    /\ stage # "idle" => exchange \in Exchanges
    /\ stage \in {"generate", "embed", "health"} => exchange.enabled /\ Request.kind = stage
    /\ stage = "disabled" => ~exchange.enabled
    /\ stage \in {"routed", "verified", "answered"} => model # NoModel
    /\ model # NoModel => Selected
    /\ stage = "ended" /\ Request.kind = "health" /\ exchange.enabled => HealthTold

-----------------------------------------------------------------------------
LEMMA NoModelSelected == NoModel \notin AllModels
  BY DEF NoModel, AllModels, CoreHealth, Fast, Embedder, Heretic

(* Only a request that passes every check is accepted.                      *)
LEMMA AcceptedOutcome ==
  ASSUME NEW r, NEW m \in Routable(r.capability, Modalities(r), r.profile),
         "accepted" \in GenerationOutcomes(r, m)
  PROVE  Accepted(r, m)
<1>1. BudgetsValid(r, m) /\ r.inTime /\ ImagesValid(r)
  BY DEF GenerationOutcomes
<1>2. "accepted" \in IF SchemaOutcome(r) # {"accepted"} THEN SchemaOutcome(r)
                                                       ELSE ToolOutcomes(r)
  BY <1>1 DEF GenerationOutcomes
<1>3. "accepted" \in SchemaOutcome(r)
  BY <1>2
<1>4. r.schema # {} => r.capability = "structured_output"
  BY <1>3 DEF SchemaOutcome
<1>5. r.tools # <<>> => r.capability = "tool_call_proposal"
  <2>1. CASE SchemaOutcome(r) = {"accepted"}
    <3>1. "accepted" \in ToolOutcomes(r)
      BY <1>2, <2>1
    <3> QED
      BY <3>1 DEF ToolOutcomes
  <2>2. CASE SchemaOutcome(r) # {"accepted"}
    <3>1. r.capability = "structured_output"
      BY <1>3, <2>2 DEF SchemaOutcome
    <3>2. r.tools = <<>>
      BY <1>3, <3>1 DEF SchemaOutcome
    <3> QED
      BY <3>2
  <2> QED
    BY <2>1, <2>2
<1> QED
  BY <1>1, <1>4, <1>5 DEF Accepted

LEMMA ContractInvStep ==
  ASSUME ContractInv, [ContractNext]_contractVars
  PROVE  ContractInv'
<1>1. ASSUME Submit PROVE ContractInv'
  <2>1. PICK e \in Exchanges :
          exchange' = e /\ stage' = IF e.enabled THEN e.request.kind ELSE "disabled"
    BY <1>1 DEF Submit
  <2>2. e.request.kind \in {"generate", "embed", "health"}
    BY ExchangeKinds
  <2>3. stage = "idle" /\ model' = model
    BY <1>1 DEF Submit
  <2>4. model = NoModel
    BY <2>3 DEF ContractInv, Selected
  <2>5. Request' = e.request
    BY <2>1 DEF Request
  <2> QED
    BY <2>1, <2>2, <2>3, <2>4, <2>5 DEF ContractInv, Stages
<1>2. ASSUME Disabled PROVE ContractInv'
  <2>1. /\ stage = "disabled" /\ stage' = "ended"
        /\ exchange' = exchange /\ model' = model
    BY <1>2 DEF Disabled, HealthVerdict, End
  <2>2. model = NoModel /\ ~exchange.enabled
    BY <2>1 DEF ContractInv, Selected
  <2> QED
    BY <2>1, <2>2 DEF ContractInv, Stages
<1>3. ASSUME ValidateGeneration PROVE ContractInv'
  <2>1. stage = "generate" /\ exchange' = exchange /\ Request' = Request
    BY <1>3 DEF ValidateGeneration, Request
  <2>2. model = NoModel /\ exchange \in Exchanges /\ Request.kind = "generate"
    BY <2>1 DEF ContractInv, Selected
  <2>3. CASE stage' = "ended" /\ model' = model
    BY <2>1, <2>2, <2>3 DEF ContractInv, Stages
  <2>4. CASE /\ stage' = "routed"
             /\ \E m \in Routable(Request.capability, Modalities(Request), Request.profile) :
                  model' = m /\ "accepted" \in GenerationOutcomes(Request, m)
    <3>1. PICK m \in Routable(Request.capability, Modalities(Request), Request.profile) :
            model' = m /\ "accepted" \in GenerationOutcomes(Request, m)
      BY <2>4
    <3>2. Accepted(Request, m) /\ m \in AllModels
      BY <3>1, AcceptedOutcome DEF Routable
    <3>3. Selected'
      BY <2>1, <2>2, <2>4, <3>1, <3>2 DEF Selected
    <3>4. model' # NoModel
      BY <3>1, <3>2, NoModelSelected
    <3> QED
      BY <2>1, <2>2, <2>4, <3>3, <3>4 DEF ContractInv, Stages
  <2> QED
    BY <1>3, <2>3, <2>4 DEF ValidateGeneration, End, Request
<1>4. ASSUME ValidateEmbedding PROVE ContractInv'
  <2>1. stage = "embed" /\ exchange' = exchange /\ Request' = Request
    BY <1>4 DEF ValidateEmbedding, Request
  <2>2. model = NoModel /\ exchange \in Exchanges /\ Request.kind = "embed"
    BY <2>1 DEF ContractInv, Selected
  <2>3. CASE stage' = "ended" /\ model' = model
    BY <2>1, <2>2, <2>3 DEF ContractInv, Stages
  <2>4. CASE stage' = "routed" /\ model' \in AllModels
    <3>1. Selected'
      BY <2>1, <2>2, <2>4 DEF Selected
    <3> QED
      BY <2>1, <2>2, <2>4, <3>1, NoModelSelected DEF ContractInv, Stages
  <2> QED
    BY <1>4, <2>3, <2>4 DEF ValidateEmbedding, End, Routable
<1>5. ASSUME VerifyArtifact \/ Ask \/ Normalise PROVE ContractInv'
  <2>1. /\ stage \in {"routed", "verified", "answered"}
        /\ stage' \in {"verified", "answered", "ended"}
        /\ exchange' = exchange /\ model' = model /\ Request' = Request
    <3>1. CASE VerifyArtifact
      BY <3>1 DEF VerifyArtifact, Fail, End, Request
    <3>2. CASE Ask
      BY <3>2 DEF Ask, Fail, End, Request
    <3>3. CASE Normalise
      BY <3>3 DEF Normalise, End, Request
    <3> QED
      BY <1>5, <3>1, <3>2, <3>3
  <2>2. Selected /\ exchange \in Exchanges /\ model # NoModel
    BY <2>1 DEF ContractInv
  <2>3. Selected'
    BY <2>1, <2>2 DEF Selected
  <2>4. Request.kind # "health"
    BY <2>2 DEF Selected
  <2> QED
    BY <2>1, <2>2, <2>3, <2>4 DEF ContractInv, Stages
<1>6. ASSUME Health PROVE ContractInv'
  <2>1. stage = "health" /\ stage' = "ended" /\ exchange' = exchange /\ model' = model
    BY <1>6 DEF Health, HealthVerdict, End
  <2>2. model = NoModel /\ exchange \in Exchanges
    BY <2>1 DEF ContractInv, Selected
  <2>3. HealthTold'
    BY <1>6, <2>1 DEF Health, HealthVerdict, End, HealthTold
  <2> QED
    BY <2>1, <2>2, <2>3 DEF ContractInv, Stages
<1>7. ASSUME Forget PROVE ContractInv'
  BY <1>7 DEF Forget, ContractInv, Stages
<1>8. ASSUME UNCHANGED contractVars PROVE ContractInv'
  BY <1>8 DEF contractVars, ContractInv, Selected, HealthTold, Request
<1> QED
  BY <1>1, <1>2, <1>3, <1>4, <1>5, <1>6, <1>7, <1>8 DEF ContractNext

(* The invariant of an exchange: from validation on it has a model that it  *)
(* fits, and health told what the servers answered.                         *)
THEOREM ContractInvariant == ContractSpec => []ContractInv
<1>1. ContractInit => ContractInv
  BY DEF ContractInit, ContractInv, Stages
<1>2. ContractInv /\ [ContractNext]_contractVars => ContractInv'
  BY ContractInvStep
<1> QED
  BY <1>1, <1>2, PTL DEF ContractSpec

-----------------------------------------------------------------------------
LEMMA Servers ==
  /\ Identity[Fast].server = "ollama" /\ Identity[Embedder].server = "ollama"
  /\ Identity[Heretic].server = "llama_cpp"
  BY DEF Identity, AllModels, CoreHealth, Fast, Embedder, Heretic

LEMMA FitsModel ==
  ASSUME NEW r, NEW m \in AllModels, Accepted(r, m)
  PROVE  /\ r.capability \in Identity[m].capabilities
         /\ Modalities(r) \subseteq Identity[m].modalities
         /\ m = Heretic => r.capability \in {"generation", "chat"}
<1>1. Routes(m, r.capability, Modalities(r), r.profile)
  BY DEF Accepted, Routable
<1>2. CASE m = Embedder
  <2>1. r.capability = "embeddings" /\ Modalities(r) = {"text"}
    BY <1>1, <1>2 DEF Routes, Fast, Embedder, Heretic
  <2>2. Identity[m].capabilities = {"embeddings"} /\ Identity[m].modalities = {"text"}
    BY <1>2 DEF Identity, AllModels, CoreHealth, Fast, Embedder, Heretic
  <2> QED
    BY <1>2, <2>1, <2>2 DEF Embedder, Heretic
<1>3. CASE m = Fast
  <2>1. /\ r.capability \in TextCapabilities \cup {"vision"}
        /\ Modalities(r) \subseteq {"text", "image"}
    BY <1>1, <1>3 DEF Routes, Fast, Embedder, Heretic
  <2>2. /\ TextCapabilities \cup {"vision"} \subseteq Identity[m].capabilities
        /\ Identity[m].modalities = {"text", "image"}
    BY <1>3 DEF Identity, AllModels, CoreHealth, Fast, Embedder, Heretic, TextCapabilities
  <2> QED
    BY <1>3, <2>1, <2>2 DEF Fast, Heretic
<1>4. CASE m = Heretic
  <2>1. r.capability \in {"generation", "chat"} /\ Modalities(r) = {"text"}
    BY <1>1, <1>4 DEF Routes, Fast, Embedder, Heretic, AdvancedServes
  <2>2. /\ Identity[m].capabilities = {"generation", "chat"}
        /\ Identity[m].modalities = {"text"}
    BY <1>4 DEF Identity, AllModels, CoreHealth, Fast, Embedder, Heretic
  <2> QED
    BY <2>1, <2>2
<1> QED
  BY <1>2, <1>3, <1>4 DEF AllModels, CoreHealth

(* Whatever the validator of schemas answers, a request that was routed to  *)
(* a model fits it, and the adapter stops only a vision request.            *)
THEOREM AcceptedRequestsFit == ContractSpec => []AcceptedFitsModel
<1>1. ContractInv => AcceptedFitsModel
  <2> SUFFICES ASSUME ContractInv, model # NoModel, exchange.request.kind = "generate"
               PROVE  /\ Request.capability \in Identity[model].capabilities
                      /\ Modalities(Request) \subseteq Identity[model].modalities
                      /\ Request.context \in Identity[model].budgets
                      /\ Request.output <= Identity[model].output
                      /\ stage = "verified" /\ Unsendable(Request) =>
                           Request.capability = "vision"
    BY DEF AcceptedFitsModel, Request
  <2>1. model \in AllModels /\ Accepted(Request, model)
    BY DEF ContractInv, Selected, Request
  <2>2. /\ Request.capability \in Identity[model].capabilities
        /\ Modalities(Request) \subseteq Identity[model].modalities
        /\ model = Heretic => Request.capability \in {"generation", "chat"}
    BY <2>1, FitsModel
  <2>3. /\ Request.context \in Identity[model].budgets
        /\ Request.output <= Identity[model].output
    BY <2>1 DEF Accepted, BudgetsValid
  <2>4. Request.images # <<>> => Request.capability = "vision"
    BY <2>1 DEF Accepted, ImagesValid
  <2>5. Unsendable(Request) => Request.capability = "vision"
    <3>1. CASE model = Heretic
      BY <2>1, <2>2, <2>4, <3>1 DEF Unsendable, Accepted
    <3>2. CASE model # Heretic
      BY <2>1, <2>4, <3>2, Servers DEF Unsendable, AllModels, CoreHealth
    <3> QED
      BY <3>1, <3>2
  <2> QED
    BY <2>2, <2>3, <2>5
<1> QED
  BY <1>1, ContractInvariant, PTL

LEMMA RaisedKinds ==
  ASSUME NEW response
  PROVE  /\ Raised(response) \in {"timeout", "offline", "transient", "request", "contract",
                                  "unexpected", "none"}
         /\ Raised(response) = "unexpected" => response = "cut short"
  BY DEF Raised

LEMMA AvailableIsFine ==
  ASSUME NEW server
  PROVE  /\ CoreAvailability(server) = "available" <=>
              Reached(server) /\ Fine(server, CoreHealth)
         /\ AdvancedAvailability(server) = "available" =>
              Raised(server.response) \in {"unexpected", "none"} /\ Fine(server, {Heretic})
<1>1. Raised(server.response) \in {"timeout", "offline", "transient", "request", "contract",
                                  "unexpected", "none"}
  BY RaisedKinds
<1>2. CoreAvailability(server) = "available" <=> Reached(server) /\ Fine(server, CoreHealth)
  BY <1>1 DEF CoreAvailability, Reached
<1>3. AdvancedAvailability(server) = "available" =>
        Raised(server.response) \in {"unexpected", "none"} /\ Fine(server, {Heretic})
  BY <1>1 DEF AdvancedAvailability
<1> QED
  BY <1>2, <1>3

(* A model that health reports as available passes the artifact check of a  *)
(* request, and a server that serves both core models is reported so.       *)
THEOREM HealthTellsTheTruth == ContractSpec => []HealthIsTruthful
<1> DEFINE core == exchange.servers["ollama"]
           advanced == exchange.servers["llama_cpp"]
           servable(m) == Reached(Server(m)) /\ Pinned(Server(m), m)
<1>1. ContractInv => HealthIsTruthful
  <2> SUFFICES ASSUME ContractInv, stage = "ended", exchange.request.kind = "health",
                      exchange.enabled
               PROVE  /\ verdict.category = "available" => \A m \in CoreHealth : servable(m)
                      /\ verdict.advanced = "available" => servable(Heretic)
                      /\ (\A m \in CoreHealth : servable(m)) /\ core.version
                           => \/ verdict.category = "available"
                              \/ advanced.response = "cut short"
    BY DEF HealthIsTruthful
  <2>1. HealthTold
    BY DEF ContractInv, Request
  <2>2. Server(Fast) = core /\ Server(Embedder) = core /\ Server(Heretic) = advanced
    BY Servers DEF Server
  <2>3. CoreHealth = {Fast, Embedder}
    BY DEF CoreHealth
  <2>4. (\A m \in CoreHealth : servable(m)) <=>
          Reached(core) /\ \A m \in CoreHealth : Pinned(core, m)
    BY <2>2, <2>3
  <2>5. Fine(core, CoreHealth) => \A m \in CoreHealth : Pinned(core, m)
    BY DEF Fine, IdentityMatches
  <2>6. core.version /\ (\A m \in CoreHealth : Pinned(core, m)) => Fine(core, CoreHealth)
    BY DEF Fine, IdentityMatches, Pinned, Present
  <2>7. Fine(advanced, {Heretic}) => Pinned(advanced, Heretic)
    BY DEF Fine, IdentityMatches
  <2> HIDE DEF core, advanced
  <2>8. CASE ~Reached(core) /\ verdict = [outcome |-> "health",
                 category |-> CoreAvailability(core), advanced |-> "offline"]
    BY <2>4, <2>8, AvailableIsFine
  <2>9. CASE Raised(advanced.response) = "unexpected" /\ verdict = Verdict("raised", "none")
    BY <2>9, RaisedKinds DEF Verdict
  <2>10. CASE /\ Reached(core) /\ Raised(advanced.response) # "unexpected"
              /\ verdict = [outcome |-> "health", category |-> CoreAvailability(core),
                            advanced |-> AdvancedAvailability(advanced)]
    <3>1. AdvancedAvailability(advanced) = "available" => servable(Heretic)
      BY <2>2, <2>7, <2>10, AvailableIsFine DEF Reached
    <3>2. CoreAvailability(core) = "available" => \A m \in CoreHealth : servable(m)
      BY <2>4, <2>5, AvailableIsFine
    <3>3. (\A m \in CoreHealth : servable(m)) /\ core.version
             => CoreAvailability(core) = "available"
      BY <2>4, <2>6, AvailableIsFine
    <3> HIDE DEF servable
    <3> QED
      BY <2>10, <3>1, <3>2, <3>3
  <2> QED
    BY <2>1, <2>8, <2>9, <2>10 DEF HealthTold, core, advanced
<1> QED
  BY <1>1, ContractInvariant, PTL

-----------------------------------------------------------------------------
(* The calls of a check at each depth.                                      *)
SchemasAt(s) == SchemaCalls!CallsAt({s})
CallsOf(v, s) == ValueCalls!CallsAt({<<v, s>>})
MemberSchemas(s, k) == IF s.type = "object" THEN Property(s, k) ELSE s.items
PartSchemas(v, s, k) == IF v.kind = "array" THEN s.items ELSE Property(s, k)
SchemasBeside(v, ss, k) == UNION {PartSchemas(v, s, k) : s \in ss}

LEMMA DepthBounds ==
  /\ \A d \in Nat : d \in Depths <=> d <= MaxDepth + 1
  /\ \A d \in Nat : TooDeep(d) <=> ~(d <= MaxDepth)
  /\ \A d \in Nat : d + 1 \in Depths <=> d <= MaxDepth
  /\ \A d \in Nat : d <= MaxDepth => d \in Depths
  /\ 0 \in Depths
  /\ Depths \subseteq Nat
  /\ MaxDepth + 1 \in Depths /\ TooDeep(MaxDepth + 1)
  /\ MaxDepth \in Nat
  BY ValidationLimits DEF Depths, TooDeep

LEMMA SchemaLevels ==
  ASSUME NEW s
  PROVE  /\ SchemasAt(s)[0] = {s}
         /\ \A d \in Nat : SchemasAt(s)[d + 1] = CallSchemas(SchemasAt(s)[d], d)
  BY SchemaCalls!LevelsOfCalls DEF SchemasAt

LEMMA CallLevelsOf ==
  ASSUME NEW v, NEW s
  PROVE  /\ CallsOf(v, s)[0] = {<<v, s>>}
         /\ \A d \in Nat : CallsOf(v, s)[d + 1] = CallMembers(CallsOf(v, s)[d], d)
  BY ValueCalls!LevelsOfCalls DEF CallsOf

LEMMA PartLevels ==
  ASSUME NEW v, NEW s
  PROVE  /\ Parts(v, s)[0] = {<<v, {s}>>}
         /\ \A d \in Nat : Parts(v, s)[d + 1] = PartsBelow(Parts(v, s)[d], d)
  BY Nesting!LevelsOfCalls DEF Parts

(* The verdict on a schema, and what its acceptance means.                  *)
LEMMA CheckAccepts ==
  ASSUME NEW c, NEW d, CheckedSchema(c, d) = "accepted"
  PROVE  ~TooDeep(d) /\ ~LocallyRefused(c)
  BY DEF CheckedSchema

LEMMA AllAccepted ==
  ASSUME NEW s, "accepted" \in SchemaOutcomes(s)
  PROVE  \A d \in Depths : \A c \in SchemasAt(s)[d] : CheckedSchema(c, d) = "accepted"
<1> DEFINE checked(d) == {CheckedSchema(c, d) : c \in SchemasAt(s)[d]}
           R == UNION {checked(d) : d \in Depths}
<1>1. "accepted" \in Ending(R, "accepted")
  BY DEF SchemaOutcomes, SchemasAt
<1>2. R \subseteq {"accepted"}
  BY <1>1 DEF Ending
<1>3. ASSUME NEW d \in Depths, NEW c \in SchemasAt(s)[d]
      PROVE  CheckedSchema(c, d) = "accepted"
  BY <1>2
<1> QED
  BY <1>3

LEMMA AllFit ==
  ASSUME NEW v, NEW s, "fits" \in ValueOutcomes(v, s)
  PROVE  \A d \in Depths : \A call \in CallsOf(v, s)[d] :
            CheckedValue(call[1], call[2], d) = "fits"
<1> DEFINE checked(d) == {CheckedValue(call[1], call[2], d) : call \in CallsOf(v, s)[d]}
           R == UNION {checked(d) : d \in Depths}
<1>1. "fits" \in Ending(R, "fits")
  BY DEF ValueOutcomes, CallsOf
<1>2. R \subseteq {"fits"}
  BY <1>1 DEF Ending
<1>3. ASSUME NEW d \in Depths, NEW call \in CallsOf(v, s)[d]
      PROVE  CheckedValue(call[1], call[2], d) = "fits"
  BY <1>2
<1> QED
  BY <1>3

LEMMA SomeRejected ==
  ASSUME NEW v, NEW s, "rejected" \in ValueOutcomes(v, s)
  PROVE  \E d \in Depths : \E call \in CallsOf(v, s)[d] :
            CheckedValue(call[1], call[2], d) = "rejected"
<1> DEFINE checked(d) == {CheckedValue(call[1], call[2], d) : call \in CallsOf(v, s)[d]}
           R == UNION {checked(d) : d \in Depths}
<1>1. "rejected" \in Ending(R, "fits")
  BY DEF ValueOutcomes, CallsOf
<1>2. "rejected" \in R
  BY <1>1 DEF Ending
<1> QED
  BY <1>2

LEMMA SchemasBelow ==
  ASSUME NEW s \in Schemas
  PROVE  \A d \in Nat : SchemasAt(s)[d] \subseteq Schemas
<1> DEFINE S == {d \in Nat : SchemasAt(s)[d] \subseteq Schemas}
<1>1. 0 \in S
  BY SchemaLevels
<1>2. ASSUME NEW d \in Nat, d \in S PROVE d + 1 \in S
  <2>1. SchemasAt(s)[d + 1] = CallSchemas(SchemasAt(s)[d], d)
    BY SchemaLevels
  <2>2. CallSchemas(SchemasAt(s)[d], d) \subseteq Schemas
    BY <1>2, SchemasAreNested DEF CallSchemas
  <2> QED
    BY <2>1, <2>2
<1>3. Nat \subseteq S
  <2> HIDE DEF S
  <2> QED
    BY <1>1, <1>2, SchemaCalls!DepthInduction
<1> QED
  BY <1>3

(* No schema below an accepted one is too deep, so none is that deep.       *)
LEMMA NoneTooDeep ==
  ASSUME NEW s, "accepted" \in SchemaOutcomes(s)
  PROVE  SchemasAt(s)[MaxDepth + 1] = {}
<1>1. ASSUME NEW c \in SchemasAt(s)[MaxDepth + 1] PROVE FALSE
  BY AllAccepted, CheckAccepts, DepthBounds
<1> QED
  BY <1>1

(* The schemas of one level that those below one of its schemas are.        *)
LEMMA ChildrenAreCalled ==
  ASSUME NEW s, "accepted" \in SchemaOutcomes(s), NEW d \in Nat, d <= MaxDepth,
         NEW c \in SchemasAt(s)[d]
  PROVE  Children(c) \subseteq SchemasAt(s)[d + 1]
<1>1. CheckedSchema(c, d) = "accepted"
  BY AllAccepted, DepthBounds
<1>2. SchemasAt(s)[d + 1] = CallSchemas(SchemasAt(s)[d], d)
  BY SchemaLevels
<1> QED
  BY <1>1, <1>2 DEF CallSchemas

-----------------------------------------------------------------------------
(* The calls that a call makes.                                             *)
LEMMA MembersCalled ==
  ASSUME NEW calls, NEW d, NEW call \in CallMembers(calls, d)
  PROVE  \E parent \in calls :
            /\ CheckedValue(parent[1], parent[2], d) = "fits"
            /\ \E k \in Members(parent[1]) : \E c \in MemberSchemas(parent[2], k) :
                 call = <<parent[1].at[k], c>>
  BY DEF CallMembers, MemberSchemas

LEMMA MembersAreCalled ==
  ASSUME NEW calls, NEW d, NEW w, NEW s, <<w, s>> \in calls, CheckedValue(w, s, d) = "fits",
         NEW k \in Members(w), NEW c \in MemberSchemas(s, k)
  PROVE  <<w.at[k], c>> \in CallMembers(calls, d)
<1> DEFINE members(v, t) == UNION {{<<v.at[j], e>> : e \in MemberSchemas(t, j)} : j \in Members(v)}
           fitting == {p \in calls : CheckedValue(p[1], p[2], d) = "fits"}
<1>1. <<w, s>> \in fitting /\ <<w, s>>[1] = w /\ <<w, s>>[2] = s
  OBVIOUS
<1>2. <<w.at[k], c>> \in members(w, s)
  OBVIOUS
<1>3. CallMembers(calls, d) = UNION {members(p[1], p[2]) : p \in fitting}
  BY DEF CallMembers, MemberSchemas
<1> HIDE DEF members, fitting
<1> QED
  BY <1>1, <1>2, <1>3

LEMMA BelowAPart ==
  ASSUME NEW parts, NEW d, NEW part \in PartsBelow(parts, d)
  PROVE  \E over \in parts : \E k \in Members(over[1]) :
            part = <<over[1].at[k], SchemasBeside(over[1], over[2], k)>>
  BY DEF PartsBelow, PartSchemas, SchemasBeside

LEMMA PartsAreBelow ==
  ASSUME NEW parts, NEW d, NEW w, NEW ss, <<w, ss>> \in parts, NEW k \in Members(w)
  PROVE  <<w.at[k], SchemasBeside(w, ss, k)>> \in PartsBelow(parts, d)
<1> DEFINE below(v, ts, j) == <<v.at[j], SchemasBeside(v, ts, j)>>
           here(v, ts) == {below(v, ts, j) : j \in Members(v)}
<1>1. below(w, ss, k) \in here(w, ss)
  OBVIOUS
<1>2. PartsBelow(parts, d) = UNION {here(p[1], p[2]) : p \in parts}
  BY DEF PartsBelow, PartSchemas, SchemasBeside
<1>3. <<w, ss>>[1] = w /\ <<w, ss>>[2] = ss
  OBVIOUS
<1>4. here(w, ss) \in {here(p[1], p[2]) : p \in parts}
  <2> HIDE DEF here
  <2> QED BY <1>3
<1> HIDE DEF here
<1>5. below(w, ss, k) \in PartsBelow(parts, d)
  BY <1>1, <1>2, <1>4
<1> QED
  BY <1>5

(* A value that fits has the type of its schema, so both name the same      *)
(* schemas for its members.                                                 *)
LEMMA MembersMatch ==
  ASSUME NEW w, NEW c, NEW d, CheckedValue(w, c, d) = "fits", NEW k \in Members(w)
  PROVE  /\ PartSchemas(w, c, k) = MemberSchemas(c, k)
         /\ c.type = w.kind /\ c.type \in {"object", "array"}
         /\ MemberSchemas(c, k) \subseteq Children(c)
         /\ c.type = "object" => k \in Keys(c)
<1>1. w.kind \in {"object", "array"} /\ k \in DOMAIN w.at
  BY DEF Members
<1>2. HasType(w, c.type) /\ (c.type = "object" => Unknown(w, c) = {})
  BY DEF CheckedValue, ValueRejected
<1>3. c.type = w.kind
  BY <1>1, <1>2 DEF HasType
<1>4. PartSchemas(w, c, k) = MemberSchemas(c, k)
  BY <1>1, <1>3 DEF PartSchemas, MemberSchemas
<1>5. MemberSchemas(c, k) \subseteq Children(c)
  BY <1>1, <1>3 DEF MemberSchemas, Children, Property
<1>6. c.type = "object" => k \in Keys(c)
  BY <1>1, <1>2 DEF Unknown
<1> QED
  BY <1>1, <1>3, <1>4, <1>5, <1>6

(* At most one schema speaks of a member.                                   *)
LEMMA OneSchema ==
  ASSUME NEW c \in Schemas, NEW k
  PROVE  \A p, q \in MemberSchemas(c, k) : p = q
  BY SchemasAreNested DEF MemberSchemas, Property

LEMMA CallsWithin ==
  ASSUME NEW s, "accepted" \in SchemaOutcomes(s), NEW v
  PROVE  \A d \in Depths : \A call \in CallsOf(v, s)[d] :
            call = <<call[1], call[2]>> /\ call[2] \in SchemasAt(s)[d]
<1> DEFINE S == {d \in Nat : d \in Depths => \A call \in CallsOf(v, s)[d] :
                    call = <<call[1], call[2]>> /\ call[2] \in SchemasAt(s)[d]}
<1>1. 0 \in S
  BY SchemaLevels, CallLevelsOf
<1>2. ASSUME NEW d \in Nat, d \in S PROVE d + 1 \in S
  <2> SUFFICES ASSUME d + 1 \in Depths, NEW call \in CallsOf(v, s)[d + 1]
               PROVE  call = <<call[1], call[2]>> /\ call[2] \in SchemasAt(s)[d + 1]
    BY DepthBounds
  <2>1. d <= MaxDepth /\ d \in Depths
    BY DepthBounds
  <2>2. call \in CallMembers(CallsOf(v, s)[d], d)
    BY CallLevelsOf
  <2>3. PICK parent \in CallsOf(v, s)[d] :
            /\ CheckedValue(parent[1], parent[2], d) = "fits"
            /\ \E k \in Members(parent[1]) : \E c \in MemberSchemas(parent[2], k) :
                 call = <<parent[1].at[k], c>>
    BY <2>2, MembersCalled
  <2>4. PICK k \in Members(parent[1]) : \E c \in MemberSchemas(parent[2], k) :
                 call = <<parent[1].at[k], c>>
    BY <2>3
  <2>5. PICK c \in MemberSchemas(parent[2], k) : call = <<parent[1].at[k], c>>
    BY <2>4
  <2>6. parent[2] \in SchemasAt(s)[d]
    BY <1>2, <2>1
  <2>7. c \in Children(parent[2])
    BY <2>3, MembersMatch
  <2>8. c \in SchemasAt(s)[d + 1]
    BY <2>1, <2>6, <2>7, ChildrenAreCalled
  <2> QED
    BY <2>5, <2>8
<1>3. Nat \subseteq S
  <2> HIDE DEF S
  <2> QED
    BY <1>1, <1>2, SchemaCalls!DepthInduction
<1> QED
  BY <1>3, DepthBounds

-----------------------------------------------------------------------------
(* One value beside one schema: what the validator makes of it, and what is *)
(* meant by suiting it.                                                     *)
LEMMA FitSuits ==
  ASSUME NEW w, NEW c, NEW d, CheckedValue(w, c, d) = "fits"
  PROVE  Suits(w, c)
<1>1. ~ValueRejected(w, c, d)
  BY DEF CheckedValue
<1>2. HasType(w, c.type)
  BY <1>1 DEF ValueRejected
<1>3. w.kind \in {"object", "string"} => c.type = w.kind
  BY <1>2 DEF HasType
<1>4. c.type = w.kind \/ (w.kind = "integer" /\ c.type = "number")
  BY <1>2 DEF HasType
<1>5. c.enum = "values" => \E x \in c.among : Equal(w, x)
  BY <1>1 DEF ValueRejected
<1>6. w.kind = "object" => UNION c.required \subseteq DOMAIN w.at
  BY <1>1, <1>3 DEF ValueRejected, Required
<1>7. w.kind = "string" => ~(\E n \in c.min : w.size < n) /\ ~(\E n \in c.max : w.size > n)
  BY <1>1, <1>3 DEF ValueRejected
<1> QED
  BY <1>4, <1>5, <1>6, <1>7 DEF Suits

LEMMA RejectedFailsToSuit ==
  ASSUME NEW w, NEW c, NEW d, ~TooDeep(d), CheckedValue(w, c, d) = "rejected"
  PROVE  \/ ~Suits(w, c)
         \/ c.type = "object" /\ w.kind = "object" /\ Unknown(w, c) # {}
<1>1. ValueRejected(w, c, d)
  BY DEF CheckedValue
<1>2. CASE ~HasType(w, c.type)
  BY <1>2 DEF HasType, Suits
<1>3. CASE c.enum = "values" /\ ~\E x \in c.among : Equal(w, x)
  BY <1>3 DEF Suits
<1>4. CASE HasType(w, c.type) /\ c.type = "object"
           /\ (Required(c) \ DOMAIN w.at) \cup Unknown(w, c) # {}
  BY <1>4 DEF HasType, Suits, Required
<1>5. CASE HasType(w, c.type) /\ c.type = "string"
           /\ ((\E n \in c.min : w.size < n) \/ \E n \in c.max : w.size > n)
  BY <1>5 DEF HasType, Suits
<1> QED
  BY <1>1, <1>2, <1>3, <1>4, <1>5 DEF ValueRejected

(* In a value that fits, every part is beside a schema that it was checked  *)
(* against.                                                                 *)
LEMMA PartsAreCalled ==
  ASSUME NEW s, "accepted" \in SchemaOutcomes(s), NEW v, "fits" \in ValueOutcomes(v, s)
  PROVE  \A d \in Depths : \A part \in Parts(v, s)[d] :
            part[2] # {} /\ \A c \in part[2] : <<part[1], c>> \in CallsOf(v, s)[d]
<1> DEFINE S == {d \in Nat : d \in Depths => \A part \in Parts(v, s)[d] :
                    part[2] # {} /\ \A c \in part[2] : <<part[1], c>> \in CallsOf(v, s)[d]}
<1>1. 0 \in S
  BY PartLevels, CallLevelsOf
<1>2. ASSUME NEW d \in Nat, d \in S PROVE d + 1 \in S
  <2> SUFFICES ASSUME d + 1 \in Depths, NEW part \in Parts(v, s)[d + 1]
               PROVE  /\ part[2] # {}
                      /\ \A c \in part[2] : <<part[1], c>> \in CallsOf(v, s)[d + 1]
    BY DepthBounds
  <2>1. d <= MaxDepth /\ d \in Depths
    BY DepthBounds
  <2>2. part \in PartsBelow(Parts(v, s)[d], d)
    BY PartLevels
  <2>3. PICK over \in Parts(v, s)[d] : \E k \in Members(over[1]) :
            part = <<over[1].at[k], SchemasBeside(over[1], over[2], k)>>
    BY <2>2, BelowAPart
  <2>4. PICK k \in Members(over[1]) :
            part = <<over[1].at[k], SchemasBeside(over[1], over[2], k)>>
    BY <2>3
  <2>5. over[2] # {} /\ \A c \in over[2] : <<over[1], c>> \in CallsOf(v, s)[d]
    BY <1>2, <2>1
  <2>6. ASSUME NEW c \in over[2]
        PROVE  CheckedValue(over[1], c, d) = "fits" /\ c \in SchemasAt(s)[d]
    <3>1. <<over[1], c>> \in CallsOf(v, s)[d]
      BY <2>5
    <3>2. CheckedValue(<<over[1], c>>[1], <<over[1], c>>[2], d) = "fits"
      BY <2>1, <3>1, AllFit
    <3>3. <<over[1], c>>[2] \in SchemasAt(s)[d]
      BY <2>1, <3>1, CallsWithin
    <3> QED
      BY <3>2, <3>3
  <2>8. ASSUME NEW t \in over[2] PROVE PartSchemas(over[1], t, k) # {}
    <3>1. ~LocallyRefused(t)
      BY <2>1, <2>6, AllAccepted, CheckAccepts
    <3>2. PartSchemas(over[1], t, k) = MemberSchemas(t, k)
      BY <2>6, MembersMatch
    <3>3. t.type \in {"object", "array"} /\ (t.type = "object" => k \in Keys(t))
      BY <2>6, MembersMatch
    <3>4. CASE t.type = "object"
      <4>1. PICK p \in t.properties : k \in DOMAIN p
        BY <3>3, <3>4 DEF Keys
      <4>2. p[k] \in MemberSchemas(t, k)
        BY <3>4, <4>1 DEF MemberSchemas, Property
      <4> QED
        BY <3>2, <4>2
    <3>5. CASE t.type = "array"
      BY <3>1, <3>2, <3>5 DEF LocallyRefused, MemberSchemas
    <3> QED
      BY <3>3, <3>4, <3>5
  <2>9. part[2] # {}
    BY <2>4, <2>5, <2>8 DEF SchemasBeside
  <2>10. ASSUME NEW c \in part[2] PROVE <<part[1], c>> \in CallsOf(v, s)[d + 1]
    <3>1. PICK t \in over[2] : c \in PartSchemas(over[1], t, k)
      BY <2>4 DEF SchemasBeside
    <3>2. c \in MemberSchemas(t, k)
      BY <2>6, <3>1, MembersMatch
    <3>3. <<over[1].at[k], c>> \in CallMembers(CallsOf(v, s)[d], d)
      BY <2>5, <2>6, <3>2, MembersAreCalled
    <3> QED
      BY <2>4, <3>3, CallLevelsOf
  <2> QED
    BY <2>9, <2>10
<1>3. Nat \subseteq S
  <2> HIDE DEF S
  <2> QED
    BY <1>1, <1>2, SchemaCalls!DepthInduction
<1> QED
  BY <1>3, DepthBounds

(* Whatever is checked is a part, beside that schema alone.                 *)
LEMMA CallsAreParts ==
  ASSUME NEW s \in Schemas, "accepted" \in SchemaOutcomes(s), NEW v
  PROVE  \A d \in Depths : \A call \in CallsOf(v, s)[d] :
            <<call[1], {call[2]}>> \in Parts(v, s)[d]
<1> DEFINE S == {d \in Nat : d \in Depths => \A call \in CallsOf(v, s)[d] :
                    <<call[1], {call[2]}>> \in Parts(v, s)[d]}
<1>1. 0 \in S
  BY PartLevels, CallLevelsOf
<1>2. ASSUME NEW d \in Nat, d \in S PROVE d + 1 \in S
  <2> SUFFICES ASSUME d + 1 \in Depths, NEW call \in CallsOf(v, s)[d + 1]
               PROVE  <<call[1], {call[2]}>> \in Parts(v, s)[d + 1]
    BY DepthBounds
  <2>1. d <= MaxDepth /\ d \in Depths
    BY DepthBounds
  <2>2. call \in CallMembers(CallsOf(v, s)[d], d)
    BY CallLevelsOf
  <2>3. PICK parent \in CallsOf(v, s)[d] :
            /\ CheckedValue(parent[1], parent[2], d) = "fits"
            /\ \E k \in Members(parent[1]) : \E c \in MemberSchemas(parent[2], k) :
                 call = <<parent[1].at[k], c>>
    BY <2>2, MembersCalled
  <2>4. PICK k \in Members(parent[1]) : \E c \in MemberSchemas(parent[2], k) :
                 call = <<parent[1].at[k], c>>
    BY <2>3
  <2>5. PICK c \in MemberSchemas(parent[2], k) : call = <<parent[1].at[k], c>>
    BY <2>4
  <2>6. <<parent[1], {parent[2]}>> \in Parts(v, s)[d]
    BY <1>2, <2>1
  <2>7. parent[2] \in SchemasAt(s)[d]
    BY <2>1, CallsWithin
  <2>8. parent[2] \in Schemas
    BY <2>7, SchemasBelow
  <2>9. PartSchemas(parent[1], parent[2], k) = MemberSchemas(parent[2], k)
    BY <2>3, MembersMatch
  <2>10. MemberSchemas(parent[2], k) = {c}
    BY <2>8, OneSchema
  <2>11. SchemasBeside(parent[1], {parent[2]}, k) = {c}
    BY <2>9, <2>10 DEF SchemasBeside
  <2>12. <<parent[1].at[k], SchemasBeside(parent[1], {parent[2]}, k)>>
            \in PartsBelow(Parts(v, s)[d], d)
    BY <2>6, PartsAreBelow
  <2>13. Parts(v, s)[d + 1] = PartsBelow(Parts(v, s)[d], d)
    BY PartLevels
  <2>14. call[1] = parent[1].at[k] /\ call[2] = c
    BY <2>5
  <2> QED
    BY <2>11, <2>12, <2>13, <2>14
<1>3. Nat \subseteq S
  <2> HIDE DEF S
  <2> QED
    BY <1>1, <1>2, SchemaCalls!DepthInduction
<1> QED
  BY <1>3, DepthBounds

(* The validator is exact: what it passes conforms to the schema and what   *)
(* it turns away does not, whatever the nesting of the value.               *)
THEOREM ValidatorIsExact ==
  ASSUME NEW s \in Schemas, "accepted" \in SchemaOutcomes(s), NEW v
  PROVE  /\ "fits" \in ValueOutcomes(v, s) => Conforms(v, s)
         /\ "rejected" \in ValueOutcomes(v, s) => ~Conforms(v, s)
<1>1. ASSUME "fits" \in ValueOutcomes(v, s), NEW d \in Depths, NEW part \in Parts(v, s)[d]
      PROVE  \E c \in part[2] : Suits(part[1], c)
  <2>1. PICK c \in part[2] : <<part[1], c>> \in CallsOf(v, s)[d]
    BY <1>1, PartsAreCalled
  <2>2. CheckedValue(part[1], c, d) = "fits"
    BY <1>1, <2>1, AllFit
  <2> QED
    BY <2>2, FitSuits
<1>2. ASSUME "rejected" \in ValueOutcomes(v, s), Conforms(v, s) PROVE FALSE
  <2>0. PICK d \in Depths : \E call \in CallsOf(v, s)[d] :
            CheckedValue(call[1], call[2], d) = "rejected"
    BY <1>2, SomeRejected
  <2>1. PICK call \in CallsOf(v, s)[d] : CheckedValue(call[1], call[2], d) = "rejected"
    BY <2>0
  <2> DEFINE w == call[1]
             c == call[2]
  <2>2. c \in SchemasAt(s)[d]
    BY <2>1, CallsWithin
  <2>3. ~TooDeep(d)
    BY <2>2, AllAccepted, CheckAccepts
  <2>4. <<w, {c}>> \in Parts(v, s)[d]
    BY CallsAreParts
  <2>5. Suits(w, c)
    <3>1. \E t \in <<w, {c}>>[2] : Suits(<<w, {c}>>[1], t)
      BY <1>2, <2>4 DEF Conforms, ConformsAt
    <3> QED
      BY <3>1
  <2>6. c.type = "object" /\ w.kind = "object" /\ Unknown(w, c) # {}
    BY <2>1, <2>3, <2>5, RejectedFailsToSuit
  <2>7. PICK k \in DOMAIN w.at : k \notin Keys(c)
    BY <2>6 DEF Unknown
  <2>8. k \in Members(w) /\ PartSchemas(w, c, k) = {}
    BY <2>6, <2>7 DEF Members, PartSchemas, Property, Keys
  <2>9. d \in Nat /\ d + 1 \in Depths
    BY <2>3, DepthBounds
  <2>10. SchemasBeside(w, {c}, k) = {}
    BY <2>8 DEF SchemasBeside
  <2>11. <<w.at[k], {}>> \in PartsBelow(Parts(v, s)[d], d)
    BY <2>4, <2>8, <2>10, PartsAreBelow
  <2>12. <<w.at[k], {}>> \in Parts(v, s)[d + 1]
    BY <2>9, <2>11, PartLevels
  <2>13. \E t \in <<w.at[k], {}>>[2] : Suits(<<w.at[k], {}>>[1], t)
    BY <1>2, <2>9, <2>12 DEF Conforms, ConformsAt
  <2> QED
    BY <2>13
<1> QED
  BY <1>1, <1>2 DEF Conforms, ConformsAt

(* A value that conforms as deep as the validator looks conforms to the     *)
(* bottom: it has nothing below that depth.                                 *)
THEOREM ConformsToTheBottom ==
  ASSUME NEW s \in Schemas, "accepted" \in SchemaOutcomes(s), NEW v
  PROVE  Conforms(v, s) <=> \A d \in Nat : ConformsAt(v, s, d)
<1>1. (\A d \in Nat : ConformsAt(v, s, d)) => Conforms(v, s)
  BY DepthBounds DEF Conforms
<1>2. ASSUME Conforms(v, s) PROVE \A d \in Nat : ConformsAt(v, s, d)
  <2> DEFINE S == {d \in Nat : d \in Depths => \A part \in Parts(v, s)[d] :
                      part[2] \subseteq SchemasAt(s)[d] /\ \A p, q \in part[2] : p = q}
  <2>1. 0 \in S
    BY PartLevels, SchemaLevels
  <2>2. ASSUME NEW d \in Nat, d \in S PROVE d + 1 \in S
    <3> SUFFICES ASSUME d + 1 \in Depths, NEW part \in Parts(v, s)[d + 1]
                 PROVE  /\ part[2] \subseteq SchemasAt(s)[d + 1]
                        /\ \A p, q \in part[2] : p = q
      BY DepthBounds
    <3>1. d <= MaxDepth /\ d \in Depths
      BY DepthBounds
    <3>2. part \in PartsBelow(Parts(v, s)[d], d)
      BY PartLevels
    <3>3. PICK over \in Parts(v, s)[d] : \E k \in Members(over[1]) :
              part = <<over[1].at[k], SchemasBeside(over[1], over[2], k)>>
      BY <3>2, BelowAPart
    <3>4. PICK k \in Members(over[1]) :
              part = <<over[1].at[k], SchemasBeside(over[1], over[2], k)>>
      BY <3>3
    <3>5. PICK c \in over[2] : Suits(over[1], c)
      BY <1>2, <3>1 DEF Conforms, ConformsAt
    <3>6. over[2] = {c} /\ c \in SchemasAt(s)[d]
      BY <2>2, <3>1
    <3>7. part[2] = PartSchemas(over[1], c, k)
      BY <3>4, <3>6 DEF SchemasBeside
    <3>8. over[1].kind \in {"object", "array"} /\ c.type = over[1].kind
      BY <3>5 DEF Suits, Members
    <3>9. part[2] = MemberSchemas(c, k)
      BY <3>7, <3>8 DEF PartSchemas, MemberSchemas
    <3>10. part[2] \subseteq Children(c)
      BY <3>8, <3>9 DEF MemberSchemas, Children, Property
    <3>11. c \in Schemas
      BY <3>6, SchemasBelow
    <3> QED
      BY <3>1, <3>6, <3>9, <3>10, <3>11, ChildrenAreCalled, OneSchema
  <2>3. Nat \subseteq S
    <3> HIDE DEF S
    <3> QED
      BY <2>1, <2>2, SchemaCalls!DepthInduction
  <2>4. ASSUME NEW part \in Parts(v, s)[MaxDepth + 1] PROVE FALSE
    <3>1. part[2] \subseteq SchemasAt(s)[MaxDepth + 1]
      BY <2>3, DepthBounds
    <3>2. \E c \in part[2] : Suits(part[1], c)
      BY <1>2, DepthBounds DEF Conforms, ConformsAt
    <3> QED
      BY <3>1, <3>2, NoneTooDeep
  <2> DEFINE E == {d \in Nat : d \notin Depths => Parts(v, s)[d] = {}}
  <2>5. 0 \in E
    BY DepthBounds
  <2>6. ASSUME NEW d \in Nat, d \in E PROVE d + 1 \in E
    <3> SUFFICES ASSUME d + 1 \notin Depths PROVE Parts(v, s)[d + 1] = {}
      BY DepthBounds
    <3>1. d = MaxDepth + 1 \/ d \notin Depths
      BY DepthBounds
    <3>2. Parts(v, s)[d] = {}
      BY <2>4, <2>6, <3>1
    <3> HIDE DEF E, S
    <3>3. Parts(v, s)[d + 1] = PartsBelow(Parts(v, s)[d], d)
      BY PartLevels
    <3>4. PartsBelow({}, d) = {}
      BY DEF PartsBelow
    <3> QED
      BY <3>2, <3>3, <3>4
  <2>7. Nat \subseteq E
    <3> HIDE DEF E
    <3> QED
      BY <2>5, <2>6, SchemaCalls!DepthInduction
  <2>8. ASSUME NEW d \in Nat PROVE ConformsAt(v, s, d)
    <3>1. CASE d \in Depths
      BY <1>2, <3>1 DEF Conforms
    <3>2. CASE d \notin Depths
      BY <2>7, <3>2 DEF ConformsAt
    <3> QED
      BY <3>1, <3>2
  <2> QED
    BY <2>8
<1> QED
  BY <1>1, <1>2

-----------------------------------------------------------------------------
(* The checks of the contracts are those of the validator.                  *)
ValidatorIsUsed ==
    /\ \A s \in Schemas : ValidateSchema(s) = SchemaOutcomes(s)
    /\ \A v : \A s \in Schemas : ValidateValue(v, s) = ValueOutcomes(v, s)

(* What is remembered of the checks: a generation was accepted for its      *)
(* model, and an answer that was judged is still the one that was judged.   *)
Judged ==
    /\ verdict.outcome = "served" => "fits" \in NormalOutcomes(Request)
    /\ verdict.category = "structured_output_invalid" => "rejected" \in NormalOutcomes(Request)
ReplyInv ==
    /\ model # NoModel /\ Request.kind = "generate" =>
         "accepted" \in GenerationOutcomes(Request, model)
    /\ \A v, w \in result.spelled : v = w
    /\ model # NoModel /\ stage = "ended" => Judged

LEMMA FailureCategories ==
  \A error : Category(error) # "structured_output_invalid"
  BY DEF Category

LEMMA AnswersSpellOne ==
  ASSUME NEW answer \in Answers, NEW flaw
  PROVE  \A v, w \in Read(answer, flaw).spelled : v = w
<1>1. PICK t \in Texts \cup Spelled \cup {[text |-> "blank", spelled |-> {}]} :
        \E c, e : answer = [text |-> t.text, spelled |-> t.spelled, calls |-> c, vectors |-> e]
  BY DEF Answers
<1>2. answer.spelled = t.spelled
  BY <1>1
<1>3. \A v, w \in t.spelled : v = w
  BY DEF Texts, Spelled
<1>4. Read(answer, flaw).spelled = answer.spelled
  BY <1>1 DEF Read
<1> QED
  BY <1>2, <1>3, <1>4

LEMMA ReplyInvStep ==
  ASSUME ContractInv, ReplyInv, [ContractNext]_contractVars
  PROVE  ReplyInv'
<1>1. ASSUME Submit \/ Disabled \/ ValidateEmbedding \/ Health PROVE ReplyInv'
  <2>1. model = NoModel /\ result' = result
    BY <1>1 DEF Submit, Disabled, ValidateEmbedding, Health, ContractInv, Selected
  <2>2. model' = NoModel \/ (stage' = "routed" /\ Request'.kind = "embed")
    BY <1>1, <2>1
       DEF Submit, Disabled, ValidateEmbedding, Health, ContractInv, Request
  <2> QED
    BY <2>1, <2>2 DEF ReplyInv
<1>2. ASSUME ValidateGeneration PROVE ReplyInv'
  <2>1. /\ stage = "generate" /\ model = NoModel
        /\ result' = result /\ Request' = Request
    BY <1>2 DEF ValidateGeneration, ContractInv, Selected, Request
  <2>2. \/ model' = NoModel
        \/ stage' = "routed" /\ "accepted" \in GenerationOutcomes(Request, model')
    BY <1>2, <2>1 DEF ValidateGeneration, Request
  <2> QED
    BY <2>1, <2>2 DEF ReplyInv
<1>3. ASSUME VerifyArtifact PROVE ReplyInv'
  <2>1. Request' = Request /\ model' = model /\ result' = result
    BY <1>3 DEF VerifyArtifact, Request
  <2>2. stage' = "ended" =>
          verdict'.outcome = "failed" /\ verdict'.category # "structured_output_invalid"
    BY <1>3, FailureCategories DEF VerifyArtifact, Fail, End, Verdict
  <2> QED
    BY <2>1, <2>2 DEF ReplyInv, Judged
<1>4. ASSUME Ask PROVE ReplyInv'
  <2>1. Request' = Request /\ model' = model
    BY <1>4 DEF Ask, Request
  <2>2. stage' = "ended" =>
          verdict'.outcome = "failed" /\ verdict'.category # "structured_output_invalid"
    BY <1>4, FailureCategories DEF Ask, Fail, End, Verdict
  <2>3. result' = result \/ \E flaw \in Flaws : \E answer \in Answers : result' = Read(answer, flaw)
    BY <1>4 DEF Ask
  <2>4. \A v, w \in result'.spelled : v = w
    BY <2>3, AnswersSpellOne DEF ReplyInv
  <2> QED
    BY <2>1, <2>2, <2>4 DEF ReplyInv, Judged
<1>5. ASSUME Normalise PROVE ReplyInv'
  <2>1. /\ Request' = Request /\ model' = model /\ result' = result
        /\ NormalOutcomes(Request)' = NormalOutcomes(Request)
    BY <1>5 DEF Normalise, Request, NormalOutcomes, CountFits
  <2>2. Judged'
    BY <1>5, <2>1 DEF Normalise, End, Verdict, Judged, Request
  <2> QED
    BY <2>1, <2>2 DEF ReplyInv
<1>6. ASSUME Forget PROVE ReplyInv'
  BY <1>6 DEF Forget, ReplyInv, NoResult
<1>7. ASSUME UNCHANGED contractVars PROVE ReplyInv'
  BY <1>7 DEF contractVars, ReplyInv, Judged, Request, NormalOutcomes, CountFits
<1> QED
  BY <1>1, <1>2, <1>3, <1>4, <1>5, <1>6, <1>7 DEF ContractNext

(* A structured reply, for a request that was accepted.                     *)
LEMMA StructuredReply ==
  ASSUME ValidatorIsUsed, exchange \in Exchanges, Request.kind = "generate",
         Request.capability = "structured_output",
         "accepted" \in SchemaOutcome(Request)
  PROVE  /\ "fits" \in NormalOutcomes(Request) =>
              \E v \in result.spelled : \A s \in Request.schema : Conforms(v, s)
         /\ "rejected" \in NormalOutcomes(Request) /\ (\A v, w \in result.spelled : v = w) =>
              ~\E v \in result.spelled : \A s \in Request.schema : Conforms(v, s)
<1>1. PICK s \in Request.schema : "accepted" \in ValidateSchema(s)
  BY DEF SchemaOutcome
<1>2. Request.schema = {s} /\ s \in Schemas
  BY <1>1, SchemasAreNested DEF Request
<1>3. "accepted" \in SchemaOutcomes(s)
  BY <1>1, <1>2 DEF ValidatorIsUsed
<1>4. \A v : ValidateValue(v, s) = ValueOutcomes(v, s)
  BY <1>2 DEF ValidatorIsUsed
<1>5. \A v : /\ "fits" \in ValidateValue(v, s) => Conforms(v, s)
             /\ "rejected" \in ValidateValue(v, s) => ~Conforms(v, s)
  BY <1>2, <1>3, <1>4, ValidatorIsExact
<1>6. NormalOutcomes(Request) =
        IF result.spelled = {} THEN {"rejected"}
        ELSE UNION {ValidateValue(v, t) : v \in result.spelled, t \in Request.schema}
  BY DEF NormalOutcomes
<1>7. ASSUME "fits" \in NormalOutcomes(Request)
      PROVE  \E v \in result.spelled : \A t \in Request.schema : Conforms(v, t)
  <2>1. PICK v \in result.spelled : "fits" \in ValidateValue(v, s)
    BY <1>2, <1>6, <1>7
  <2> QED
    BY <1>2, <1>5, <2>1
<1>8. ASSUME "rejected" \in NormalOutcomes(Request), \A v, w \in result.spelled : v = w,
             NEW x \in result.spelled, \A t \in Request.schema : Conforms(x, t)
      PROVE  FALSE
  <2>1. PICK v \in result.spelled : "rejected" \in ValidateValue(v, s)
    BY <1>2, <1>6, <1>8
  <2>2. v = x
    BY <1>8
  <2> QED
    BY <1>2, <1>5, <1>8, <2>1, <2>2
<1> QED
  BY <1>7, <1>8

(* Proposed tool calls, for a request that was accepted.                    *)
LEMMA ProposedCalls ==
  ASSUME ValidatorIsUsed, exchange \in Exchanges, Request.kind = "generate",
         Request.capability = "tool_call_proposal",
         "accepted" \in ToolOutcomes(Request), "fits" \in NormalOutcomes(Request)
  PROVE  \A i \in DOMAIN result.calls : \E j \in DOMAIN Request.tools :
            /\ Request.tools[j].name = result.calls[i].name
            /\ Conforms(result.calls[i].arguments, Request.tools[j].schema)
<1> DEFINE tools == Request.tools
<1>1. \A j \in DOMAIN tools : ToolOutcome(tools, j) = {"accepted"}
  <2> DEFINE bad == {j \in DOMAIN tools : ToolOutcome(tools, j) # {"accepted"}}
  <2>1. bad = {}
    BY DEF ToolOutcomes
  <2> QED
    BY <2>1
<1>2. \A j \in DOMAIN tools : tools[j].schema \in Schemas
  BY SchemasAreNested DEF Request
<1>3. \A j \in DOMAIN tools : "accepted" \in SchemaOutcomes(tools[j].schema)
  BY <1>1, <1>2 DEF ToolOutcome, ValidatorIsUsed
<1>4. \A i \in DOMAIN result.calls : CallOutcomes(result.calls[i], tools) = {"fits"}
  <2> DEFINE bad == {i \in DOMAIN result.calls : CallOutcomes(result.calls[i], tools) # {"fits"}}
  <2>1. "fits" \in CallsOutcomes(result.calls, tools)
    BY DEF NormalOutcomes
  <2>2. bad = {}
    BY <2>1 DEF CallsOutcomes
  <2> QED
    BY <2>2
<1>5. ASSUME NEW i \in DOMAIN result.calls
      PROVE  \E j \in DOMAIN tools : /\ tools[j].name = result.calls[i].name
                                    /\ Conforms(result.calls[i].arguments, tools[j].schema)
  <2> DEFINE call == result.calls[i]
             defined == {j \in DOMAIN tools : tools[j].name = call.name}
             j == CHOOSE x \in defined : TRUE
  <2>1. CallOutcomes(call, tools) = {"fits"}
    BY <1>4
  <2>2. defined # {} /\ ValidateValue(call.arguments, tools[j].schema) = {"fits"}
    BY <2>1 DEF CallOutcomes
  <2>3. j \in DOMAIN tools /\ tools[j].name = call.name
    BY <2>2
  <2> HIDE DEF j
  <2>4. ValueOutcomes(call.arguments, tools[j].schema) = {"fits"}
    BY <1>2, <2>2, <2>3 DEF ValidatorIsUsed
  <2>5. Conforms(call.arguments, tools[j].schema)
    BY <1>2, <1>3, <2>3, <2>4, ValidatorIsExact
  <2> QED
    BY <2>3, <2>5
<1> QED
  BY <1>5

LEMMA AcceptedSchemas ==
  ASSUME NEW r, NEW m, "accepted" \in GenerationOutcomes(r, m)
  PROVE  /\ r.capability = "structured_output" => "accepted" \in SchemaOutcome(r)
         /\ r.capability = "tool_call_proposal" => "accepted" \in ToolOutcomes(r)
<1>1. "accepted" \in IF SchemaOutcome(r) # {"accepted"} THEN SchemaOutcome(r)
                                                       ELSE ToolOutcomes(r)
  BY DEF GenerationOutcomes
<1>2. "accepted" \in SchemaOutcome(r)
  BY <1>1
<1>3. r.capability = "tool_call_proposal" => SchemaOutcome(r) = {"accepted"}
  BY <1>2 DEF SchemaOutcome
<1> QED
  BY <1>1, <1>2, <1>3

LEMMA FitReply ==
  ASSUME ValidatorIsUsed, ContractInv, ReplyInv
  PROVE  ReplyFitsRequest
<1> SUFFICES ASSUME stage = "ended", model # NoModel
             PROVE  ReplyFitsRequest
  BY DEF ReplyFitsRequest
<1>1. Judged /\ exchange \in Exchanges /\ Request.kind \in {"generate", "embed"}
  BY DEF ContractInv, ReplyInv, Selected
<1>2. Request.kind = "generate" => "accepted" \in GenerationOutcomes(Request, model)
  BY DEF ReplyInv
<1>3. CASE Request.kind = "embed"
  <2>1. verdict.outcome = "served" =>
          /\ Len(result.vectors) = Len(Request.texts)
          /\ \A i \in DOMAIN result.vectors : VectorFits(result.vectors[i])
    BY <1>1, <1>3 DEF Judged, NormalOutcomes, CountFits
  <2> QED
    BY <1>3, <2>1 DEF ReplyFitsRequest, Request, VectorFits
<1>4. CASE Request.kind = "generate" /\ Request.capability = "structured_output"
  <2>1. "accepted" \in SchemaOutcome(Request)
    BY <1>2, <1>4, AcceptedSchemas
  <2>2. /\ verdict.outcome = "served" =>
             \E v \in result.spelled : \A s \in Request.schema : Conforms(v, s)
        /\ verdict.category = "structured_output_invalid" =>
             ~\E v \in result.spelled : \A s \in Request.schema : Conforms(v, s)
    BY <1>1, <1>4, <2>1, StructuredReply DEF Judged, ReplyInv
  <2> QED
    BY <1>4, <2>2 DEF ReplyFitsRequest, Request
<1>5. CASE Request.kind = "generate" /\ Request.capability = "tool_call_proposal"
  <2>1. "accepted" \in ToolOutcomes(Request)
    BY <1>2, <1>5, AcceptedSchemas
  <2>2. verdict.outcome = "served" =>
          \A i \in DOMAIN result.calls : \E j \in DOMAIN Request.tools :
            /\ Request.tools[j].name = result.calls[i].name
            /\ Conforms(result.calls[i].arguments, Request.tools[j].schema)
    BY <1>1, <1>5, <2>1, ProposedCalls DEF Judged
  <2> QED
    BY <1>5, <2>2 DEF ReplyFitsRequest, Request
<1>6. CASE /\ Request.kind = "generate"
           /\ Request.capability \notin {"structured_output", "tool_call_proposal"}
  <2>1. verdict.outcome = "served" => result.text # "blank"
    BY <1>1, <1>6 DEF Judged, NormalOutcomes
  <2> QED
    BY <1>6, <2>1 DEF ReplyFitsRequest, Request
<1> QED
  BY <1>1, <1>3, <1>4, <1>5, <1>6

(* The caller gets what it asked for, and a conforming value is never       *)
(* turned away: for every nesting of schemas and values, with the validator *)
(* of the code as the one the gateway calls.                                *)
THEOREM RepliesFitRequests == ValidatorIsUsed /\ ContractSpec => []ReplyFitsRequest
<1> SUFFICES ASSUME ValidatorIsUsed PROVE ContractSpec => []ReplyFitsRequest
  OBVIOUS
<1>1. ContractInit => ReplyInv
  BY DEF ContractInit, ReplyInv, NoResult
<1>2. ContractInv /\ ReplyInv /\ [ContractNext]_contractVars => ReplyInv'
  BY ReplyInvStep
<1>3. ContractInv /\ ReplyInv => ReplyFitsRequest
  BY FitReply
<1> QED
  BY <1>1, <1>2, <1>3, ContractInvariant, PTL DEF ContractSpec
=============================================================================
