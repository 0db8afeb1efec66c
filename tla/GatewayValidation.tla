------------------------- MODULE GatewayValidation -------------------------
(***************************************************************************)
(* The validator of schemas and structured values of the model gateway     *)
(* (validation.py), which GatewayContracts is given as ValidateSchema and  *)
(* ValidateValue, and what its verdicts promise the caller.                *)
(***************************************************************************)
EXTENDS GatewayContracts

CONSTANTS
    Schemas,                    \* the schemas of the exchanges and all below them
    MaxProperties, MaxDepth     \* limits written in the code

ASSUME ValidationLimits == MaxProperties \in Nat /\ MaxDepth \in Nat

-----------------------------------------------------------------------------
(* validate_schema: the outcomes of checking a schema.  A type that is not  *)
(* hashable makes the membership test itself fail.                          *)
JsonTypes == {"object", "array", "string", "integer", "number", "boolean", "null"}

Keys(s) == UNION {DOMAIN ps : ps \in s.properties}
LocallyRefused(s) ==
    \/ s.type \notin JsonTypes
    \/ s.enum = "malformed"
    \/ s.type = "object" /\ s.open              \* additionalProperties
    \/ s.type = "object" /\ Cardinality(Keys(s)) > MaxProperties
    \/ s.type = "object" /\ ~(UNION s.required \subseteq Keys(s))
    \/ s.type = "array" /\ s.items = {}
    \/ /\ s.type \notin {"object", "array"}
       /\ s.properties \cup s.required \cup s.items # {}
Children(s) ==
    CASE s.type = "object" -> UNION {{ps[k] : k \in DOMAIN ps} : ps \in s.properties}
      [] s.type = "array" -> s.items
      [] OTHER -> {}

ASSUME SchemasAreNested ==
    /\ \A s \in Schemas : /\ Children(s) \subseteq Schemas
                          /\ \A p, q \in s.properties : p = q
                          /\ \A p, q \in s.items : p = q
    /\ \A e \in Exchanges : e.request.kind = "generate" =>
         /\ e.request.schema \subseteq Schemas
         /\ \A p, q \in e.request.schema : p = q
         /\ \A i \in DOMAIN e.request.tools : e.request.tools[i].schema \in Schemas

TooDeep(depth) == depth > MaxDepth
Depths == 0..(MaxDepth + 1)     \* no call goes deeper

CheckedSchema(s, depth) ==
    CASE TooDeep(depth) \/ s.strange -> "refused"
      [] ~TooDeep(depth) /\ ~s.strange /\ s.type = "list" -> "raised"
      [] ~TooDeep(depth) /\ ~s.strange /\ s.type # "list" /\ LocallyRefused(s) -> "refused"
      [] OTHER -> "accepted"
CallSchemas(schemas, depth) ==
    UNION {Children(s) : s \in {c \in schemas : CheckedSchema(c, depth) = "accepted"}}
SchemaCalls == INSTANCE CallLevels WITH Step <- CallSchemas

(* The first call that does not end well decides; which one comes first is  *)
(* left open.                                                               *)
Ending(outcomes, well) == IF outcomes \subseteq {well} THEN {well} ELSE outcomes \ {well}
SchemaOutcomes(s) ==
    LET calls == SchemaCalls!CallsAt({s})
    IN Ending(UNION {{CheckedSchema(c, depth) : c \in calls[depth]} : depth \in Depths},
              "accepted")

(* validate_structured_value: JSON true equals 1 and 1.0 in Python, so an   *)
(* enumeration does not tell them apart, but the type check does.           *)
Numeric(v) == v.kind \in {"integer", "number", "boolean"}
Equal(v, w) == v = w \/ (Numeric(v) /\ Numeric(w) /\ v.size = w.size)
HasType(v, type) == v.kind = type \/ (type = "number" /\ v.kind = "integer")

Required(s) == UNION s.required
Unknown_Ignored(v, s) == {}
Unknown(v, s) == DOMAIN v.at \ Keys(s)

ValueRejected(v, s, depth) ==
    \/ TooDeep(depth)
    \/ ~HasType(v, s.type)
    \/ s.enum = "values" /\ ~\E w \in s.among : Equal(v, w)
    \/ s.type = "object" /\ (Required(s) \ DOMAIN v.at) \cup Unknown(v, s) # {}
    \/ s.type = "string" /\ \E n \in s.min : v.size < n
    \/ s.type = "string" /\ \E n \in s.max : v.size > n

CheckedValue(v, s, depth) ==
    IF ~TooDeep(depth) /\ HasType(v, s.type) /\ s.enum = "null" THEN "raised"
    ELSE IF ValueRejected(v, s, depth) THEN "rejected" ELSE "fits"
Members(v) == IF v.kind \in {"object", "array"} THEN DOMAIN v.at ELSE {}
Property(s, k) == {ps[k] : ps \in {p \in s.properties : k \in DOMAIN p}}
CallMembers(calls, depth) ==
    LET schemas(s, k) == IF s.type = "object" THEN Property(s, k) ELSE s.items
        members(v, s) == UNION {{<<v.at[k], c>> : c \in schemas(s, k)} : k \in Members(v)}
    IN UNION {members(call[1], call[2]) :
                call \in {c \in calls : CheckedValue(c[1], c[2], depth) = "fits"}}
ValueCalls == INSTANCE CallLevels WITH Step <- CallMembers
ValueOutcomes(v, s) ==
    LET calls == ValueCalls!CallsAt({<<v, s>>})
        checked(depth) == {CheckedValue(call[1], call[2], depth) : call \in calls[depth]}
    IN Ending(UNION {checked(depth) : depth \in Depths}, "fits")

-----------------------------------------------------------------------------
(* Reference: the parts of a value at each depth beside the schemas that    *)
(* speak of them; a part that no schema speaks of is beside none.           *)
PartsBelow(parts, depth) ==
    LET schemas(v, s, k) == IF v.kind = "array" THEN s.items ELSE Property(s, k)
        below(v, ss, k) == <<v.at[k], UNION {schemas(v, s, k) : s \in ss}>>
    IN UNION {{below(part[1], part[2], k) : k \in Members(part[1])} : part \in parts}
Nesting == INSTANCE CallLevels WITH Step <- PartsBelow
Parts(v, schema) == Nesting!CallsAt({<<v, {schema}>>})

Suits(v, s) ==
    /\ v.kind = s.type \/ (v.kind = "integer" /\ s.type = "number")
    /\ s.enum = "values" => \E x \in s.among : Equal(v, x)
    /\ v.kind = "object" => UNION s.required \subseteq DOMAIN v.at
    /\ v.kind = "string" => /\ ~\E n \in s.min : v.size < n
                            /\ ~\E n \in s.max : v.size > n
ConformsAt(v, schema, depth) ==
    \A part \in Parts(v, schema)[depth] : \E s \in part[2] : Suits(part[1], s)
Conforms(v, schema) == \A depth \in Depths : ConformsAt(v, schema, depth)

(* What a caller gets is what it asked for: the value conforms to the       *)
(* schema, every proposal is a defined tool with conforming arguments, the  *)
(* text is not blank, there is one full vector for each text.  And a        *)
(* conforming value is never turned away.                                   *)
ReplyFitsRequest ==
    stage = "ended" /\ model # NoModel =>
    LET r == exchange.request
        served == verdict.outcome = "served"
    IN
    CASE r.kind = "embed" ->
           served => /\ Len(result.vectors) = Len(r.texts)
                     /\ \A i \in DOMAIN result.vectors :
                          result.vectors[i].full /\ result.vectors[i].values = "finite"
      [] r.kind = "generate" /\ r.capability = "structured_output" ->
           LET conforming == \E v \in result.spelled : \A s \in r.schema : Conforms(v, s)
           IN /\ served => conforming
              /\ verdict.category = "structured_output_invalid" => ~conforming
      [] r.kind = "generate" /\ r.capability = "tool_call_proposal" ->
           served => \A i \in DOMAIN result.calls : \E j \in DOMAIN r.tools :
                       /\ r.tools[j].name = result.calls[i].name
                       /\ Conforms(result.calls[i].arguments, r.tools[j].schema)
      [] OTHER -> served => result.text # "blank"
=============================================================================
