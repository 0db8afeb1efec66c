---------------------------- MODULE MCDecisions ----------------------------
(* The inputs of GatewayContracts, WindowsTools and StabilityGate.  They are *)
(* three programs on three machines that share nothing, so one of them runs *)
(* in a behaviour while the others stay where they start.                   *)
EXTENDS GatewayValidation, WindowsTools, StabilityGate

CONSTANTS root, sub, fileA, fileB, fileC    \* the file tree WindowsTools searches

(* Values: atoms by kind and size, lists and objects of atoms.              *)
Atom(kind, size) == [kind |-> kind, size |-> size, at |-> <<>>]
List(vs) == [kind |-> "array", size |-> 0, at |-> vs]
Object(at) == [kind |-> "object", size |-> 0, at |-> at]

Atoms == {Atom("string", 0), Atom("string", 1), Atom("string", 2), Atom("integer", 1),
          Atom("number", 1), Atom("boolean", 1), Atom("null", 0)}
MCValues ==
    Atoms
    \cup {List(vs) : vs \in {<<>>} \cup {<<v>> : v \in Atoms}}
    \cup {List(<<v, w>>) : v, w \in {Atom("string", 1), Atom("integer", 1)}}
    \cup {Object(<<>>)}
    \cup {Object([k \in {key} |-> v]) : key \in {"a", "b"}, v \in Atoms}
    \cup {Object([k \in {"a", "b"} |-> v]) : v \in Atoms}
    \cup {List(<<List(<<v>>)>>) : v \in {Atom("string", 1), List(<<>>)}}

Schema(type) ==
    [type |-> type, strange |-> FALSE, enum |-> "absent", among |-> {}, open |-> FALSE,
     properties |-> {}, required |-> {}, items |-> {}, min |-> {}, max |-> {}]
AtomSchemas ==
    {Schema(type) : type \in JsonTypes \cup {"list", "unknown"}}
    \cup {[Schema("string") EXCEPT !.min = {1}], [Schema("string") EXCEPT !.max = {1}],
          [Schema("string") EXCEPT !.strange = TRUE]}
    \cup {[Schema(type) EXCEPT !.enum = "values", !.among = {Atom("integer", 1)}] :
            type \in {"integer", "number", "boolean", "string"}}
    \cup {[Schema("string") EXCEPT !.enum = e] : e \in {"null", "malformed"}}
    \cup {[Schema("string") EXCEPT !.required = {{}}]}
Leaf == {Schema("string"), Schema("integer"), Schema("list"),
         [Schema("string") EXCEPT !.enum = "null"]}
MCSchemas ==
    AtomSchemas
    \cup {[Schema("array") EXCEPT !.items = {i}] : i \in AtomSchemas}
    \cup {[Schema("array") EXCEPT !.items = {[Schema("array") EXCEPT !.items = {i}]}] :
            i \in {Schema("string"), [Schema("array") EXCEPT !.items = {Schema("string")}]}}
    \cup {[Schema("object") EXCEPT !.properties = {[k \in {"a"} |-> c]}, !.required = rs,
                                   !.open = o] :
            c \in Leaf, rs \in {{}, {{}}, {{"a"}}, {{"b"}}}, o \in BOOLEAN}
    \cup {[Schema("object") EXCEPT !.properties = {[k \in {"a", "b"} |-> IF k = "a" THEN c ELSE d]},
                                   !.required = {{"a"}}] : c, d \in Leaf}
    \cup {[Schema("object") EXCEPT !.properties = {[k \in {"a", "b", "c"} |-> Schema("null")]}]}

User(size) == [role |-> "user", size |-> size]
System(size) == [role |-> "system", size |-> size]
Image(supported, size) == [supported |-> supported, size |-> size]
Plain == [kind |-> "generate", capability |-> "chat", identified |-> TRUE,
          messages |-> <<User(1)>>, images |-> <<>>, profile |-> "none", context |-> 4096,
          output |-> 128, inTime |-> TRUE, schema |-> {}, tools |-> <<>>]
Tool(name, schema) == [name |-> name, named |-> TRUE, schema |-> schema]
Arguments == [Schema("object") EXCEPT !.properties = {[k \in {"a"} |-> Schema("string")]},
                                      !.required = {{"a"}}]
NullEnum == [Schema("object") EXCEPT
               !.properties = {[k \in {"a"} |-> [Schema("string") EXCEPT !.enum = "null"]]}]
MCTools ==
    {<<>>, <<Tool("t", Arguments)>>, <<Tool("t", Arguments), Tool("u", NullEnum)>>,
     <<Tool("t", Arguments), Tool("t", Arguments)>>, <<[Tool("t", Arguments) EXCEPT !.named = FALSE]>>,
     <<Tool("t", Schema("list")), Tool("u", Schema("unknown"))>>,
     <<Tool("t", Arguments), Tool("u", Arguments), Tool("v", Arguments)>>}
MCAllSchemas ==
    LET below(ss) == UNION {Children(s) : s \in ss}
        first == MCSchemas \cup UNION {{ts[i].schema : i \in DOMAIN ts} : ts \in MCTools}
    IN first \cup below(first) \cup below(below(first)) \cup below(below(below(first)))
Call(name, arguments) == [name |-> name, arguments |-> arguments]
OneCall == {Call(n, Object(at)) : n \in {"t", "u", "w"},
              at \in {<<>>} \cup {[k \in {key} |-> v] : key \in {"a", "b"},
                                    v \in {Atom("string", 1), Atom("integer", 1)}}}
MCToolCalls ==
    {<<>>} \cup {<<c>> : c \in OneCall} \cup {<<c, d>> : c, d \in OneCall}
Vector == [full : BOOLEAN, values : {"finite", "infinite", "not numbers"}]
MCVectors == {<<>>} \cup {<<v>> : v \in Vector} \cup {<<v, w>> : v, w \in Vector}

Capabilities == {"generation", "structured_output", "tool_call_proposal", "vision",
                 "multilingual", "embeddings", "unknown"}
Profiles == {"none", "fast", "advanced", Embedder, "stranger"}
Generations ==
    {[Plain EXCEPT !.capability = c, !.profile = p, !.images = i, !.context = x, !.output = o,
                   !.schema = s, !.tools = t] :
       c \in Capabilities, p \in Profiles, i \in {<<>>, <<Image(TRUE, 1)>>},
       x \in {2048, 4096, 8192}, o \in {32, 33, 256}, s \in {{}, {Schema("string")}},
       t \in {<<>>, <<Tool("t", Arguments)>>}}
    \cup {[Plain EXCEPT !.messages = ms] :
            ms \in {<<>>, <<User(0)>>, <<User(2), System(1)>>, <<User(2), User(2)>>,
                    <<User(1), User(1), User(1)>>}}
    \cup {[Plain EXCEPT !.output = o] : o \in {0, 257}}
    \cup {[Plain EXCEPT !.inTime = FALSE], [Plain EXCEPT !.identified = FALSE]}
    \cup {[Plain EXCEPT !.capability = "vision", !.messages = ms, !.images = i] :
            ms \in {<<User(1)>>, <<System(1)>>},
            i \in {<<Image(TRUE, 2)>>, <<Image(TRUE, 3)>>, <<Image(TRUE, 0)>>, <<Image(FALSE, 1)>>,
                   <<Image(TRUE, 1), Image(TRUE, 1)>>,
                   <<Image(TRUE, 1), Image(TRUE, 1), Image(TRUE, 1)>>}}
    \cup {[Plain EXCEPT !.capability = "structured_output", !.schema = {s}] : s \in MCSchemas}
    \cup {[Plain EXCEPT !.capability = "tool_call_proposal", !.tools = t] : t \in MCTools}
Embeddings ==
    {[kind |-> "embed", identified |-> i, texts |-> ts, inTime |-> t, profile |-> p] :
       ts \in {<<>>, <<0>>, <<1>>, <<3>>, <<1, 2>>, <<2, 2>>, <<1, 1, 1>>},
       t \in BOOLEAN, i \in BOOLEAN, p \in {"none", "fast", Embedder}}

Up == [response |-> "200", version |-> TRUE, models |-> [m \in AllModels |-> "pinned"]]
Servers(o, l) == [ollama |-> o, llama_cpp |-> l]
Server_Faults ==
    {[Up EXCEPT !.response = x] : x \in Responses}
    \cup {[Up EXCEPT !.version = v, !.models[m] = x] :
            v \in BOOLEAN, m \in AllModels, x \in {"pinned", "other", "missing"}}
Exchange(r, s, e) == [request |-> r, servers |-> s, enabled |-> e]
MCExchanges ==
    {Exchange(r, Servers(Up, Up), TRUE) : r \in Generations \cup Embeddings}
    \cup {Exchange(r, Servers(o, l), TRUE) :
            r \in {Plain, [Plain EXCEPT !.profile = "advanced"], [kind |-> "health"]},
            o \in Server_Faults, l \in Server_Faults}
    \cup {Exchange(r, Servers(Up, Up), FALSE) : r \in {Plain, [kind |-> "health"]}}

-----------------------------------------------------------------------------
Good(tool) ==
    [tool |-> tool, late |-> FALSE, digest |-> TRUE, bound |-> TRUE, listed |-> TRUE,
     query |-> TRUE, most |-> 3, wanted |-> 3]
Flags == {"late", "digest", "bound", "listed", "query"}
MCCommands ==
    {Good(t) : t \in {"unknown", "phase8.status.read", "windows.project.open"} \cup DOMAIN Capability}
    \cup {[Good("windows.files.search") EXCEPT !.most = n] : n \in 1..3}
    \cup {[Good(t) EXCEPT ![flag] = (flag = "late")] :
            flag \in Flags,
            t \in {"windows.files.search", "windows.app.open", "windows.media.volume.set"}}
MCParent == [n \in Nodes |-> IF n \in {fileA, sub} THEN root ELSE sub]

-----------------------------------------------------------------------------
vars == <<contractVars, desktopVars, gateVars>>
DesktopWaits == DesktopInit /\ volume = 0
GateWaits == GateInit /\ dossier

Init == ContractInit /\ DesktopInit /\ GateInit /\ (DesktopWaits \/ GateWaits)
Next ==
    \/ DesktopWaits /\ GateWaits /\ ContractNext /\ UNCHANGED <<desktopVars, gateVars>>
    \/ ContractInit /\ GateWaits /\ DesktopNext /\ UNCHANGED <<contractVars, gateVars>>
    \/ ContractInit /\ DesktopWaits /\ GateNext /\ UNCHANGED <<contractVars, desktopVars>>
Spec == Init /\ [][Next]_vars
=============================================================================
