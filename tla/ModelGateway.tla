---------------------------- MODULE ModelGateway ----------------------------
(***************************************************************************)
(* The model gateway of src/src/personal_ai_os/model_gateway: one inference*)
(* at a time, a circuit breaker per model with a half-open probe, bounded  *)
(* retries, and the coordination of two local servers of which only one    *)
(* may keep a heavy model in memory.                                       *)
(*                                                                         *)
(* The servers are external: Ollama, which unloads after each answer, and  *)
(* llama.cpp, which sleeps when idle and may be stopped.  Both are reached *)
(* through one tunnel.  A client timeout does not stop the server: what it *)
(* loaded stays until the server itself lets go.  llama.cpp is started by  *)
(* the launcher of infrastructure/tuf/advanced, which knows nothing of     *)
(* Ollama nor of the Core.  Validation of requests and answers is in       *)
(* GatewayContracts.                                                       *)
(***************************************************************************)
EXTENDS Naturals, FiniteSets

CONSTANTS
    Threads,        \* callers: worker threads of the Core
    NoThread,       \* nobody
    CoreModels,     \* models served by Ollama, each with its circuit
    Advanced,       \* the model served by llama.cpp
    MaxAttempts,    \* max_attempts
    Threshold,      \* circuit_failure_threshold
    MaxFaults       \* bound of the environment's faults

Models == CoreModels \cup {Advanced}
Providers == {"ollama", "llama_cpp"}
Provider(m) == IF m = Advanced THEN "llama_cpp" ELSE "ollama"

ASSUME GatewayConstants ==
    /\ NoThread \notin Threads
    /\ Advanced \notin CoreModels
    /\ MaxAttempts \in Nat \ {0}
    /\ Threshold \in Nat \ {0}
    /\ MaxFaults \in Nat

VARIABLES
    (* memory of the gateway *)
    call,       \* what a caller is doing
    holder,     \* the caller that holds the inference guard
    circuit,    \* the circuit breaker of a model
    (* outside the Core *)
    tunnel,     \* whether the servers can be reached
    sick,       \* servers that answer with failures or not at all
    ollama,     \* whether Ollama has a model in memory
    llama,      \* whether llama.cpp is loaded, asleep or stopped
    past,       \* the faults so far, and how often
    exposed     \* history: llama.cpp is loaded where no residency check saw it

gateway == <<call, holder, circuit>>
servers == <<tunnel, sick, ollama, llama, past>>
world == <<servers, exposed>>
vars == <<gateway, world>>

Attempting == {"preparing", "waking", "verifying", "dispatching", "calling"}
Phase == {"idle", "waiting", "admitting", "pausing"} \cup Attempting
CircuitState == {"closed", "open", "half_open"}
NewCircuit ==
    [state |-> "closed", failures |-> 0, cooled |-> FALSE, probe |-> FALSE]

Model(t) == call[t].model
InAttempt(t) == call[t].phase \in Attempting

-----------------------------------------------------------------------------
(* CircuitBreaker *)

Refusing(m) ==
    \/ circuit[m].state = "open" /\ ~circuit[m].cooled
    \/ circuit[m].state = "half_open" /\ circuit[m].probe

Opened == [state |-> "open", failures |-> Threshold, cooled |-> FALSE, probe |-> FALSE]

Admitted(m) ==
    IF circuit[m].state = "closed" THEN circuit[m]
    ELSE [circuit[m] EXCEPT !.state = "half_open", !.probe = TRUE]
AfterSuccess(m) == NewCircuit
AfterTransient(m) ==
    IF circuit[m].state = "half_open" \/ circuit[m].failures + 1 >= Threshold
    THEN Opened
    ELSE [circuit[m] EXCEPT !.failures = @ + 1]
AfterOther_KeepsProbe(m) == circuit[m]
AfterOther(m) ==
    IF circuit[m].state = "half_open" THEN NewCircuit ELSE circuit[m]

-----------------------------------------------------------------------------
(* The servers *)

Reachable(p) == tunnel /\ (p = "llama_cpp" => llama # "stopped")
Healthy(p) == Reachable(p) /\ p \notin sick

(* How a request to a server may fail.  Without a listener it is offline;   *)
(* a sick server may do anything, and a connection that it resets is an     *)
(* OSError, which the adapters call offline too.                            *)
Fails(p, error) ==
    \/ error = "offline" /\ (~Reachable(p) \/ p \in sick)
    \/ error \in {"transient", "other"} /\ Reachable(p) /\ p \in sick

OllamaResident == ollama
AdvancedResident == llama = "loaded"

-----------------------------------------------------------------------------
Init ==
    /\ call = [t \in Threads |-> [phase |-> "idle", model |-> Advanced, attempt |-> 0]]
    /\ holder = NoThread
    /\ circuit = [m \in Models |-> NewCircuit]
    /\ tunnel = TRUE
    /\ sick = {}
    /\ ollama = FALSE
    /\ llama \in {"asleep", "stopped"}
    /\ past = [cut |-> 0, ollama |-> 0, llama_cpp |-> 0]
    /\ exposed = FALSE

Goto(t, phase) == call' = [call EXCEPT ![t].phase = phase]
Leave(t) ==
    /\ call' = [call EXCEPT ![t].phase = "idle", ![t].attempt = 0]
    /\ holder' = NoThread

(* generate and embed, once the request is valid.                           *)
Ask(t, m) ==
    /\ call[t].phase = "idle"
    /\ call' = [call EXCEPT ![t] = [phase |-> "waiting", model |-> m, attempt |-> 0]]
    /\ UNCHANGED <<holder, circuit, world>>

(* InferenceGuard: wait for the one slot, for a tenth of a second.          *)
Enter(t) ==
    /\ call[t].phase = "waiting"
    /\ holder = NoThread
    /\ holder' = t
    /\ call' = [call EXCEPT ![t].phase = "admitting", ![t].attempt = 1]
    /\ UNCHANGED <<circuit, world>>

Busy(t) ==
    /\ call[t].phase = "waiting"
    /\ holder # NoThread
    /\ Goto(t, "idle")
    /\ UNCHANGED <<holder, circuit, world>>

(* before_call, also before a retry: a refusal there is outside the try.    *)
Admit(t) ==
    LET m == Model(t) IN
    /\ call[t].phase = "admitting"
    /\ IF Refusing(m)
       THEN Leave(t) /\ UNCHANGED circuit
       ELSE /\ circuit' = [circuit EXCEPT ![m] = Admitted(m)]
            /\ Goto(t, "preparing")
            /\ UNCHANGED holder
    /\ UNCHANGED world

(* The end of an attempt.                                                   *)
Retry == "admitting"
Succeed(t) ==
    /\ circuit' = [circuit EXCEPT ![Model(t)] = AfterSuccess(Model(t))]
    /\ Leave(t)
AttemptsLeft_Inclusive(t) == call[t].attempt <= MaxAttempts
AttemptsLeft(t) == call[t].attempt < MaxAttempts
FailTransiently(t) ==
    /\ circuit' = [circuit EXCEPT ![Model(t)] = AfterTransient(Model(t))]
    /\ IF AttemptsLeft(t)
       THEN Goto(t, "pausing") /\ UNCHANGED holder
       ELSE Leave(t)
Refuse(t) ==
    /\ circuit' = [circuit EXCEPT ![Model(t)] = AfterOther(Model(t))]
    /\ Leave(t)
Fail(t, error) == IF error = "other" THEN Refuse(t) ELSE FailTransiently(t)

NextAttempt_Same(t) == call[t].attempt
NextAttempt(t) == call[t].attempt + 1
Pause(t) ==
    /\ call[t].phase = "pausing"
    /\ call' = [call EXCEPT ![t].phase = Retry, ![t].attempt = NextAttempt(t)]
    /\ UNCHANGED <<holder, circuit, world>>

(* ResidencyCoordinator.prepare for the advanced model: Ollama must be      *)
(* empty; its failures are failures of the attempt.                         *)
PrepareAdvanced(t) ==
    /\ call[t].phase = "preparing"
    /\ Model(t) = Advanced
    /\ \/ Healthy("ollama") /\ OllamaResident /\ Refuse(t)
       \/ /\ Healthy("ollama") /\ ~OllamaResident
          /\ Goto(t, "waking")
          /\ UNCHANGED <<holder, circuit>>
       \/ \E error \in {"offline", "transient", "other"} :
            Fails("ollama", error) /\ Fail(t, error)
    /\ UNCHANGED world

(* ensure_awake only reads the properties of the server.                    *)
Wake(t) ==
    /\ call[t].phase = "waking"
    /\ \/ Healthy("llama_cpp") /\ Goto(t, "verifying") /\ UNCHANGED <<holder, circuit>>
       \/ \E error \in {"offline", "transient", "other"} :
            Fails("llama_cpp", error) /\ Fail(t, error)
    /\ UNCHANGED world

(* ... and for a core model: llama.cpp must say that it sleeps.  A server   *)
(* that is offline is taken for stopped, also behind a cut tunnel or a      *)
(* reset connection; every other failure refuses this request only.  The    *)
(* poll ends when the server sleeps or the deadline passes.                 *)
SleepUnknown_Counted(t) == FailTransiently(t)
SleepUnknown(t) == Refuse(t)
Confirmed_Anyway == TRUE
Confirmed == ~AdvancedResident
PrepareCore(t) ==
    /\ call[t].phase = "preparing"
    /\ Model(t) # Advanced
    /\ \/ /\ \/ Healthy("llama_cpp") /\ Confirmed /\ UNCHANGED exposed
             \/ Fails("llama_cpp", "offline") /\ exposed' = (exposed \/ AdvancedResident)
          /\ Goto(t, "verifying")
          /\ UNCHANGED <<holder, circuit>>
       \/ Healthy("llama_cpp") /\ ~Confirmed /\ Refuse(t) /\ UNCHANGED exposed
       \/ \E error \in {"transient", "other"} :
            Fails("llama_cpp", error) /\ SleepUnknown(t) /\ UNCHANGED exposed
    /\ UNCHANGED servers

(* _verify_identity reads the inventory; a missing or different artifact is *)
(* refused like every other contract failure.                               *)
Verify(t) ==
    LET p == Provider(Model(t)) IN
    /\ call[t].phase = "verifying"
    /\ \/ Healthy(p) /\ Goto(t, "dispatching") /\ UNCHANGED <<holder, circuit>>
       \/ Reachable(p) /\ Refuse(t)
       \/ \E error \in {"offline", "transient", "other"} : Fails(p, error) /\ Fail(t, error)
    /\ UNCHANGED world

(* The request that makes the server load the model.                        *)
Dispatch(t) ==
    LET p == Provider(Model(t)) IN
    /\ call[t].phase = "dispatching"
    /\ \/ /\ Reachable(p)
          /\ IF p = "ollama" THEN ollama' = TRUE /\ UNCHANGED llama
             ELSE llama' = "loaded" /\ UNCHANGED ollama
          /\ Goto(t, "calling")
          /\ UNCHANGED <<holder, circuit>>
       \/ Fails(p, "offline") /\ FailTransiently(t) /\ UNCHANGED <<ollama, llama>>
    /\ UNCHANGED <<tunnel, sick, past, exposed>>

(* The answer, its absence (the server goes on), or its rejection.          *)
Finish(t) ==
    LET p == Provider(Model(t)) IN
    /\ call[t].phase = "calling"
    /\ \/ Healthy(p) /\ Succeed(t)
       \/ \E error \in {"offline", "transient", "other"} : Fails(p, error) /\ Fail(t, error)
    /\ UNCHANGED world

(* circuit_cooldown_seconds have passed since the circuit opened.           *)
Cool(m) ==
    /\ circuit[m].state = "open"
    /\ ~circuit[m].cooled
    /\ circuit' = [circuit EXCEPT ![m].cooled = TRUE]
    /\ UNCHANGED <<call, holder, world>>

-----------------------------------------------------------------------------
(* The environment *)

Serving(p) == \E t \in Threads : call[t].phase = "calling" /\ Provider(Model(t)) = p

OllamaUnload ==
    /\ ollama
    /\ ~Serving("ollama")
    /\ ollama' = FALSE
    /\ UNCHANGED <<gateway, tunnel, sick, llama, past, exposed>>

LlamaSleep ==
    /\ llama = "loaded"
    /\ ~Serving("llama_cpp")
    /\ llama' = "asleep"
    /\ exposed' = FALSE
    /\ UNCHANGED <<gateway, tunnel, sick, ollama, past>>

FaultsLeft == past.cut + past.ollama + past.llama_cpp < MaxFaults

LlamaStop ==
    /\ FaultsLeft
    /\ llama # "stopped"
    /\ llama' = "stopped"
    /\ exposed' = FALSE
    /\ past' = [past EXCEPT !.llama_cpp = @ + 1]
    /\ UNCHANGED <<gateway, tunnel, sick, ollama>>

(* A core model is in memory, or a caller is past the check that asked      *)
(* llama.cpp and will make Ollama load one.                                 *)
CoreUnderWay ==
    \/ OllamaResident
    \/ \E t \in Threads :
          Model(t) # Advanced /\ call[t].phase \in {"verifying", "dispatching", "calling"}

(* The launcher asks whether the port is taken or a llama-server runs, and  *)
(* the hashes of what it starts; the new server loads its model at once.    *)
LlamaStart ==
    /\ llama = "stopped"
    /\ llama' = "loaded"
    /\ exposed' = (exposed \/ CoreUnderWay)
    /\ UNCHANGED <<gateway, tunnel, sick, ollama, past>>

TunnelCut ==
    /\ FaultsLeft
    /\ tunnel
    /\ tunnel' = FALSE
    /\ past' = [past EXCEPT !.cut = @ + 1]
    /\ UNCHANGED <<gateway, sick, ollama, llama, exposed>>

TunnelBack ==
    /\ ~tunnel
    /\ tunnel' = TRUE
    /\ UNCHANGED <<gateway, sick, ollama, llama, past, exposed>>

Sicken(p) ==
    /\ FaultsLeft
    /\ p \notin sick
    /\ sick' = sick \cup {p}
    /\ past' = [past EXCEPT ![p] = @ + 1]
    /\ UNCHANGED <<gateway, tunnel, ollama, llama, exposed>>

Recover(p) ==
    /\ p \in sick
    /\ sick' = sick \ {p}
    /\ UNCHANGED <<gateway, tunnel, ollama, llama, past, exposed>>

-----------------------------------------------------------------------------
Attempt(t) ==
    \/ PrepareAdvanced(t) \/ Wake(t) \/ PrepareCore(t)
    \/ Verify(t) \/ Dispatch(t) \/ Finish(t)

Run(t) == Enter(t) \/ Busy(t) \/ Admit(t) \/ Pause(t) \/ Attempt(t)

Environment ==
    \/ OllamaUnload \/ LlamaSleep \/ LlamaStop \/ LlamaStart
    \/ TunnelCut \/ TunnelBack
    \/ \E p \in Providers : Sicken(p) \/ Recover(p)

Next ==
    \/ \E t \in Threads : Run(t) \/ \E m \in Models : Ask(t, m)
    \/ \E m \in Models : Cool(m)
    \/ Environment

Spec == Init /\ [][Next]_vars

(* A caller in the gateway goes on: each of its waits has a timeout.  Time  *)
(* passes for an open circuit.                                              *)
Fairness ==
    /\ \A t \in Threads : WF_vars(Run(t))
    /\ \A m \in Models : WF_vars(Cool(m))

FairSpec == Spec /\ Fairness
-----------------------------------------------------------------------------
TypeOK ==
    /\ call \in [Threads -> [phase : Phase, model : Models, attempt : 0..MaxAttempts]]
    /\ holder \in Threads \cup {NoThread}
    /\ circuit \in [Models -> [state : CircuitState, failures : 0..Threshold,
                               cooled : BOOLEAN, probe : BOOLEAN]]
    /\ tunnel \in BOOLEAN
    /\ sick \subseteq Providers
    /\ ollama \in BOOLEAN
    /\ llama \in {"loaded", "asleep", "stopped"}
    /\ past \in [{"cut", "ollama", "llama_cpp"} -> Nat]
    /\ exposed \in BOOLEAN

(* Whoever makes an attempt holds the guard, and the guard is held by       *)
(* somebody who is inside.                                                  *)
GuardHeld ==
    \A t \in Threads :
        holder = t <=> call[t].phase \in Phase \ {"idle", "waiting"}

(* Behind an open circuit nothing is attempted; a half-open one has exactly *)
(* one probe, and its caller is still inside: no probe is ever lost, so the *)
(* circuit gets a verdict however the attempt ends.                         *)
CircuitGuardsCalls ==
    \A m \in Models :
        LET attempts == {t \in Threads : Model(t) = m /\ InAttempt(t)} IN
        /\ circuit[m].state = "open" => attempts = {}
        /\ circuit[m].probe <=> circuit[m].state = "half_open"
        /\ circuit[m].probe => attempts # {}

(* The failures of the advanced model never count against a core model.     *)
CoreCircuitIsolated ==
    past.cut = 0 /\ past.ollama = 0 =>
        \A m \in CoreModels : circuit[m] = NewCircuit

(* The two servers never have a model in memory at the same time, although  *)
(* each is asked before the other one is used and work whose caller timed   *)
(* out goes on: unless the launcher started this llama.cpp beside core work *)
(* or after its check, or a check took it, loaded, for a stopped one        *)
(* (ResidencyCoordinator.prepare in resilience.py).                         *)
BothResident == OllamaResident /\ AdvancedResident
OneHeavyUnlessExposed == ~exposed => ~BothResident

(* What docs/adr/0009-llama-cpp-advanced-provider.md says: one heavy model  *)
(* is resident at a time.  The launcher does not keep it.                   *)
OneHeavyResident == ~BothResident

(* A call is answered or refused: no path keeps the guard.                  *)
CallEnds ==
    \A t \in Threads : call[t].phase # "idle" ~> call[t].phase = "idle"

(* When everything works again and a model goes on being asked for, its     *)
(* circuit closes for good.                                                 *)
Working == tunnel /\ sick = {} /\ llama # "stopped"
CircuitRecovers ==
    \A m \in Models :
        /\ <>[]Working
        /\ []<>(\E t \in Threads : call[t].phase = "admitting" /\ Model(t) = m)
        => <>[](circuit[m].state = "closed")
=============================================================================
