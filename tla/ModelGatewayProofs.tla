------------------------- MODULE ModelGatewayProofs -------------------------
(***************************************************************************)
(* Safety of the model gateway for every number of callers, core models    *)
(* and attempts, every threshold of the circuits and every number of       *)
(* faults.                                                                 *)
(***************************************************************************)
EXTENDS ModelGateway, TLAPS

(* A caller that pauses has an attempt left, and only llama.cpp is woken.   *)
CallsAgree ==
    \A t \in Threads :
        /\ call[t].phase = "pausing" => call[t].attempt < MaxAttempts
        /\ call[t].phase = "waking" => call[t].model = Advanced

(* The faults that were counted are the only ones there were.               *)
FaultsCounted ==
    /\ past.cut = 0 => tunnel
    /\ past.ollama = 0 => "ollama" \notin sick

(* What a caller asked of the other server is still so, since nobody else   *)
(* in the guard may make one load a model in between: Ollama stays empty,   *)
(* and llama.cpp is not loaded unless it is exposed.                        *)
Using == {"verifying", "dispatching", "calling"}
Asked(t) ==
    /\ Model(t) # Advanced /\ call[t].phase \in Using => exposed \/ llama # "loaded"
    /\ Model(t) = Advanced /\ call[t].phase \in Using \cup {"waking"} => ollama = FALSE

GatewayInv ==
    /\ TypeOK
    /\ GuardHeld
    /\ CallsAgree
    /\ FaultsCounted
    /\ CircuitGuardsCalls
    /\ CoreCircuitIsolated
    /\ \A t \in Threads : Asked(t)
    /\ OneHeavyUnlessExposed

Inside == Phase \ {"idle", "waiting"}

-----------------------------------------------------------------------------
(* The guard lets one caller inside, so the attempts of a model are those   *)
(* of one caller at most.                                                   *)
LEMMA Alone ==
  ASSUME GatewayInv, NEW t \in Threads, call[t].phase \in Inside,
         NEW x \in Threads, call[x].phase \in Inside
  PROVE  x = t /\ holder = t
  BY DEF GatewayInv, GuardHeld, Inside

LEMMA CircuitsOf ==
  ASSUME NEW m \in Models, CircuitGuardsCalls
  PROVE  /\ circuit[m].state = "open" => \A t \in Threads : ~(Model(t) = m /\ InAttempt(t))
         /\ circuit[m].probe <=> circuit[m].state = "half_open"
         /\ circuit[m].probe => \E t \in Threads : Model(t) = m /\ InAttempt(t)
  BY DEF CircuitGuardsCalls

LEMMA CircuitsFrom ==
  ASSUME \A m \in Models :
           /\ circuit'[m].state = "open" =>
                \A t \in Threads : ~(call'[t].model = m /\ call'[t].phase \in Attempting)
           /\ circuit'[m].probe <=> circuit'[m].state = "half_open"
           /\ circuit'[m].probe =>
                \E t \in Threads : call'[t].model = m /\ call'[t].phase \in Attempting
  PROVE  CircuitGuardsCalls'
  BY DEF CircuitGuardsCalls, Model, InAttempt

CallRecord == [phase : Phase, model : Models, attempt : 0..MaxAttempts]
Circuit == [state : CircuitState, failures : 0..Threshold, cooled : BOOLEAN, probe : BOOLEAN]

(* An attempt goes on to its next step.                                     *)
LEMMA Onward ==
  ASSUME GatewayInv, NEW t \in Threads, InAttempt(t),
         NEW phase \in Using \cup {"waking"}, Goto(t, phase),
         UNCHANGED <<holder, circuit, tunnel, sick, past>>,
         ollama' \in BOOLEAN, llama' \in {"loaded", "asleep", "stopped"},
         exposed' \in BOOLEAN, phase = "waking" => Model(t) = Advanced,
         Asked(t)', OneHeavyUnlessExposed'
  PROVE  GatewayInv'
<1>1. call[t] \in CallRecord /\ call \in [Threads -> CallRecord]
  BY DEF GatewayInv, TypeOK, CallRecord
<1>2. /\ call'[t].phase = phase /\ call'[t].model = call[t].model
      /\ call'[t].attempt = call[t].attempt
      /\ \A x \in Threads \ {t} : call'[x] = call[x]
  BY <1>1 DEF Goto, CallRecord
<1>3. phase \in Attempting /\ phase \in Inside /\ phase \in Phase /\ phase # "pausing"
  BY DEF Using, Attempting, Phase, Inside
<1>4. call[t].phase \in Inside /\ call[t].phase \in Attempting
  BY DEF InAttempt, Attempting, Inside, Phase
<1>5. call' \in [Threads -> CallRecord]
  BY <1>1, <1>3 DEF Goto, CallRecord
<1>6. TypeOK'
  BY <1>5 DEF GatewayInv, TypeOK, CallRecord
<1>7. GuardHeld'
  BY <1>2, <1>3, <1>4, Alone DEF GatewayInv, GuardHeld, Inside
<1>8. CallsAgree' /\ FaultsCounted' /\ CoreCircuitIsolated'
  BY <1>2, <1>3 DEF GatewayInv, CallsAgree, FaultsCounted, CoreCircuitIsolated, Model
<1>9. CircuitGuardsCalls'
  <2> SUFFICES ASSUME NEW m \in Models
               PROVE  /\ circuit'[m].state = "open" =>
                           \A x \in Threads : ~(call'[x].model = m /\ call'[x].phase \in Attempting)
                      /\ circuit'[m].probe <=> circuit'[m].state = "half_open"
                      /\ circuit'[m].probe =>
                           \E x \in Threads : call'[x].model = m /\ call'[x].phase \in Attempting
    BY CircuitsFrom
  <2>1. \A x \in Threads : call'[x].model = call[x].model /\
          (call'[x].phase \in Attempting <=> call[x].phase \in Attempting)
    BY <1>2, <1>3, <1>4
  <2> QED
    BY <2>1, CircuitsOf DEF GatewayInv, Model, InAttempt
<1>10. ASSUME NEW x \in Threads PROVE Asked(x)'
  <2>1. CASE x = t
    BY <2>1
  <2>2. CASE x # t
    <3>1. call'[x].phase \notin Using \cup {"waking"}
      BY <1>2, <1>4, <2>2, Alone DEF Using, Inside, Phase, Attempting
    <3> QED
      BY <3>1 DEF Asked
  <2> QED
    BY <2>1, <2>2
<1> QED
  BY <1>6, <1>7, <1>8, <1>9, <1>10 DEF GatewayInv

(* An attempt ends: its circuit gets a verdict and its caller leaves or     *)
(* pauses.  Only a reachable fault counts against a core model.             *)
LEMMA EndOfAttempt ==
  ASSUME GatewayInv, NEW t \in Threads, InAttempt(t),
         UNCHANGED world,
         \/ Succeed(t) \/ Refuse(t)
         \/ /\ FailTransiently(t)
            /\ Model(t) # Advanced => past.cut # 0 \/ past.ollama # 0
  PROVE  GatewayInv'
<1> DEFINE m == Model(t)
<1>1. /\ call[t] \in CallRecord /\ call \in [Threads -> CallRecord]
      /\ m \in Models /\ circuit[m] \in Circuit /\ circuit \in [Models -> Circuit]
  BY DEF GatewayInv, TypeOK, CallRecord, Circuit, Model
<1>2. call[t].phase \in Inside /\ call[t].phase \in Attempting
  BY DEF InAttempt, Attempting, Inside, Phase
<1>3. holder = t /\ \A x \in Threads \ {t} : call[x].phase \notin Inside
  BY <1>2, Alone
<1>4. PICK c \in Circuit :
        /\ circuit' = [circuit EXCEPT ![m] = c]
        /\ c.probe = FALSE /\ c.state # "half_open"
        /\ \/ c = NewCircuit \/ c = circuit[m]
           \/ m # Advanced => past.cut # 0 \/ past.ollama # 0
  <2>1. circuit[m].probe \in BOOLEAN /\ (circuit[m].probe <=> circuit[m].state = "half_open")
    BY <1>1, CircuitsOf DEF GatewayInv, Circuit
  <2>2. NewCircuit \in Circuit /\ NewCircuit.probe = FALSE /\ NewCircuit.state = "closed"
    BY GatewayConstants DEF NewCircuit, Circuit, CircuitState
  <2>3. Opened \in Circuit /\ Opened.probe = FALSE /\ Opened.state = "open"
    BY GatewayConstants DEF Opened, Circuit, CircuitState
  <2>4. CASE Succeed(t)
    BY <2>2, <2>4 DEF Succeed, AfterSuccess
  <2>5. CASE Refuse(t)
    BY <1>1, <2>1, <2>2, <2>5 DEF Refuse, AfterOther
  <2>6. CASE /\ FailTransiently(t)
             /\ Model(t) # Advanced => past.cut # 0 \/ past.ollama # 0
    <3>1. CASE circuit[m].state = "half_open" \/ circuit[m].failures + 1 >= Threshold
      BY <2>3, <2>6, <3>1 DEF FailTransiently, AfterTransient
    <3>2. CASE ~(circuit[m].state = "half_open" \/ circuit[m].failures + 1 >= Threshold)
      <4> DEFINE d == [circuit[m] EXCEPT !.failures = @ + 1]
      <4>1. d \in Circuit /\ d.probe = circuit[m].probe /\ d.state = circuit[m].state
        BY <1>1, <3>2, GatewayConstants DEF Circuit
      <4> QED
        BY <2>1, <2>6, <3>2, <4>1 DEF FailTransiently, AfterTransient
    <3> QED
      BY <3>1, <3>2
  <2> QED
    BY <2>4, <2>5, <2>6
<1>5. PICK p \in {"idle", "pausing"} :
        /\ call'[t].phase = p /\ call'[t].model = m
        /\ call' \in [Threads -> CallRecord]
        /\ p = "pausing" => holder' = t /\ call'[t].attempt < MaxAttempts
        /\ p = "idle" => holder' = NoThread
        /\ \A x \in Threads \ {t} : call'[x] = call[x]
  <2>1. CASE Leave(t)
    <3>1. 0 \in 0..MaxAttempts /\ "idle" \in Phase
      BY GatewayConstants DEF Phase
    <3>2. call' \in [Threads -> CallRecord]
      BY <1>1, <2>1, <3>1 DEF Leave, CallRecord
    <3>3. /\ call'[t].phase = "idle" /\ call'[t].model = m /\ holder' = NoThread
          /\ \A x \in Threads \ {t} : call'[x] = call[x]
      BY <1>1, <2>1 DEF Leave, CallRecord, Model
    <3> QED
      BY <3>2, <3>3
  <2>2. CASE AttemptsLeft(t) /\ Goto(t, "pausing") /\ UNCHANGED holder
    BY <1>1, <1>3, <2>2 DEF AttemptsLeft, Goto, CallRecord, Phase, Model
  <2> QED
    BY <2>1, <2>2 DEF Succeed, Refuse, FailTransiently
<1> HIDE DEF m
<1>6. TypeOK'
  <2>1. circuit' \in [Models -> Circuit]
    BY <1>1, <1>4
  <2>2. holder' \in Threads \cup {NoThread}
    BY <1>5
  <2> QED
    BY <1>5, <2>1, <2>2 DEF GatewayInv, TypeOK, world, servers, Circuit, CallRecord
<1>7. \A x \in Threads : call'[x].phase \notin Attempting
  BY <1>3, <1>5 DEF Inside, Attempting, Phase
<1>8. GuardHeld' /\ CallsAgree' /\ FaultsCounted'
  <2>1. GuardHeld'
    BY <1>3, <1>5, GatewayConstants DEF GuardHeld, Inside, Phase
  <2>2. CallsAgree'
    BY <1>5 DEF GatewayInv, CallsAgree
  <2> QED
    BY <2>1, <2>2 DEF GatewayInv, FaultsCounted, world, servers
<1>9. CircuitGuardsCalls'
  <2> SUFFICES ASSUME NEW n \in Models
               PROVE  circuit'[n].probe = FALSE /\ circuit'[n].state # "half_open"
    BY <1>7, CircuitsFrom
  <2>1. CASE n = m
    BY <1>1, <1>4, <2>1
  <2>2. CASE n # m
    <3>1. circuit'[n] = circuit[n] /\ circuit[n].probe \in BOOLEAN
      BY <1>1, <1>4, <2>2 DEF Circuit
    <3>2. ~circuit[n].probe
      BY <1>3, <2>2, CircuitsOf DEF GatewayInv, InAttempt, Inside, Attempting, Phase, m
    <3>3. circuit[n].state # "half_open"
      BY <3>2, CircuitsOf DEF GatewayInv
    <3> QED
      BY <3>1, <3>2, <3>3
  <2> QED
    BY <2>1, <2>2
<1>10. CoreCircuitIsolated'
  <2> SUFFICES ASSUME past'.cut = 0, past'.ollama = 0, NEW n \in CoreModels
               PROVE  circuit'[n] = NewCircuit
    BY DEF CoreCircuitIsolated
  <2>1. circuit[n] = NewCircuit /\ n # Advanced /\ past' = past
    BY GatewayConstants DEF GatewayInv, CoreCircuitIsolated, world, servers
  <2>2. CASE n = m
    BY <1>1, <1>4, <2>1, <2>2 DEF m
  <2>3. CASE n # m
    BY <1>1, <1>4, <2>1, <2>3 DEF Models
  <2> QED
    BY <2>2, <2>3
<1>11. \A x \in Threads : Asked(x)'
  BY <1>7 DEF Asked, Using, Attempting
<1>12. OneHeavyUnlessExposed'
  BY DEF GatewayInv, OneHeavyUnlessExposed, BothResident, OllamaResident, AdvancedResident,
         world, servers
<1> QED
  BY <1>6, <1>8, <1>9, <1>10, <1>11, <1>12 DEF GatewayInv

-----------------------------------------------------------------------------
(* The steps of an attempt                                                  *)

(* While nothing was cut and Ollama had no fault, its calls do not fail.    *)
LEMMA OllamaFaulty ==
  ASSUME GatewayInv, NEW error, Fails("ollama", error)
  PROVE  past.cut # 0 \/ past.ollama # 0
  BY DEF GatewayInv, FaultsCounted, Fails, Reachable

LEMMA FailStep ==
  ASSUME GatewayInv, NEW t \in Threads, InAttempt(t), NEW p \in Providers, NEW error,
         Fails(p, error), Fail(t, error), UNCHANGED world,
         Model(t) # Advanced => p = "ollama"
  PROVE  GatewayInv'
  BY OllamaFaulty, EndOfAttempt DEF Fail

LEMMA PrepareAdvancedStep ==
  ASSUME GatewayInv, NEW t \in Threads, PrepareAdvanced(t)
  PROVE  GatewayInv'
<1>1. InAttempt(t) /\ Model(t) = Advanced /\ UNCHANGED world
  BY DEF PrepareAdvanced, InAttempt, Attempting
<1>2. CASE Refuse(t)
  BY <1>1, <1>2, EndOfAttempt
<1>3. CASE /\ ~OllamaResident /\ Goto(t, "waking")
           /\ UNCHANGED <<holder, circuit>>
  <2>1. ollama = FALSE
    BY <1>3 DEF OllamaResident, GatewayInv, TypeOK
  <2>2. Asked(t)'
    BY <1>1, <1>3, <2>1 DEF Asked, Goto, Using, Model, world, servers, GatewayInv, TypeOK
  <2>3. OneHeavyUnlessExposed'
    BY <1>1 DEF GatewayInv, OneHeavyUnlessExposed, BothResident, OllamaResident,
                AdvancedResident, world, servers
  <2> QED
    BY <1>1, <1>3, <2>2, <2>3, Onward DEF world, servers, GatewayInv, TypeOK
<1>4. ASSUME NEW error \in {"offline", "transient", "other"},
             Fails("ollama", error), Fail(t, error)
      PROVE  GatewayInv'
  BY <1>1, <1>4, FailStep DEF Providers
<1> QED
  BY <1>2, <1>3, <1>4 DEF PrepareAdvanced

(* A step that changes nothing outside and keeps what was asked.            *)
LEMMA QuietOnward ==
  ASSUME GatewayInv, NEW t \in Threads, InAttempt(t),
         NEW phase \in Using \cup {"waking"}, Goto(t, phase),
         UNCHANGED <<holder, circuit, world>>,
         phase = "waking" => Model(t) = Advanced,
         Model(t) # Advanced => exposed \/ llama # "loaded",
         Model(t) = Advanced => ollama = FALSE
  PROVE  GatewayInv'
<1>1. Model(t)' = Model(t)
  BY DEF Goto, Model, GatewayInv, TypeOK
<1>2. Asked(t)'
  BY <1>1 DEF Asked, world, servers
<1>3. OneHeavyUnlessExposed'
  BY DEF GatewayInv, OneHeavyUnlessExposed, BothResident, OllamaResident,
         AdvancedResident, world, servers
<1> QED
  BY <1>2, <1>3, Onward DEF world, servers, GatewayInv, TypeOK

LEMMA WakeStep ==
  ASSUME GatewayInv, NEW t \in Threads, Wake(t)
  PROVE  GatewayInv'
<1>1. /\ InAttempt(t) /\ UNCHANGED world /\ call[t].phase = "waking"
      /\ Model(t) = Advanced
  BY DEF Wake, InAttempt, Attempting, GatewayInv, CallsAgree, Model
<1>2. CASE Goto(t, "verifying") /\ UNCHANGED <<holder, circuit>>
  <2>1. ollama = FALSE
    BY <1>1 DEF GatewayInv, Asked
  <2> QED
    BY <1>1, <1>2, <2>1, QuietOnward DEF Using
<1>3. ASSUME NEW error \in {"offline", "transient", "other"},
             Fails("llama_cpp", error), Fail(t, error)
      PROVE  GatewayInv'
  BY <1>1, <1>3, FailStep DEF Providers
<1> QED
  BY <1>2, <1>3 DEF Wake

LEMMA PrepareCoreStep ==
  ASSUME GatewayInv, NEW t \in Threads, PrepareCore(t)
  PROVE  GatewayInv'
<1>1. InAttempt(t) /\ Model(t) # Advanced /\ UNCHANGED servers
  BY DEF PrepareCore, InAttempt, Attempting
<1>2. CASE /\ Goto(t, "verifying") /\ UNCHANGED <<holder, circuit>>
           /\ \/ Confirmed /\ UNCHANGED exposed
              \/ exposed' = (exposed \/ AdvancedResident)
  <2>1. exposed' \/ llama # "loaded"
    BY <1>2 DEF Confirmed, AdvancedResident
  <2>2. Model(t)' = Model(t)
    BY <1>2 DEF Goto, Model, GatewayInv, TypeOK
  <2>3. Asked(t)'
    BY <1>1, <2>1, <2>2 DEF Asked, servers
  <2>4. OneHeavyUnlessExposed'
    BY <1>1, <2>1 DEF OneHeavyUnlessExposed, BothResident, OllamaResident, AdvancedResident,
                      servers
  <2>5. exposed' \in BOOLEAN
    BY <1>2 DEF GatewayInv, TypeOK, AdvancedResident
  <2> QED
    BY <1>1, <1>2, <2>3, <2>4, <2>5, Onward DEF Using, servers, GatewayInv, TypeOK
<1>3. CASE Refuse(t) /\ UNCHANGED exposed
  BY <1>1, <1>3, EndOfAttempt DEF world, servers
<1> QED
  BY <1>2, <1>3 DEF PrepareCore, SleepUnknown

LEMMA VerifyStep ==
  ASSUME GatewayInv, NEW t \in Threads, Verify(t)
  PROVE  GatewayInv'
<1> DEFINE p == Provider(Model(t))
<1>1. /\ InAttempt(t) /\ UNCHANGED world /\ call[t].phase = "verifying"
      /\ p \in Providers /\ (Model(t) # Advanced => p = "ollama")
  BY DEF Verify, InAttempt, Attempting, Provider, Providers
<1>2. CASE Goto(t, "dispatching") /\ UNCHANGED <<holder, circuit>>
  <2>1. /\ Model(t) # Advanced => exposed \/ llama # "loaded"
        /\ Model(t) = Advanced => ollama = FALSE
    BY <1>1 DEF GatewayInv, Asked, Using
  <2> QED
    BY <1>1, <1>2, <2>1, QuietOnward DEF Using
<1>3. CASE Refuse(t)
  BY <1>1, <1>3, EndOfAttempt
<1>4. ASSUME NEW error \in {"offline", "transient", "other"}, Fails(p, error), Fail(t, error)
      PROVE  GatewayInv'
  BY <1>1, <1>4, FailStep
<1> QED
  BY <1>2, <1>3, <1>4 DEF Verify

(* The only step of a caller that makes a server load a model.              *)
LEMMA DispatchStep ==
  ASSUME GatewayInv, NEW t \in Threads, Dispatch(t)
  PROVE  GatewayInv'
<1> DEFINE p == Provider(Model(t))
<1>1. /\ InAttempt(t) /\ UNCHANGED <<tunnel, sick, past, exposed>>
      /\ call[t].phase = "dispatching"
      /\ p \in Providers /\ (Model(t) # Advanced <=> p = "ollama")
  BY DEF Dispatch, InAttempt, Attempting, Provider, Providers
<1>2. CASE /\ IF p = "ollama" THEN ollama' = TRUE /\ UNCHANGED llama
              ELSE llama' = "loaded" /\ UNCHANGED ollama
           /\ Goto(t, "calling")
           /\ UNCHANGED <<holder, circuit>>
  <2>1. /\ Model(t) # Advanced => exposed \/ llama # "loaded"
        /\ Model(t) = Advanced => ollama = FALSE
    BY <1>1 DEF GatewayInv, Asked, Using
  <2>2. Model(t)' = Model(t)
    BY <1>2 DEF Goto, Model, GatewayInv, TypeOK
  <2>3. Asked(t)' /\ OneHeavyUnlessExposed'
    BY <1>1, <1>2, <2>1, <2>2
       DEF Asked, OneHeavyUnlessExposed, BothResident, OllamaResident, AdvancedResident
  <2>4. ollama' \in BOOLEAN /\ llama' \in {"loaded", "asleep", "stopped"} /\ exposed' \in BOOLEAN
    BY <1>1, <1>2 DEF GatewayInv, TypeOK
  <2> QED
    BY <1>1, <1>2, <2>3, <2>4, Onward DEF Using
<1>3. CASE Fails(p, "offline") /\ FailTransiently(t) /\ UNCHANGED <<ollama, llama>>
  BY <1>1, <1>3, OllamaFaulty, EndOfAttempt DEF world, servers
<1> QED
  BY <1>2, <1>3 DEF Dispatch

LEMMA FinishStep ==
  ASSUME GatewayInv, NEW t \in Threads, Finish(t)
  PROVE  GatewayInv'
<1> DEFINE p == Provider(Model(t))
<1>1. /\ InAttempt(t) /\ UNCHANGED world
      /\ p \in Providers /\ (Model(t) # Advanced => p = "ollama")
  BY DEF Finish, InAttempt, Attempting, Provider, Providers
<1>2. CASE Succeed(t)
  BY <1>1, <1>2, EndOfAttempt
<1>3. ASSUME NEW error \in {"offline", "transient", "other"}, Fails(p, error), Fail(t, error)
      PROVE  GatewayInv'
  BY <1>1, <1>3, FailStep
<1> QED
  BY <1>2, <1>3 DEF Finish

-----------------------------------------------------------------------------
(* The steps around an attempt                                              *)

(* A caller that is in no attempt goes where it makes none.                 *)
LEMMA OutsideStep ==
  ASSUME GatewayInv, NEW t \in Threads, ~InAttempt(t),
         NEW c \in CallRecord, call' = [call EXCEPT ![t] = c], c.phase \notin Attempting,
         c.phase = "pausing" => c.attempt < MaxAttempts,
         holder' \in Threads \cup {NoThread},
         holder' = t <=> c.phase \in Inside,
         \A x \in Threads \ {t} : holder' = x <=> holder = x,
         UNCHANGED <<circuit, world>>
  PROVE  GatewayInv'
<1>1. call \in [Threads -> CallRecord]
  BY DEF GatewayInv, TypeOK, CallRecord
<1>2. call'[t] = c /\ \A x \in Threads \ {t} : call'[x] = call[x]
  BY <1>1
<1>3. TypeOK'
  BY <1>1 DEF GatewayInv, TypeOK, CallRecord, world, servers
<1>4. GuardHeld'
  BY <1>2 DEF GatewayInv, GuardHeld, Inside
<1>5. CallsAgree' /\ FaultsCounted' /\ CoreCircuitIsolated' /\ OneHeavyUnlessExposed'
  BY <1>2 DEF GatewayInv, CallsAgree, FaultsCounted, CoreCircuitIsolated, world, servers,
              Attempting, OneHeavyUnlessExposed, BothResident, OllamaResident, AdvancedResident
<1>6. CircuitGuardsCalls'
  <2> SUFFICES ASSUME NEW m \in Models
               PROVE  /\ circuit'[m].state = "open" =>
                           \A x \in Threads : ~(call'[x].model = m /\ call'[x].phase \in Attempting)
                      /\ circuit'[m].probe <=> circuit'[m].state = "half_open"
                      /\ circuit'[m].probe =>
                           \E x \in Threads : call'[x].model = m /\ call'[x].phase \in Attempting
    BY CircuitsFrom
  <2>1. \A x \in Threads :
          call'[x].model = m /\ call'[x].phase \in Attempting
            <=> Model(x) = m /\ InAttempt(x)
    BY <1>2 DEF Model, InAttempt
  <2> QED
    BY <2>1, CircuitsOf DEF GatewayInv
<1>7. \A x \in Threads : Asked(x)'
  BY <1>2 DEF GatewayInv, Asked, Model, Using, Attempting, world, servers
<1> QED
  BY <1>3, <1>4, <1>5, <1>6, <1>7 DEF GatewayInv

LEMMA AskStep ==
  ASSUME GatewayInv, NEW t \in Threads, NEW m \in Models, Ask(t, m)
  PROVE  GatewayInv'
<1> DEFINE c == [phase |-> "waiting", model |-> m, attempt |-> 0]
<1>1. c \in CallRecord
  BY GatewayConstants DEF CallRecord, Phase
<1>2. ~InAttempt(t) /\ call[t].phase \notin Inside /\ c.phase \notin Inside \cup Attempting
  BY DEF Ask, InAttempt, Attempting, Inside
<1> QED
  BY <1>1, <1>2, OutsideStep DEF Ask, GatewayInv, GuardHeld, Inside, TypeOK

LEMMA EnterStep ==
  ASSUME GatewayInv, NEW t \in Threads, Enter(t)
  PROVE  GatewayInv'
<1> DEFINE c == [call[t] EXCEPT !.phase = "admitting", !.attempt = 1]
<1>1. call[t] \in CallRecord
  BY DEF GatewayInv, TypeOK, CallRecord
<1>2. c \in CallRecord /\ c.phase = "admitting"
  <2>1. 1 \in 0..MaxAttempts /\ "admitting" \in Phase
    BY GatewayConstants DEF Phase
  <2> QED
    BY <1>1, <2>1 DEF CallRecord
<1>3. ~InAttempt(t) /\ c.phase \in Inside \ Attempting
  BY <1>2 DEF Enter, InAttempt, Attempting, Inside, Phase
<1>4. call' = [call EXCEPT ![t] = c] /\ holder = NoThread /\ holder' = t
  BY DEF Enter
<1> HIDE DEF c
<1>5. \A x \in Threads \ {t} : holder' = x <=> holder = x
  BY <1>4, GatewayConstants
<1> QED
  BY <1>2, <1>3, <1>4, <1>5, OutsideStep DEF Enter

LEMMA BusyStep ==
  ASSUME GatewayInv, NEW t \in Threads, Busy(t)
  PROVE  GatewayInv'
<1> DEFINE c == [call[t] EXCEPT !.phase = "idle"]
<1>1. call[t] \in CallRecord
  BY DEF GatewayInv, TypeOK, CallRecord
<1>2. c \in CallRecord /\ c.phase = "idle"
  BY <1>1 DEF CallRecord, Phase
<1>3. ~InAttempt(t) /\ call[t].phase \notin Inside /\ c.phase \notin Inside \cup Attempting
  BY <1>2 DEF Busy, InAttempt, Attempting, Inside, Phase
<1>4. call' = [call EXCEPT ![t] = c] /\ UNCHANGED <<holder, circuit, world>>
  BY DEF Busy, Goto
<1> HIDE DEF c
<1> QED
  BY <1>2, <1>3, <1>4, OutsideStep DEF GatewayInv, GuardHeld, Inside, TypeOK

LEMMA PauseStep ==
  ASSUME GatewayInv, NEW t \in Threads, Pause(t)
  PROVE  GatewayInv'
<1> DEFINE c == [call[t] EXCEPT !.phase = "admitting", !.attempt = call[t].attempt + 1]
<1>1. call[t] \in CallRecord /\ call[t].attempt < MaxAttempts
  BY DEF GatewayInv, TypeOK, CallRecord, CallsAgree, Pause
<1>2. c \in CallRecord /\ c.phase = "admitting"
  <2>1. call[t].attempt + 1 \in 0..MaxAttempts /\ "admitting" \in Phase
    <3>1. call[t].attempt \in 0..MaxAttempts
      BY <1>1 DEF CallRecord
    <3> QED
      BY <1>1, <3>1, GatewayConstants DEF Phase
  <2> QED
    BY <1>1, <2>1 DEF CallRecord
<1>3. ~InAttempt(t) /\ call[t].phase \in Inside /\ c.phase \in Inside \ Attempting
  BY <1>2 DEF Pause, InAttempt, Attempting, Inside, Phase
<1>4. call' = [call EXCEPT ![t] = c] /\ UNCHANGED <<holder, circuit, world>>
  BY DEF Pause, Retry, NextAttempt
<1> HIDE DEF c
<1> QED
  BY <1>2, <1>3, <1>4, OutsideStep DEF GatewayInv, GuardHeld, Inside, TypeOK

(* The circuit of the model admits the caller, as its probe if it cooled.   *)
LEMMA AdmitStep ==
  ASSUME GatewayInv, NEW t \in Threads, Admit(t)
  PROVE  GatewayInv'
<1> DEFINE m == Model(t)
<1>1. /\ call[t] \in CallRecord /\ call \in [Threads -> CallRecord]
      /\ m \in Models /\ circuit[m] \in Circuit /\ circuit \in [Models -> Circuit]
  BY DEF GatewayInv, TypeOK, CallRecord, Circuit, Model
<1>2. ~InAttempt(t) /\ call[t].phase \in Inside /\ UNCHANGED world
  BY DEF Admit, InAttempt, Attempting, Inside, Phase
<1>3. holder = t /\ \A x \in Threads \ {t} : call[x].phase \notin Inside
  BY <1>2, Alone
<1>4. CASE Leave(t) /\ UNCHANGED circuit
  <2> DEFINE c == [call[t] EXCEPT !.phase = "idle", !.attempt = 0]
  <2>1. c \in CallRecord /\ c.phase = "idle"
    <3>1. 0 \in 0..MaxAttempts /\ "idle" \in Phase
      BY GatewayConstants DEF Phase
    <3> QED
      BY <1>1, <3>1 DEF CallRecord
  <2>2. c.phase \notin Inside \cup Attempting
    BY <2>1 DEF Inside, Attempting, Phase
  <2>3. call' = [call EXCEPT ![t] = c] /\ holder' = NoThread
    BY <1>4 DEF Leave
  <2> HIDE DEF c
  <2> QED
    BY <1>2, <1>3, <1>4, <2>1, <2>2, <2>3, GatewayConstants, OutsideStep
<1>5. CASE /\ ~Refusing(m)
           /\ circuit' = [circuit EXCEPT ![m] = Admitted(m)]
           /\ Goto(t, "preparing") /\ UNCHANGED holder
  <2>1. PICK c \in Circuit : /\ circuit' = [circuit EXCEPT ![m] = c]
                             /\ c.state # "open"
                             /\ c.probe <=> c.state = "half_open"
                             /\ c = circuit[m] \/ circuit[m].state # "closed"
    <3>1. CASE circuit[m].state = "closed"
      BY <1>1, <1>5, <3>1, CircuitsOf DEF Admitted, GatewayInv
    <3>2. CASE circuit[m].state # "closed"
      <4> DEFINE c == [circuit[m] EXCEPT !.state = "half_open", !.probe = TRUE]
      <4>1. c \in Circuit /\ c.state = "half_open" /\ c.probe
        BY <1>1 DEF Circuit, CircuitState
      <4> QED
        BY <1>5, <3>2, <4>1 DEF Admitted
    <3> QED
      BY <3>1, <3>2
  <2>2. /\ call'[t].phase = "preparing" /\ call'[t].model = m
        /\ \A x \in Threads \ {t} : call'[x] = call[x]
        /\ call' \in [Threads -> CallRecord]
    <3>1. "preparing" \in Phase
      BY DEF Phase, Attempting
    <3>2. call' \in [Threads -> CallRecord]
      BY <1>1, <1>5, <3>1 DEF Goto, CallRecord
    <3>3. call'[t].phase = "preparing" /\ call'[t].model = m
      BY <1>1, <1>5 DEF Goto, CallRecord, Model
    <3>4. \A x \in Threads \ {t} : call'[x] = call[x]
      BY <1>1, <1>5 DEF Goto
    <3> QED
      BY <3>2, <3>3, <3>4
  <2> HIDE DEF m
  <2>3. TypeOK'
    BY <1>1, <1>2, <1>5, <2>1, <2>2 DEF GatewayInv, TypeOK, CallRecord, Circuit, world, servers
  <2>4. GuardHeld'
    <3>1. "preparing" \in Inside
      BY DEF Inside, Phase, Attempting
    <3> QED
      BY <1>2, <1>3, <1>5, <2>2, <3>1 DEF GuardHeld, Inside
  <2>5. CallsAgree' /\ FaultsCounted' /\ OneHeavyUnlessExposed'
    BY <1>2, <2>2 DEF GatewayInv, CallsAgree, FaultsCounted, world, servers,
                      OneHeavyUnlessExposed, BothResident, OllamaResident, AdvancedResident
  <2>6. CoreCircuitIsolated'
    <3> SUFFICES ASSUME past'.cut = 0, past'.ollama = 0, NEW n \in CoreModels
                 PROVE  circuit'[n] = NewCircuit
      BY DEF CoreCircuitIsolated
    <3>1. circuit[n] = NewCircuit /\ n \in Models /\ circuit[n].state = "closed"
      BY <1>2 DEF GatewayInv, CoreCircuitIsolated, NewCircuit, world, servers, Models
    <3> QED
      BY <1>1, <2>1, <3>1
  <2>7. \A x \in Threads \ {t} : call'[x].phase \notin Attempting
    BY <1>3, <2>2 DEF Inside, Attempting, Phase
  <2>8. CircuitGuardsCalls'
    <3> SUFFICES ASSUME NEW n \in Models
                 PROVE  /\ circuit'[n].state = "open" =>
                             \A x \in Threads :
                                 ~(call'[x].model = n /\ call'[x].phase \in Attempting)
                        /\ circuit'[n].probe <=> circuit'[n].state = "half_open"
                        /\ circuit'[n].probe =>
                             \E x \in Threads : call'[x].model = n /\ call'[x].phase \in Attempting
      BY CircuitsFrom
    <3>1. CASE n = m
      BY <1>1, <2>1, <2>2, <3>1 DEF Attempting
    <3>2. CASE n # m
      <4>1. circuit'[n] = circuit[n]
        BY <1>1, <2>1, <3>2
      <4>2. \A x \in Threads : ~InAttempt(x)
        BY <1>2, <1>3 DEF InAttempt, Inside, Attempting, Phase
      <4> QED
        BY <2>2, <2>7, <3>2, <4>1, <4>2, CircuitsOf DEF GatewayInv
    <3> QED
      BY <3>1, <3>2
  <2>9. \A x \in Threads : Asked(x)'
    BY <2>2, <2>7 DEF Asked, Using, Attempting
  <2> QED
    BY <2>3, <2>4, <2>5, <2>6, <2>8, <2>9 DEF GatewayInv
<1> QED
  BY <1>2, <1>4, <1>5 DEF Admit

LEMMA CoolStep ==
  ASSUME GatewayInv, NEW m \in Models, Cool(m)
  PROVE  GatewayInv'
<1>1. /\ circuit \in [Models -> Circuit] /\ circuit[m] \in Circuit
      /\ circuit[m].state = "open" /\ UNCHANGED <<call, holder, world>>
      /\ circuit' = [circuit EXCEPT ![m].cooled = TRUE]
  BY DEF Cool, GatewayInv, TypeOK, Circuit
<1>2. circuit' \in [Models -> Circuit]
  BY <1>1 DEF Circuit
<1>3. /\ circuit'[m].state = circuit[m].state /\ circuit'[m].probe = circuit[m].probe
      /\ \A n \in Models \ {m} : circuit'[n] = circuit[n]
  BY <1>1 DEF Circuit
<1>4. TypeOK'
  BY <1>1, <1>2 DEF GatewayInv, TypeOK, Circuit, world, servers
<1>5. CircuitGuardsCalls'
  <2> SUFFICES ASSUME NEW n \in Models
               PROVE  /\ circuit'[n].state = "open" =>
                           \A x \in Threads : ~(call'[x].model = n /\ call'[x].phase \in Attempting)
                      /\ circuit'[n].probe <=> circuit'[n].state = "half_open"
                      /\ circuit'[n].probe =>
                           \E x \in Threads : call'[x].model = n /\ call'[x].phase \in Attempting
    BY CircuitsFrom
  <2>1. circuit'[n].state = circuit[n].state /\ circuit'[n].probe = circuit[n].probe
    BY <1>3
  <2> QED
    BY <1>1, <2>1, CircuitsOf DEF GatewayInv, Model, InAttempt
<1>6. CoreCircuitIsolated'
  <2> SUFFICES ASSUME past'.cut = 0, past'.ollama = 0, NEW n \in CoreModels
               PROVE  circuit'[n] = NewCircuit
    BY DEF CoreCircuitIsolated
  <2>1. circuit[n] = NewCircuit /\ n \in Models /\ circuit[n].state = "closed"
    BY <1>1 DEF GatewayInv, CoreCircuitIsolated, NewCircuit, world, servers, Models
  <2> QED
    BY <1>1, <1>3, <2>1
<1> QED
  BY <1>1, <1>4, <1>5, <1>6
     DEF GatewayInv, GuardHeld, CallsAgree, FaultsCounted, Asked, Model, OneHeavyUnlessExposed,
         BothResident, OllamaResident, AdvancedResident, world, servers

(* The servers and the tunnel may do what they like except load a model.    *)
LEMMA WorldStep ==
  ASSUME GatewayInv, UNCHANGED gateway,
         tunnel' \in BOOLEAN, sick' \subseteq Providers, ollama' \in BOOLEAN,
         llama' \in {"loaded", "asleep", "stopped"},
         past' \in [{"cut", "ollama", "llama_cpp"} -> Nat],
         past'.cut = 0 => past.cut = 0, past'.ollama = 0 => past.ollama = 0,
         FaultsCounted',
         ollama' => ollama, exposed' \in BOOLEAN,
         llama' # "loaded" \/ (llama = "loaded" /\ exposed' = exposed)
           \/ (exposed' = (exposed \/ CoreUnderWay) /\ UNCHANGED ollama)
  PROVE  GatewayInv'
<1>1. TypeOK' /\ GuardHeld' /\ CallsAgree' /\ CircuitGuardsCalls' /\ CoreCircuitIsolated'
  <2>1. TypeOK'
    BY DEF GatewayInv, TypeOK, gateway
  <2>2. CircuitGuardsCalls'
    BY DEF GatewayInv, CircuitGuardsCalls, Model, InAttempt, gateway
  <2> QED
    BY <2>1, <2>2 DEF GatewayInv, GuardHeld, CallsAgree, CoreCircuitIsolated, gateway
<1>2. ASSUME NEW t \in Threads PROVE Asked(t)'
  <2>1. Asked(t) /\ (ollama = FALSE => ollama' = FALSE)
    BY DEF GatewayInv, TypeOK
  <2>2. Model(t) # Advanced /\ call[t].phase \in Using /\ llama' = "loaded" => exposed'
    BY <2>1 DEF Asked, Using, CoreUnderWay
  <2> QED
    BY <2>1, <2>2 DEF Asked, gateway, Model
<1>3. OneHeavyUnlessExposed'
  BY DEF GatewayInv, OneHeavyUnlessExposed, BothResident, OllamaResident, AdvancedResident,
         CoreUnderWay
<1> QED
  BY <1>1, <1>2, <1>3 DEF GatewayInv

LEMMA EnvironmentStep ==
  ASSUME GatewayInv, Environment
  PROVE  GatewayInv'
<1>1. /\ tunnel \in BOOLEAN /\ sick \subseteq Providers /\ ollama \in BOOLEAN
      /\ llama \in {"loaded", "asleep", "stopped"}
      /\ past \in [{"cut", "ollama", "llama_cpp"} -> Nat]
      /\ FaultsCounted /\ exposed \in BOOLEAN
  BY DEF GatewayInv, TypeOK
<1>2. CASE OllamaUnload \/ LlamaSleep
  <2>1. CASE OllamaUnload
    <3>1. /\ UNCHANGED <<gateway, tunnel, sick, llama, past, exposed>> /\ ollama' = FALSE
          /\ FaultsCounted'
      BY <1>1, <2>1 DEF OllamaUnload, FaultsCounted
    <3> QED
      BY <1>1, <3>1, WorldStep
  <2>2. CASE LlamaSleep
    <3>1. /\ UNCHANGED <<gateway, tunnel, sick, ollama, past>> /\ llama' = "asleep"
          /\ exposed' = FALSE
          /\ FaultsCounted'
      BY <1>1, <2>2 DEF LlamaSleep, FaultsCounted
    <3> QED
      BY <1>1, <3>1, WorldStep
  <2> QED
    BY <1>2, <2>1, <2>2
<1>3. CASE LlamaStop
  <2>1. /\ past' \in [{"cut", "ollama", "llama_cpp"} -> Nat]
        /\ past'.cut = past.cut /\ past'.ollama = past.ollama
    BY <1>1, <1>3 DEF LlamaStop
  <2> QED
    BY <1>1, <1>3, <2>1, WorldStep DEF LlamaStop, FaultsCounted
<1>4. CASE LlamaStart
  <2>1. exposed' \in BOOLEAN
    BY <1>1, <1>4 DEF LlamaStart, CoreUnderWay, OllamaResident
  <2> QED
    BY <1>1, <1>4, <2>1, WorldStep DEF LlamaStart, FaultsCounted, gateway
<1>5. CASE TunnelCut
  <2>1. /\ past' \in [{"cut", "ollama", "llama_cpp"} -> Nat]
        /\ past'.cut = past.cut + 1 /\ past.cut \in Nat /\ past'.ollama = past.ollama
    BY <1>1, <1>5 DEF TunnelCut
  <2>2. past'.cut # 0
    BY <2>1
  <2> QED
    BY <1>1, <1>5, <2>1, <2>2, WorldStep DEF TunnelCut, FaultsCounted
<1>6. CASE TunnelBack
  BY <1>1, <1>6, WorldStep DEF TunnelBack, FaultsCounted
<1>7. ASSUME NEW p \in Providers, Sicken(p) PROVE GatewayInv'
  <2>1. /\ past' \in [{"cut", "ollama", "llama_cpp"} -> Nat]
        /\ past'.cut = past.cut /\ past.ollama \in Nat
        /\ past'.ollama = IF p = "ollama" THEN past.ollama + 1 ELSE past.ollama
    BY <1>1, <1>7 DEF Sicken, Providers
  <2>2. FaultsCounted'
    BY <1>1, <1>7, <2>1 DEF Sicken, FaultsCounted
  <2>3. past'.ollama = 0 => past.ollama = 0
    BY <2>1
  <2> QED
    BY <1>1, <1>7, <2>1, <2>2, <2>3, WorldStep DEF Sicken
<1>8. ASSUME NEW p \in Providers, Recover(p) PROVE GatewayInv'
  BY <1>1, <1>8, WorldStep DEF Recover, FaultsCounted
<1> QED
  BY <1>2, <1>3, <1>4, <1>5, <1>6, <1>7, <1>8 DEF Environment

-----------------------------------------------------------------------------
(* The invariant                                                            *)

LEMMA InitGateway == Init => GatewayInv
<1> SUFFICES ASSUME Init PROVE GatewayInv
  OBVIOUS
<1>1. TypeOK
  <2>1. NewCircuit \in Circuit
    BY GatewayConstants DEF NewCircuit, Circuit, CircuitState
  <2>2. [phase |-> "idle", model |-> Advanced, attempt |-> 0] \in CallRecord
    BY GatewayConstants DEF CallRecord, Phase, Models
  <2> QED
    <3>1. call \in [Threads -> CallRecord] /\ circuit \in [Models -> Circuit]
      BY <2>1, <2>2 DEF Init
    <3>2. past \in [{"cut", "ollama", "llama_cpp"} -> Nat]
      BY DEF Init
    <3> QED
      BY <3>1, <3>2 DEF Init, TypeOK, Circuit, CallRecord
<1>2. GuardHeld /\ CallsAgree /\ FaultsCounted
  BY GatewayConstants DEF Init, GuardHeld, CallsAgree, FaultsCounted
<1>3. CircuitGuardsCalls /\ CoreCircuitIsolated
  BY DEF Init, CircuitGuardsCalls, CoreCircuitIsolated, NewCircuit, Models
<1>4. (\A t \in Threads : Asked(t)) /\ OneHeavyUnlessExposed
  BY DEF Init, Asked, OneHeavyUnlessExposed, BothResident, OllamaResident, AdvancedResident
<1> QED
  BY <1>1, <1>2, <1>3, <1>4 DEF GatewayInv

LEMMA NextGateway == GatewayInv /\ [Next]_vars => GatewayInv'
<1> SUFFICES ASSUME GatewayInv, [Next]_vars PROVE GatewayInv'
  OBVIOUS
<1>1. ASSUME NEW t \in Threads, Run(t) PROVE GatewayInv'
  BY <1>1, EnterStep, BusyStep, AdmitStep, PauseStep, PrepareAdvancedStep, WakeStep,
     PrepareCoreStep, VerifyStep, DispatchStep, FinishStep DEF Run, Attempt
<1>2. ASSUME NEW t \in Threads, NEW m \in Models, Ask(t, m) PROVE GatewayInv'
  BY <1>2, AskStep
<1>3. ASSUME NEW m \in Models, Cool(m) PROVE GatewayInv'
  BY <1>3, CoolStep
<1>4. CASE Environment
  BY <1>4, EnvironmentStep
<1>5. CASE UNCHANGED vars
  BY <1>5 DEF GatewayInv, TypeOK, GuardHeld, CallsAgree, FaultsCounted, CircuitGuardsCalls,
              CoreCircuitIsolated, Asked, Model, InAttempt, OneHeavyUnlessExposed, BothResident,
              OllamaResident, AdvancedResident, vars, gateway, world, servers
<1> QED
  BY <1>1, <1>2, <1>3, <1>4, <1>5 DEF Next

(* Types, the one holder of the guard, and what a caller asked of the other *)
(* server: true in every reachable state.                                   *)
THEOREM GatewaySafe == Spec => []GatewayInv
<1> QED
  BY InitGateway, NextGateway, PTL DEF Spec

(* Attempts and failures stay within their limits: a caller never exceeds   *)
(* its retries and a circuit never counts past its threshold.               *)
THEOREM CountersBounded == Spec => []TypeOK
<1>1. GatewayInv => TypeOK
  BY DEF GatewayInv
<1> QED
  BY <1>1, GatewaySafe, PTL

(* One caller at a time is inside, and it is the one that holds the guard.  *)
THEOREM OneInference == Spec => []GuardHeld
<1>1. GatewayInv => GuardHeld
  BY DEF GatewayInv
<1> QED
  BY <1>1, GatewaySafe, PTL

(* No attempt passes an open circuit and no half-open circuit loses its     *)
(* probe, for every threshold and every number of callers and retries.      *)
THEOREM ProbesAreKept == Spec => []CircuitGuardsCalls
<1>1. GatewayInv => CircuitGuardsCalls
  BY DEF GatewayInv
<1> QED
  BY <1>1, GatewaySafe, PTL

(* Nothing the advanced server does opens the circuit of a core model.      *)
THEOREM CoreIsIsolated == Spec => []CoreCircuitIsolated
<1>1. GatewayInv => CoreCircuitIsolated
  BY DEF GatewayInv
<1> QED
  BY <1>1, GatewaySafe, PTL

(* The servers hold a model both only where llama.cpp was started beside    *)
(* core work, or was taken, loaded, for stopped: however the servers fail,  *)
(* stop and sleep, and the tunnel is cut.                                   *)
THEOREM OneHeavyModel == Spec => []OneHeavyUnlessExposed
<1>1. GatewayInv => OneHeavyUnlessExposed
  BY DEF GatewayInv
<1> QED
  BY <1>1, GatewaySafe, PTL

-----------------------------------------------------------------------------
(* What the liveness of the calls rests on *)

(* The way of a call through the gateway: it waits once, and then each      *)
(* attempt passes the places of an attempt in their order.                  *)
Place(phase) ==
    CASE phase = "admitting" -> 1
      [] phase = "preparing" -> 2
      [] phase = "waking" -> 3
      [] phase = "verifying" -> 4
      [] phase = "dispatching" -> 5
      [] phase = "calling" -> 6
      [] phase = "pausing" -> 7
      [] OTHER -> 0
FurtherOn(before, after) ==
    \/ after.phase = "idle"
    \/ /\ after.phase \in Inside /\ after.model = before.model
       /\ \/ before.phase = "waiting"
          \/ before.attempt < after.attempt
          \/ before.attempt = after.attempt /\ Place(before.phase) < Place(after.phase)
CallsWindDown ==
    \A t \in Threads :
        call[t].phase # "idle" => call'[t] = call[t] \/ FurtherOn(call[t], call'[t])

LEMMA GotoMoves ==
  ASSUME TypeOK, NEW t \in Threads, NEW phase \in Inside, Goto(t, phase),
         Place(call[t].phase) < Place(phase)
  PROVE  CallsWindDown
<1>1. call'[t] = [call[t] EXCEPT !.phase = phase] /\ \A x \in Threads \ {t} : call'[x] = call[x]
  BY DEF TypeOK, Goto
<1>2. /\ call'[t].phase = phase /\ call'[t].model = call[t].model
      /\ call'[t].attempt = call[t].attempt
  BY <1>1 DEF TypeOK
<1> QED
  BY <1>1, <1>2 DEF CallsWindDown, FurtherOn

LEMMA LeaveMoves ==
  ASSUME TypeOK, NEW t \in Threads, Leave(t) \/ Goto(t, "idle")
  PROVE  CallsWindDown
<1>1. call'[t].phase = "idle" /\ \A x \in Threads \ {t} : call'[x] = call[x]
  BY DEF TypeOK, Goto, Leave
<1> QED
  BY <1>1 DEF CallsWindDown, FurtherOn

LEMMA FailMoves ==
  ASSUME TypeOK, NEW t \in Threads, InAttempt(t),
         \/ FailTransiently(t) \/ Refuse(t) \/ Succeed(t)
         \/ \E error \in {"offline", "transient", "other"} : Fail(t, error)
  PROVE  CallsWindDown
<1>1. Leave(t) \/ Goto(t, "pausing")
  BY DEF Fail, FailTransiently, Refuse, Succeed
<1>2. "pausing" \in Inside /\ Place("pausing") = 7
  BY DEF Inside, Phase, Place
<1>3. Place(call[t].phase) \in 2..6
  BY DEF InAttempt, Attempting, Place
<1>4. Place(call[t].phase) < Place("pausing")
  BY <1>2, <1>3
<1> QED
  BY <1>1, <1>2, <1>4, GotoMoves, LeaveMoves

LEMMA NextMoves ==
  ASSUME TypeOK, CallsAgree, [Next]_vars
  PROVE  CallsWindDown
<1> DEFINE Ends(t) ==
      \/ FailTransiently(t) \/ Refuse(t) \/ Succeed(t)
      \/ \E error \in {"offline", "transient", "other"} : Fail(t, error)
<1>1. ASSUME NEW t \in Threads, Attempt(t) PROVE CallsWindDown
  <2>1. InAttempt(t)
    BY <1>1
       DEF Attempt, PrepareAdvanced, Wake, PrepareCore, Verify, Dispatch, Finish, InAttempt,
           Attempting
  <2>2. CASE PrepareAdvanced(t)
    <3>1. Ends(t) \/ Goto(t, "waking")
      BY <2>2 DEF PrepareAdvanced
    <3>2. Place(call[t].phase) < Place("waking") /\ "waking" \in Inside
      BY <2>2 DEF PrepareAdvanced, Place, Inside, Phase, Attempting
    <3> QED
      BY <2>1, <3>1, <3>2, FailMoves, GotoMoves
  <2>3. CASE Wake(t) \/ PrepareCore(t)
    <3>1. Ends(t) \/ Goto(t, "verifying")
      BY <2>3 DEF Wake, PrepareCore, SleepUnknown
    <3>2. Place(call[t].phase) < Place("verifying") /\ "verifying" \in Inside
      BY <2>3 DEF Wake, PrepareCore, Place, Inside, Phase, Attempting
    <3> QED
      BY <2>1, <3>1, <3>2, FailMoves, GotoMoves
  <2>4. CASE Verify(t)
    <3>1. Ends(t) \/ Goto(t, "dispatching")
      BY <2>4 DEF Verify
    <3>2. Place(call[t].phase) < Place("dispatching") /\ "dispatching" \in Inside
      BY <2>4 DEF Verify, Place, Inside, Phase, Attempting
    <3> QED
      BY <2>1, <3>1, <3>2, FailMoves, GotoMoves
  <2>5. CASE Dispatch(t)
    <3>1. Ends(t) \/ Goto(t, "calling")
      BY <2>5 DEF Dispatch
    <3>2. Place(call[t].phase) < Place("calling") /\ "calling" \in Inside
      BY <2>5 DEF Dispatch, Place, Inside, Phase, Attempting
    <3> QED
      BY <2>1, <3>1, <3>2, FailMoves, GotoMoves
  <2>6. CASE Finish(t)
    <3>1. Ends(t)
      BY <2>6 DEF Finish
    <3> QED
      BY <2>1, <3>1, FailMoves
  <2> QED
    BY <1>1, <2>2, <2>3, <2>4, <2>5, <2>6 DEF Attempt
<1>2. ASSUME NEW t \in Threads, Enter(t) \/ Pause(t) PROVE CallsWindDown
  <2>1. /\ call[t].phase \in {"waiting", "pausing"}
        /\ call'[t].phase = "admitting" /\ call'[t].model = call[t].model
        /\ call[t].phase = "pausing" => call'[t].attempt = call[t].attempt + 1
        /\ \A x \in Threads \ {t} : call'[x] = call[x]
    BY <1>2 DEF Enter, Pause, Retry, NextAttempt, TypeOK
  <2>2. call[t].attempt \in Nat
    BY GatewayConstants DEF TypeOK
  <2> QED
    BY <2>1, <2>2 DEF CallsWindDown, FurtherOn, Inside, Phase, Attempting
<1>3. ASSUME NEW t \in Threads, Busy(t) PROVE CallsWindDown
  BY <1>3, LeaveMoves DEF Busy
<1>4. ASSUME NEW t \in Threads, Admit(t) PROVE CallsWindDown
  <2>1. Leave(t) \/ Goto(t, "preparing")
    BY <1>4 DEF Admit
  <2>2. Place(call[t].phase) < Place("preparing") /\ "preparing" \in Inside
    BY <1>4 DEF Admit, Place, Inside, Phase, Attempting
  <2> QED
    BY <2>1, <2>2, LeaveMoves, GotoMoves
<1>5. ASSUME NEW t \in Threads, NEW m \in Models, Ask(t, m) PROVE CallsWindDown
  <2>1. call[t].phase = "idle" /\ \A x \in Threads \ {t} : call'[x] = call[x]
    BY <1>5 DEF Ask, TypeOK
  <2> QED
    BY <2>1 DEF CallsWindDown
<1>6. CASE UNCHANGED call
  BY <1>6 DEF CallsWindDown
<1> QED
  BY <1>1, <1>2, <1>3, <1>4, <1>5, <1>6
     DEF Next, Run, Cool, Environment, OllamaUnload, LlamaSleep, LlamaStop, LlamaStart,
         TunnelCut, TunnelBack, Sicken, Recover, gateway, vars

(* A call passes the places of the gateway in one order, is never put back  *)
(* in the queue, keeps its model through every retry and makes at most      *)
(* MaxAttempts attempts, whatever the servers, the tunnel and the other     *)
(* callers do in between: a bounded number of steps of its own end a call   *)
(* (the loop of _with_retry in gateway.py).                                 *)
THEOREM CallsOnlyGoOn ==
  Spec => [][CallsWindDown /\ \A t \in Threads : call'[t].attempt <= MaxAttempts]_vars
<1>1. TypeOK /\ CallsAgree /\ [Next]_vars => CallsWindDown
  BY NextMoves
<1>2. TypeOK' => \A t \in Threads : call'[t].attempt <= MaxAttempts
  BY GatewayConstants DEF TypeOK
<1>3. GatewayInv => TypeOK /\ CallsAgree
  BY DEF GatewayInv
<1>4. GatewayInv' => TypeOK'
  BY DEF GatewayInv
<1> QED
  BY <1>1, <1>2, <1>3, <1>4, GatewaySafe, PTL DEF Spec
=============================================================================
