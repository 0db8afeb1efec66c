------------------------- MODULE ToolPlatformProofs -------------------------
(***************************************************************************)
(* Safety of the tool platform for every set of calls, devices, runs and   *)
(* tools and every budget: LifecycleInv is inductive.  It implements       *)
(* ToolAuthority: what has to be shown beyond the agreement of the rows is *)
(* that a call which still occupies a slot of its anchor is one the budget *)
(* query counts, or that its anchor starts nothing any more.               *)
(***************************************************************************)
EXTENDS ToolRefinement, FiniteSetTheorems, TLAPS

LEMMA InitLifecycle == Init => LifecycleInv
<1> SUFFICES ASSUME Init PROVE LifecycleInv
  OBVIOUS
<1> USE DEF Init
<1>0. MaxTime \in Nat
  BY ConstantsAssumption DEF ConstantsAssumption
<1>1. TypeOK
  <2>1. /\ status \in [Calls -> CallStatus]
        /\ audited \in [Calls -> CallStatus]
        /\ approval \in [Calls -> ApprovalStatus]
        /\ decision \in [Calls -> DecisionKind]
        /\ reason \in [Calls -> Reason]
        /\ runState \in [Runs -> RunState]
    BY DEF CallStatus, ApprovalStatus, DecisionKind, Reason, RunState
  <2>2. createdAt \in [Calls -> 0 .. now] /\ bootAt \in 0 .. now /\ now \in 0 .. MaxTime
    BY <1>0
  <2>3. /\ running \subseteq Calls
        /\ cancelling \subseteq Calls
        /\ deciding \subseteq Calls \X Approvers
    OBVIOUS
  <2> QED BY <2>1, <2>2, <2>3 DEF TypeOK
<1>2. AuthorityUsedOnce
  BY DEF AuthorityUsedOnce
<1>3. ApprovalTracksCall /\ TruthfulObservation /\ WorkerOwnsCall /\ StartedStatus
  BY DEF ApprovalTracksCall, TruthfulObservation, WorkerOwnsCall, StartedStatus
<1> QED BY <1>1, <1>2, <1>3 DEF LifecycleInv

LEMMA RequestKeeps ==
  ASSUME LifecycleInv, NEW c \in Calls, NEW r \in Runs \cup {NoRun}, NEW t \in ReadClock,
         RequestTool(c, r, t)
  PROVE  LifecycleInv'
<1> USE DEF RequestTool, SetApproval, LifecycleInv, callRow, approvalRow, process, environment
<1>0. /\ t \in 0 .. now
      /\ Permission(c) \in {"deny", "require_approval", "allow"}
  BY DEF ReadClock, TypeOK, Permission
<1>1. TypeOK'
  BY <1>0 DEF TypeOK, CallStatus, TerminalStatus, ApprovalStatus, DecisionKind, Reason
<1>2. AuthorityUsedOnce'
  BY <1>0 DEF TypeOK, AuthorityUsedOnce, StartedStatus
<1>3. ApprovalTracksCall'
  BY <1>0 DEF TypeOK, ApprovalTracksCall, StartedStatus
<1>4. TruthfulObservation'
  BY <1>0 DEF TypeOK, TruthfulObservation, StartedStatus
<1>5. WorkerOwnsCall'
  BY <1>0 DEF TypeOK, WorkerOwnsCall, StartedStatus
<1>6. StartedStatus'
  BY <1>0 DEF TypeOK, StartedStatus
<1> QED BY <1>1, <1>2, <1>3, <1>4, <1>5, <1>6

LEMMA DecideKeeps ==
  ASSUME LifecycleInv, NEW c \in Calls, NEW a \in Devices,
         \/ DecideParentOver(c, a) \/ DecideExpired(c, a)
         \/ \E approve \in BOOLEAN : Decide(c, a, approve)
  PROVE  LifecycleInv'
<1> USE DEF LifecycleInv, DecisionLocked, Undecided, DecideParentOver, DecideExpired, Decide,
           SetCall, SetApproval, environment
<1>1. TypeOK'
  <2>1. CASE DecideParentOver(c, a)
    BY <2>1 DEF TypeOK, CallStatus, TerminalStatus, ApprovalStatus, DecisionKind, Reason
  <2>2. CASE DecideExpired(c, a)
    BY <2>2 DEF TypeOK, CallStatus, TerminalStatus, ApprovalStatus, DecisionKind, Reason
  <2>3. CASE Decide(c, a, TRUE)
    BY <2>3 DEF TypeOK, CallStatus, TerminalStatus, ApprovalStatus, DecisionKind, Reason
  <2>4. CASE Decide(c, a, FALSE)
    BY <2>4 DEF TypeOK, CallStatus, TerminalStatus, ApprovalStatus, DecisionKind, Reason
  <2> QED
    BY <2>1, <2>2, <2>3, <2>4
<1>2. AuthorityUsedOnce'
  BY DEF TypeOK, AuthorityUsedOnce, ApprovalTracksCall, StartedStatus
<1>3. ApprovalTracksCall'
  BY DEF TypeOK, ApprovalTracksCall, StartedStatus
<1>4. TruthfulObservation'
  BY DEF TypeOK, TruthfulObservation, ApprovalTracksCall, StartedStatus
<1>5. WorkerOwnsCall'
  BY DEF TypeOK, WorkerOwnsCall, ApprovalTracksCall
<1>6. StartedStatus'
  BY DEF TypeOK, StartedStatus, ApprovalTracksCall
<1> QED BY <1>1, <1>2, <1>3, <1>4, <1>5, <1>6

LEMMA ExecuteParentOverKeeps ==
  ASSUME LifecycleInv, NEW c \in Calls, ExecuteParentOver(c)
  PROVE  LifecycleInv'
<1> USE DEF LifecycleInv, ExecutionLocked, Dispatchable, ExecuteParentOver, SetCall, SetApproval, environment, TerminalStatus
<1>1. TypeOK'
  BY DEF TypeOK, CallStatus, TerminalStatus, ApprovalStatus, DecisionKind, ObservationStatus, Reason
<1>2. AuthorityUsedOnce'
  BY DEF TypeOK, AuthorityUsedOnce
<1>3. ApprovalTracksCall'
  BY DEF TypeOK, ApprovalTracksCall, StartedStatus, CallStatus
<1>4. TruthfulObservation'
  BY DEF TypeOK, TruthfulObservation, ObservationStatus
<1>5. WorkerOwnsCall'
  BY DEF TypeOK, WorkerOwnsCall
<1>6. StartedStatus'
  BY DEF TypeOK, StartedStatus
<1> QED BY <1>1, <1>2, <1>3, <1>4, <1>5, <1>6

LEMMA ExecuteExpiredKeeps ==
  ASSUME LifecycleInv, NEW c \in Calls, NEW t \in ReadClock, ExecuteExpired(c, t)
  PROVE  LifecycleInv'
<1> USE DEF LifecycleInv, ExecutionLocked, Dispatchable, ExecuteExpired, SetCall, SetApproval, environment
<1>1. TypeOK'
  BY DEF TypeOK, CallStatus, TerminalStatus, ApprovalStatus, DecisionKind, ObservationStatus, Reason
<1>2. AuthorityUsedOnce'
  BY DEF TypeOK, AuthorityUsedOnce, StartedStatus
<1>3. ApprovalTracksCall'
  BY DEF TypeOK, ApprovalTracksCall, StartedStatus
<1>4. TruthfulObservation'
  BY DEF TypeOK, TruthfulObservation, StartedStatus
<1>5. WorkerOwnsCall'
  BY DEF TypeOK, WorkerOwnsCall, StartedStatus
<1>6. StartedStatus'
  BY DEF TypeOK, StartedStatus
<1> QED BY <1>1, <1>2, <1>3, <1>4, <1>5, <1>6

LEMMA StartKeeps ==
  ASSUME LifecycleInv, NEW c \in Calls, NEW t \in ReadClock, StartExecution(c, t)
  PROVE  LifecycleInv'
<1> USE DEF LifecycleInv, ExecutionLocked, Dispatchable, StartExecution, Consumable, SetApproval, environment
<1>1. TypeOK'
  BY DEF TypeOK, CallStatus, TerminalStatus, ApprovalStatus, DecisionKind, ObservationStatus, Reason
<1>2. AuthorityUsedOnce'
  <2>1. \A x \in Calls : x # c =>
          /\ starts'[x] = starts[x] /\ (consumed'[x] <=> consumed[x])
          /\ decision'[x] = decision[x] /\ decider'[x] = decider[x]
    BY DEF TypeOK
  <2>2. /\ starts'[c] = 1
        /\ decision'[c] = decision[c] /\ decider'[c] = decider[c]
    BY DEF TypeOK, StartedStatus
  <2>3. consumed'[c] = (approval[c] # "none")
    BY Zenon DEF TypeOK
  <2>4. /\ consumed'[c] <=> decision'[c] = "require_approval"
        /\ \/ decision'[c] = "allow"
           \/ decision'[c] = "require_approval" /\ decider'[c] \in Approvers
    <3>1. decision[c] \in {"allow", "require_approval"}
      BY DEF TypeOK, DecisionKind, StartedStatus, ApprovalTracksCall
    <3> QED BY <2>2, <2>3, <3>1 DEF ApprovalTracksCall, StartedStatus
  <2> QED BY <2>1, <2>2, <2>4 DEF AuthorityUsedOnce
<1>3. ApprovalTracksCall'
  BY DEF TypeOK, ApprovalTracksCall, StartedStatus
<1>4. TruthfulObservation'
  BY DEF TypeOK, TruthfulObservation, StartedStatus
<1>5. WorkerOwnsCall'
  BY DEF TypeOK, WorkerOwnsCall, StartedStatus, TruthfulObservation
<1>6. StartedStatus'
  BY DEF TypeOK, StartedStatus
<1> QED BY <1>1, <1>2, <1>3, <1>4, <1>5, <1>6

LEMMA FinalizeKeeps ==
  ASSUME LifecycleInv, NEW c \in Calls, NEW o \in ObservationStatus, Finalize(c, o)
  PROVE  LifecycleInv'
<1> USE DEF LifecycleInv, Finalize, ObservationStatus, approvalRow, environment
<1>1. TypeOK'
  BY DEF TypeOK, CallStatus, TerminalStatus, ApprovalStatus, DecisionKind, ObservationStatus, Reason
<1>2. AuthorityUsedOnce'
  BY DEF TypeOK, AuthorityUsedOnce
<1>3. ApprovalTracksCall'
  BY DEF TypeOK, ApprovalTracksCall, WorkerOwnsCall
<1>4. TruthfulObservation'
  BY DEF TypeOK, TruthfulObservation, WorkerOwnsCall
<1>5. WorkerOwnsCall'
  BY DEF TypeOK, WorkerOwnsCall
<1>6. StartedStatus'
  BY DEF TypeOK, StartedStatus, WorkerOwnsCall
<1> QED BY <1>1, <1>2, <1>3, <1>4, <1>5, <1>6

LEMMA CancelRunningKeeps ==
  ASSUME LifecycleInv, NEW c \in Calls, CancelRunning(c)
  PROVE  LifecycleInv'
<1> USE DEF LifecycleInv, CancelRunning, SetCall, approvalRow, environment
<1>1. TypeOK'
  BY DEF TypeOK, CallStatus, TerminalStatus, ApprovalStatus, DecisionKind, ObservationStatus, Reason
<1>2. AuthorityUsedOnce'
  BY DEF TypeOK, AuthorityUsedOnce
<1>3. ApprovalTracksCall'
  BY DEF TypeOK, ApprovalTracksCall, StartedStatus
<1>4. TruthfulObservation'
  BY DEF TypeOK, TruthfulObservation, StartedStatus, ObservationStatus
<1>5. WorkerOwnsCall'
  BY DEF TypeOK, WorkerOwnsCall
<1>6. StartedStatus'
  BY DEF TypeOK, StartedStatus
<1> QED BY <1>1, <1>2, <1>3, <1>4, <1>5, <1>6

LEMMA CancelBeforeStartKeeps ==
  ASSUME LifecycleInv, NEW c \in Calls, CancelBeforeStart(c)
  PROVE  LifecycleInv'
<1> USE DEF LifecycleInv, CancelBeforeStart, SetCall, SetApproval, process, environment
<1>1. TypeOK'
  BY DEF TypeOK, CallStatus, TerminalStatus, ApprovalStatus, DecisionKind, ObservationStatus, Reason
<1>2. AuthorityUsedOnce'
  BY DEF TypeOK, AuthorityUsedOnce, StartedStatus
<1>3. ApprovalTracksCall'
  BY DEF TypeOK, ApprovalTracksCall, StartedStatus
<1>4. TruthfulObservation'
  BY DEF TypeOK, TruthfulObservation, StartedStatus
<1>5. WorkerOwnsCall'
  BY DEF TypeOK, WorkerOwnsCall, StartedStatus
<1>6. StartedStatus'
  BY DEF TypeOK, StartedStatus
<1> QED BY <1>1, <1>2, <1>3, <1>4, <1>5, <1>6

LEMMA CancelUndeliveredKeeps ==
  ASSUME LifecycleInv, NEW c \in Calls, CancelUndelivered(c)
  PROVE  LifecycleInv'
<1> USE DEF LifecycleInv, CancelUndelivered, approvalRow, environment
<1>1. TypeOK'
  BY DEF TypeOK, CallStatus, TerminalStatus, ApprovalStatus, DecisionKind, ObservationStatus, Reason
<1>2. AuthorityUsedOnce'
  BY DEF TypeOK, AuthorityUsedOnce
<1>3. ApprovalTracksCall'
  BY DEF TypeOK, ApprovalTracksCall
<1>4. TruthfulObservation'
  BY DEF TypeOK, TruthfulObservation
<1>5. WorkerOwnsCall'
  BY DEF TypeOK, WorkerOwnsCall
<1>6. StartedStatus'
  BY DEF TypeOK, StartedStatus
<1> QED BY <1>1, <1>2, <1>3, <1>4, <1>5, <1>6

LEMMA SweepKeeps ==
  ASSUME LifecycleInv, NEW t \in ReadClock, ExpirePending(t)
  PROVE  LifecycleInv'
<1> USE DEF LifecycleInv, ExpirePending, process, environment
<1>1. TypeOK'
  BY DEF TypeOK, CallStatus, TerminalStatus, ApprovalStatus, DecisionKind, ObservationStatus, Reason
<1>2. AuthorityUsedOnce'
  BY DEF TypeOK, AuthorityUsedOnce
<1>3. ApprovalTracksCall'
  BY DEF TypeOK, ApprovalTracksCall, StartedStatus
<1>4. TruthfulObservation'
  BY DEF TypeOK, TruthfulObservation, ApprovalTracksCall, StartedStatus
<1>5. WorkerOwnsCall'
  BY DEF TypeOK, WorkerOwnsCall, ApprovalTracksCall
<1>6. StartedStatus'
  BY DEF TypeOK, StartedStatus, ApprovalTracksCall
<1> QED BY <1>1, <1>2, <1>3, <1>4, <1>5, <1>6

LEMMA ReconcileKeeps ==
  ASSUME LifecycleInv, Reconcile
  PROVE  LifecycleInv'
<1> USE DEF LifecycleInv, Reconcile, GateClosed, Stale, approvalRow, environment
<1>1. TypeOK'
  BY DEF TypeOK, CallStatus, TerminalStatus, ApprovalStatus, DecisionKind, ObservationStatus, Reason
<1>2. AuthorityUsedOnce'
  BY DEF TypeOK, AuthorityUsedOnce
<1>3. ApprovalTracksCall'
  BY DEF TypeOK, ApprovalTracksCall, StartedStatus
<1>4. TruthfulObservation'
  BY DEF TypeOK, TruthfulObservation, StartedStatus
<1>5. WorkerOwnsCall'
  BY DEF TypeOK, WorkerOwnsCall
<1>6. StartedStatus'
  BY DEF TypeOK, StartedStatus
<1> QED BY <1>1, <1>2, <1>3, <1>4, <1>5, <1>6

LEMMA MemoryKeeps ==
  ASSUME LifecycleInv,
         \/ \E c \in Calls : LoseWorker(c) \/ CancelDelivered(c)
         \/ \E c \in Calls, a \in Devices : BeginDecision(c, a) \/ AbandonDecision(c, a)
         \/ Restart
         \/ UNCHANGED vars
  PROVE  LifecycleInv'
<1> USE DEF LifecycleInv, callRow, approvalRow, process, environment, vars
<1>0. /\ UNCHANGED <<callRow, approvalRow, obs, audited, environment, starts>>
      /\ ready' = ready \/ running' = {}
      /\ running' \subseteq running
      /\ cancelling' \subseteq cancelling
  BY DEF LoseWorker, CancelDelivered, BeginDecision, AbandonDecision, Restart
<1>1. TypeOK'
  <2>1. ready' \in BOOLEAN
    BY DEF TypeOK, LoseWorker, CancelDelivered, BeginDecision, AbandonDecision, Restart
  <2>2. bootAt' \in 0 .. now
    <3>1. bootAt' = bootAt \/ bootAt' = now
      BY DEF LoseWorker, CancelDelivered, BeginDecision, AbandonDecision, Restart
    <3>2. bootAt \in 0 .. now /\ now \in 0 .. now
      BY DEF TypeOK
    <3> QED BY <3>1, <3>2
  <2>3. deciding' \subseteq Calls \X Approvers
    <3>1. CASE \E c \in Calls, a \in Devices : BeginDecision(c, a)
      <4>1. PICK c \in Calls, a \in Devices : BeginDecision(c, a)
        BY <3>1
      <4>2. <<c, a>> \in Calls \X Approvers /\ deciding' = deciding \cup {<<c, a>>}
        BY <4>1 DEF BeginDecision
      <4> QED BY <4>2 DEF TypeOK
    <3>2. CASE ~\E c \in Calls, a \in Devices : BeginDecision(c, a)
      <4>1. deciding' \subseteq deciding
        BY <3>2 DEF LoseWorker, CancelDelivered, AbandonDecision, Restart
      <4> QED BY <4>1 DEF TypeOK
    <3> QED BY <3>1, <3>2
  <2> QED BY <1>0, <2>1, <2>2, <2>3 DEF TypeOK
<1>2. AuthorityUsedOnce'
  BY <1>0 DEF AuthorityUsedOnce
<1>3. ApprovalTracksCall' /\ TruthfulObservation' /\ StartedStatus'
  BY <1>0 DEF ApprovalTracksCall, TruthfulObservation, StartedStatus
<1>4. WorkerOwnsCall'
  BY <1>0 DEF WorkerOwnsCall
<1> QED BY <1>1, <1>2, <1>3, <1>4

LEMMA EnvironmentKeeps ==
  ASSUME LifecycleInv, Environment
  PROVE  LifecycleInv'
<1> USE DEF LifecycleInv, Environment, callRow, approvalRow, process
<1>1. TypeOK'
  <2> USE DEF TypeOK
  <2>1. CASE Tick
    <3>1. now' = now + 1 /\ now' \in 0 .. MaxTime
      BY <2>1, ConstantsAssumption DEF Tick, ConstantsAssumption
    <3>2. createdAt' \in [Calls -> 0 .. now'] /\ bootAt' \in 0 .. now'
      BY <3>1
    <3> QED BY <2>1, <3>1, <3>2 DEF Tick
  <2>2. CASE \E d \in Devices : RevokeDevice(d)
    BY <2>2 DEF RevokeDevice
  <2>3. CASE \E r \in Runs : CloseSession(r) \/ RequestRunCancel(r) \/ EndRun(r)
    BY <2>3 DEF CloseSession, RequestRunCancel, EndRun, RunState
  <2>4. CASE \E x \in Tools : ChangeAvailability(x)
    BY <2>4 DEF ChangeAvailability
  <2> QED BY <2>1, <2>2, <2>3, <2>4
<1>2. AuthorityUsedOnce'
  BY DEF AuthorityUsedOnce
<1>3. ApprovalTracksCall' /\ TruthfulObservation' /\ StartedStatus'
  BY DEF ApprovalTracksCall, TruthfulObservation, StartedStatus
<1>4. WorkerOwnsCall'
  BY DEF WorkerOwnsCall
<1> QED BY <1>1, <1>2, <1>3, <1>4

THEOREM LifecycleInductive == LifecycleInv /\ [Next]_vars => LifecycleInv'
<1> SUFFICES ASSUME LifecycleInv, [Next]_vars PROVE LifecycleInv'
  OBVIOUS
<1>1. CASE Request
  BY <1>1, RequestKeeps DEF Request
<1>2. CASE Decision
  BY <1>2, DecideKeeps, MemoryKeeps DEF Decision
<1>3. CASE Execution
  BY <1>3, ExecuteParentOverKeeps, ExecuteExpiredKeeps, StartKeeps, FinalizeKeeps,
     MemoryKeeps DEF Execution
<1>4. CASE Cancellation
  BY <1>4, CancelRunningKeeps, CancelBeforeStartKeeps, CancelUndeliveredKeeps,
     MemoryKeeps DEF Cancellation
<1>5. CASE Sweep
  BY <1>5, SweepKeeps DEF Sweep
<1>6. CASE Reconcile
  BY <1>6, ReconcileKeeps
<1>7. CASE Restart \/ UNCHANGED vars
  BY <1>7, MemoryKeeps
<1>8. CASE Environment
  BY <1>8, EnvironmentKeeps
<1> QED BY <1>1, <1>2, <1>3, <1>4, <1>5, <1>6, <1>7, <1>8 DEF Next

(* Type correctness, at-most-once execution and the agreement of call,      *)
(* approval, observation and worker hold in every reachable state of the    *)
(* tool platform, for every value of the constants.                         *)
THEOREM LifecycleSafe == Spec => []LifecycleInv
  BY InitLifecycle, LifecycleInductive, PTL DEF Spec

(* execute_tool_call invokes the executor of a call at most once, and only  *)
(* on a policy or owner authority it consumed.                              *)
THEOREM ExecutorInvokedOnce == Spec => []AuthorityUsedOnce
<1>1. LifecycleInv => AuthorityUsedOnce
  BY DEF LifecycleInv
<1> QED BY <1>1, LifecycleSafe, PTL

(* The handlers that write the approval row and the call row keep the two   *)
(* consistent (decide_approval, execute_tool_call, cancel_tool_call,        *)
(* expire_pending).                                                         *)
THEOREM ApprovalConsistent == Spec => []ApprovalTracksCall
<1>1. LifecycleInv => ApprovalTracksCall
  BY DEF LifecycleInv
<1> QED BY <1>1, LifecycleSafe, PTL

(* Success and failure are backed by exactly the observation row, and an    *)
(* observation by an executor call (execute_tool_call,                      *)
(* reconcile_stale_executing).                                              *)
THEOREM ObservationIsTruthful == Spec => []TruthfulObservation
<1>1. LifecycleInv => TruthfulObservation
  BY DEF LifecycleInv
<1> QED BY <1>1, LifecycleSafe, PTL

(* A running worker keeps its call until it reports, whatever the startup   *)
(* reconciliation and the other handlers do.                                *)
THEOREM WorkerKeepsCall == Spec => []WorkerOwnsCall
<1>1. LifecycleInv => WorkerOwnsCall
  BY DEF LifecycleInv
<1> QED BY <1>1, LifecycleSafe, PTL

Frozen(c) ==
    status[c] \in TerminalStatus /\ c \notin running =>
        /\ status'[c] = status[c]
        /\ obs'[c] = obs[c]
        /\ approval'[c] = approval[c]

LEMMA StepFreezes ==
  ASSUME LifecycleInv, [Next]_vars
  PROVE  \A c \in Calls : Frozen(c)
<1> USE DEF LifecycleInv, TypeOK, ApprovalTracksCall, Frozen, TerminalStatus
<1>1. CASE Request
  BY <1>1 DEF Request, RequestTool, SetApproval
<1>2. CASE Decision
  <2> PICK k \in Calls, a \in Devices :
          \/ BeginDecision(k, a)
          \/ AbandonDecision(k, a)
          \/ DecideParentOver(k, a)
          \/ DecideExpired(k, a)
          \/ \E approve \in BOOLEAN : Decide(k, a, approve)
    BY <1>2 DEF Decision
  <2>1. CASE BeginDecision(k, a) \/ AbandonDecision(k, a)
    BY <2>1 DEF BeginDecision, AbandonDecision, callRow, approvalRow
  <2>2. CASE DecideParentOver(k, a) \/ DecideExpired(k, a)
    BY <2>2 DEF DecideParentOver, DecideExpired, DecisionLocked, Undecided, SetCall, SetApproval
  <2>3. CASE \E approve \in BOOLEAN : Decide(k, a, approve)
    BY <2>3 DEF Decide, DecisionLocked, Undecided, SetCall, SetApproval
  <2> QED BY <2>1, <2>2, <2>3
<1>3. CASE Execution
  <2> PICK k \in Calls :
          \/ ExecuteParentOver(k)
          \/ \E t \in ReadClock : ExecuteExpired(k, t) \/ StartExecution(k, t)
          \/ \E o \in ObservationStatus : Finalize(k, o)
          \/ LoseWorker(k)
    BY <1>3 DEF Execution
  <2>1. CASE ExecuteParentOver(k)
    BY <2>1 DEF ExecuteParentOver, ExecutionLocked, Dispatchable, SetCall, SetApproval
  <2>2. CASE \E t \in ReadClock : ExecuteExpired(k, t) \/ StartExecution(k, t)
    BY <2>2 DEF ExecuteExpired, StartExecution, ExecutionLocked, Dispatchable, SetCall, SetApproval
  <2>3. CASE \E o \in ObservationStatus : Finalize(k, o)
    BY <2>3 DEF Finalize, approvalRow
  <2>4. CASE LoseWorker(k)
    BY <2>4 DEF LoseWorker, callRow, approvalRow
  <2> QED BY <2>1, <2>2, <2>3, <2>4
<1>4. CASE Cancellation
  BY <1>4 DEF Cancellation, CancelRunning, CancelBeforeStart, CancelDelivered,
              CancelUndelivered, SetCall, SetApproval, callRow, approvalRow
<1>5. CASE Sweep
  BY <1>5 DEF Sweep, ExpirePending
<1>6. CASE Reconcile
  BY <1>6 DEF Reconcile, GateClosed, Stale, approvalRow
<1>7. CASE Restart \/ Environment \/ UNCHANGED vars
  BY <1>7 DEF Restart, Environment, vars, callRow, approvalRow
<1> QED BY <1>1, <1>2, <1>3, <1>4, <1>5, <1>6, <1>7 DEF Next

(* No handler revives or rewrites a settled call that has no live worker.   *)
THEOREM SettledStaysSettled == Spec => SettledIsFinal
<1>1. LifecycleInv /\ [Next]_vars =>
        [\A c \in Calls :
           status[c] \in TerminalStatus /\ c \notin running =>
               /\ status'[c] = status[c]
               /\ obs'[c] = obs[c]
               /\ approval'[c] = approval[c]]_vars
  BY StepFreezes DEF Frozen
<1> QED BY <1>1, LifecycleSafe, PTL DEF Spec, SettledIsFinal

LEMMA AuditStep == LifecycleInv /\ AuditFollowsStatus /\ [Next]_vars => AuditFollowsStatus'
<1> SUFFICES ASSUME LifecycleInv, AuditFollowsStatus, [Next]_vars PROVE AuditFollowsStatus'
  OBVIOUS
<1> USE DEF LifecycleInv, TypeOK, AuditFollowsStatus
<1>1. CASE Request
  <2> PICK k \in Calls, r \in Runs \cup {NoRun}, t \in ReadClock : RequestTool(k, r, t)
    BY <1>1 DEF Request
  <2>1. Permission(k) \in {"deny", "require_approval", "allow"}
    BY DEF Permission
  <2> QED BY <2>1 DEF RequestTool
<1>2. CASE Decision
  BY <1>2 DEF Decision, BeginDecision, AbandonDecision, DecideParentOver, DecideExpired,
              Decide, SetCall, callRow
<1>3. CASE Execution
  <2> PICK k \in Calls :
          \/ ExecuteParentOver(k)
          \/ \E t \in ReadClock : ExecuteExpired(k, t) \/ StartExecution(k, t)
          \/ \E o \in ObservationStatus : Finalize(k, o)
          \/ LoseWorker(k)
    BY <1>3 DEF Execution
  <2>1. CASE ExecuteParentOver(k) \/ \E t \in ReadClock : ExecuteExpired(k, t)
    BY <2>1 DEF ExecuteParentOver, ExecuteExpired, SetCall
  <2>2. CASE \E t \in ReadClock : StartExecution(k, t)
    BY <2>2 DEF StartExecution
  <2>3. CASE (\E o \in ObservationStatus : Finalize(k, o)) \/ LoseWorker(k)
    BY <2>3 DEF Finalize, LoseWorker, callRow
  <2> QED BY <2>1, <2>2, <2>3
<1>4. CASE Cancellation
  BY <1>4 DEF Cancellation, CancelRunning, CancelBeforeStart, CancelDelivered,
              CancelUndelivered, SetCall, callRow
<1>5. CASE Sweep
  BY <1>5 DEF Sweep, ExpirePending
<1>6. CASE Reconcile
  BY <1>6 DEF Reconcile, GateClosed
<1>7. CASE Restart \/ Environment \/ UNCHANGED vars
  BY <1>7 DEF Restart, Environment, vars, callRow
<1> QED BY <1>1, <1>2, <1>3, <1>4, <1>5, <1>6, <1>7 DEF Next

(* Every handler audits the status it commits; only the report of an        *)
(* undelivered cancellation may lag behind.                                 *)
THEOREM AuditIsComplete == Spec => []AuditFollowsStatus
<1>1. Init => AuditFollowsStatus
  BY DEF Init, AuditFollowsStatus
<1> QED BY <1>1, AuditStep, LifecycleSafe, PTL DEF Spec

-----------------------------------------------------------------------------
(* Budgets: a request joins the sets it was counted in, nothing else does.  *)

Approvals(c, r) == {x \in Anchored(c, r) : decision[x] = "require_approval"}
Created(c, end) ==
    {x \in Calls : /\ status[x] # "absent"
                   /\ Device(x) = Device(c)
                   /\ Tool(x) = Tool(c)
                   /\ createdAt[x] \in end - Window .. end}
BudgetInv ==
    /\ \A c \in Calls, r \in Runs \cup {NoRun} :
         /\ Cardinality(Anchored(c, r)) <= MaxProposals
         /\ Cardinality(Approvals(c, r)) <= MaxApprovals + 1
    /\ \A c \in Calls, end \in 0 .. now :
         Cardinality(Created(c, end)) <= RateMax[Tool(c)]

LEMMA SubsetBound ==
  ASSUME NEW S, IsFiniteSet(S), NEW T \in SUBSET S, NEW n \in Nat, Cardinality(S) <= n
  PROVE  IsFiniteSet(T) /\ Cardinality(T) <= n
<1>1. IsFiniteSet(T) /\ Cardinality(T) <= Cardinality(S)
  BY FS_Subset
<1>2. Cardinality(S) \in Nat /\ Cardinality(T) \in Nat
  BY <1>1, FS_CardinalityType
<1> QED
  BY <1>1, <1>2

LEMMA OneMoreBound ==
  ASSUME NEW S, IsFiniteSet(S), NEW c, NEW T \in SUBSET (S \cup {c}),
         NEW n \in Nat, Cardinality(S) < n
  PROVE  Cardinality(T) <= n
<1>1. Cardinality(S) \in Nat
  BY FS_CardinalityType
<1>2. IsFiniteSet(S \cup {c}) /\ Cardinality(S \cup {c}) <= Cardinality(S) + 1
  <2>1. /\ IsFiniteSet(S \cup {c})
        /\ Cardinality(S \cup {c}) = IF c \in S THEN Cardinality(S) ELSE Cardinality(S) + 1
    BY FS_AddElement
  <2> QED
    BY <1>1, <2>1
<1>3. Cardinality(S \cup {c}) \in Nat
  BY <1>2, FS_CardinalityType
<1>4. Cardinality(S \cup {c}) <= n
  BY <1>1, <1>2, <1>3
<1> QED
  BY <1>2, <1>4, SubsetBound

LEMMA FiniteCalls ==
  ASSUME NEW S \in SUBSET Calls
  PROVE  IsFiniteSet(S)
BY FS_Subset, ConstantsAssumption DEF ConstantsAssumption

LEMMA RequestBudget ==
  ASSUME LifecycleInv, BudgetInv, NEW k \in Calls, NEW q \in Runs \cup {NoRun},
         NEW t \in ReadClock, RequestTool(k, q, t)
  PROVE  BudgetInv'
<1>1. /\ \A x \in Calls \ {k} : /\ status'[x] = status[x] /\ run'[x] = run[x]
                                /\ decision'[x] = decision[x] /\ createdAt'[x] = createdAt[x]
      /\ status[k] = "absent" /\ run'[k] = q /\ createdAt'[k] = t
      /\ decision'[k] = Permission(k)
  BY DEF RequestTool, LifecycleInv, TypeOK
<1>2. now' = now
  BY DEF RequestTool, environment
<1>3. /\ MaxProposals \in Nat /\ MaxApprovals \in Nat /\ MaxApprovals + 1 \in Nat
      /\ \A c \in Calls : RateMax[Tool(c)] \in Nat
      /\ Window \in Nat
  BY ConstantsAssumption DEF ConstantsAssumption, Tool
<1>4. ASSUME NEW c \in Calls, NEW r \in Runs \cup {NoRun}
      PROVE  /\ Cardinality(Anchored(c, r)') <= MaxProposals
             /\ Cardinality(Approvals(c, r)') <= MaxApprovals + 1
  <2> DEFINE A == Anchored(c, r)
             A1 == Anchored(c, r)'
             P == Approvals(c, r)
             P1 == Approvals(c, r)'
  <2>1. A \in SUBSET Calls /\ P \in SUBSET Calls
    BY DEF Anchored, Approvals
  <2>2. IsFiniteSet(A) /\ IsFiniteSet(P)
    BY <2>1, FiniteCalls
  <2>3. Cardinality(A) <= MaxProposals /\ Cardinality(P) <= MaxApprovals + 1
    BY DEF BudgetInv
  <2>4. A1 \in SUBSET (A \cup {k}) /\ P1 \in SUBSET (P \cup {k})
    BY <1>1 DEF Anchored, Approvals
  <2>5. Cardinality(A1) <= MaxProposals
    <3>1. CASE k \in A1
      <4>1. r = q /\ (q = NoRun => Device(k) = Device(c))
        BY <1>1, <3>1 DEF Anchored
      <4>2. A = Anchored(k, q)
        BY <4>1 DEF Anchored
      <4>3. Cardinality(A) < MaxProposals
        BY <4>2 DEF RequestTool, WithinProposalBudget
      <4> HIDE DEF A, A1
      <4> QED
        BY <1>3, <2>2, <2>4, <4>3, OneMoreBound
    <3>2. CASE k \notin A1
      <4>1. A1 \in SUBSET A
        BY <2>4, <3>2
      <4> HIDE DEF A, A1
      <4> QED
        BY <1>3, <2>2, <2>3, <4>1, SubsetBound
    <3> QED
      BY <3>1, <3>2
  <2>6. Cardinality(P1) <= MaxApprovals + 1
    <3>1. CASE k \in P1
      <4>1. k \in A1 /\ Permission(k) = "require_approval"
        BY <1>1, <3>1 DEF Approvals
      <4>2. r = q /\ (q = NoRun => Device(k) = Device(c))
        BY <1>1, <4>1 DEF Anchored
      <4>3. P = Approvals(k, q)
        BY <4>2 DEF Anchored, Approvals
      <4>4. Cardinality(P) <= MaxApprovals
        BY <4>1, <4>3 DEF RequestTool, WithinApprovalBudget, Approvals
      <4> HIDE DEF P, P1
      <4>5. Cardinality(P) \in Nat
        BY <2>2, FS_CardinalityType
      <4>6. Cardinality(P) < MaxApprovals + 1
        BY <1>3, <4>4, <4>5
      <4> QED
        BY <1>3, <2>2, <2>4, <4>6, OneMoreBound
    <3>2. CASE k \notin P1
      <4>1. P1 \in SUBSET P
        BY <2>4, <3>2
      <4> HIDE DEF P, P1
      <4> QED
        BY <1>3, <2>2, <2>3, <4>1, SubsetBound
    <3> QED
      BY <3>1, <3>2
  <2> QED
    BY <2>5, <2>6
<1>5. ASSUME NEW c \in Calls, NEW end \in 0 .. now
      PROVE  Cardinality(Created(c, end)') <= RateMax[Tool(c)]
  <2> DEFINE S == Created(c, end)
             S1 == Created(c, end)'
             W == {x \in Calls : /\ status[x] # "absent"
                                 /\ Device(x) = Device(k)
                                 /\ Tool(x) = Tool(k)
                                 /\ createdAt[x] >= t - Window}
  <2>1. S \in SUBSET Calls /\ W \in SUBSET Calls
    BY DEF Created
  <2>2. IsFiniteSet(S) /\ IsFiniteSet(W)
    BY <2>1, FiniteCalls
  <2>3. Cardinality(S) <= RateMax[Tool(c)]
    BY DEF BudgetInv
  <2>4. S1 \in SUBSET (S \cup {k})
    BY <1>1 DEF Created
  <2>5. CASE k \in S1
    <3>1. Device(k) = Device(c) /\ Tool(k) = Tool(c) /\ t \in end - Window .. end
      BY <1>1, <2>5 DEF Created
    <3>2. S \in SUBSET W
      <4>1. ASSUME NEW x \in S PROVE createdAt[x] >= t - Window
        <5>1. createdAt[x] \in end - Window .. end
          BY DEF Created
        <5>2. t \in Int /\ end \in Int /\ t <= end /\ Window \in Int
          BY <1>3, <3>1
        <5> QED
          BY <5>1, <5>2
      <4> QED
        BY <3>1, <4>1 DEF Created
    <3>3. Cardinality(W) < RateMax[Tool(c)]
      BY <3>1 DEF RequestTool, WithinRate
    <3>4. S1 \in SUBSET (W \cup {k})
      BY <2>4, <3>2
    <3>5. PICK n \in Nat : n = RateMax[Tool(c)]
      BY <1>3
    <3>6. Cardinality(S1) <= n
      <4>1. Cardinality(W) < n
        BY <3>3, <3>5
      <4> HIDE DEF S, S1, W
      <4> QED
        BY <2>2, <3>4, <4>1, OneMoreBound
    <3> QED
      BY <3>5, <3>6
  <2>6. CASE k \notin S1
    <3>1. S1 \in SUBSET S
      BY <2>4, <2>6
    <3>2. PICK n \in Nat : n = RateMax[Tool(c)]
      BY <1>3
    <3>3. Cardinality(S1) <= n
      <4>1. Cardinality(S) <= n
        BY <2>3, <3>2
      <4> HIDE DEF S, S1
      <4> QED
        BY <2>2, <3>1, <4>1, SubsetBound
    <3> QED
      BY <3>2, <3>3
  <2> QED
    BY <2>5, <2>6
<1> QED
  BY <1>2, <1>4, <1>5 DEF BudgetInv

(* No other step makes a row, or changes what the row was counted for.      *)
LEMMA RowsStay ==
  ASSUME LifecycleInv, [Next]_vars, ~Request
  PROVE  /\ UNCHANGED <<run, createdAt, decision>>
         /\ \A x \in Calls : status'[x] = "absent" <=> status[x] = "absent"
         /\ now' \in Nat /\ (now' = now \/ now' = now + 1)
<1> USE DEF LifecycleInv, TypeOK
<1>0. now \in Nat
  BY ConstantsAssumption DEF ConstantsAssumption
<1>1. CASE Decision
  BY <1>0, <1>1 DEF Decision, BeginDecision, AbandonDecision, DecisionLocked, DecideParentOver,
       DecideExpired, Decide, SetCall, Undecided, ApprovalTracksCall, callRow, environment
<1>2. CASE Execution
  <2> PICK k \in Calls :
          \/ ExecuteParentOver(k)
          \/ \E t \in ReadClock : ExecuteExpired(k, t) \/ StartExecution(k, t)
          \/ \E o \in ObservationStatus : Finalize(k, o)
          \/ LoseWorker(k)
    BY <1>2 DEF Execution
  <2>1. CASE ExecuteParentOver(k) \/ \E t \in ReadClock : ExecuteExpired(k, t)
    BY <1>0, <2>1 DEF ExecuteParentOver, ExecuteExpired, ExecutionLocked, Dispatchable, SetCall,
                      environment
  <2>2. CASE \E t \in ReadClock : StartExecution(k, t)
    BY <1>0, <2>2 DEF StartExecution, ExecutionLocked, Dispatchable, environment
  <2>3. CASE (\E o \in ObservationStatus : Finalize(k, o)) \/ LoseWorker(k)
    BY <1>0, <2>3 DEF Finalize, LoseWorker, WorkerOwnsCall, ObservationStatus, callRow, environment
  <2> QED
    BY <2>1, <2>2, <2>3
<1>3. CASE Cancellation
  BY <1>0, <1>3 DEF Cancellation, CancelRunning, CancelBeforeStart, CancelDelivered,
       CancelUndelivered, SetCall, callRow, environment
<1>4. CASE Sweep
  BY <1>0, <1>4 DEF Sweep, ExpirePending, environment
<1>5. CASE Reconcile
  BY <1>0, <1>5 DEF Reconcile, Stale, environment
<1>6. CASE Environment
  BY <1>0, <1>6 DEF Environment, Tick, RevokeDevice, CloseSession, RequestRunCancel, EndRun,
       ChangeAvailability, callRow
<1>7. CASE Restart \/ UNCHANGED vars
  BY <1>0, <1>7 DEF Restart, vars, callRow, environment
<1> QED
  BY <1>1, <1>2, <1>3, <1>4, <1>5, <1>6, <1>7 DEF Next

LEMMA BudgetStep == LifecycleInv /\ BudgetInv /\ [Next]_vars => BudgetInv'
<1> SUFFICES ASSUME LifecycleInv, BudgetInv, [Next]_vars PROVE BudgetInv'
  OBVIOUS
<1>1. CASE Request
  BY <1>1, RequestBudget DEF Request
<1>2. CASE ~Request
  <2>1. /\ UNCHANGED <<run, createdAt, decision>>
        /\ \A x \in Calls : status'[x] = "absent" <=> status[x] = "absent"
        /\ now' \in Nat /\ (now' = now \/ now' = now + 1)
    BY <1>2, RowsStay
  <2>2. ASSUME NEW c \in Calls, NEW r \in Runs \cup {NoRun}
        PROVE  Anchored(c, r)' = Anchored(c, r) /\ Approvals(c, r)' = Approvals(c, r)
    BY <2>1 DEF Anchored, Approvals
  <2>3. ASSUME NEW c \in Calls, NEW end \in 0 .. now'
        PROVE  Cardinality(Created(c, end)') <= RateMax[Tool(c)]
    <3>1. Created(c, end)' = Created(c, end)
      BY <2>1 DEF Created
    <3>2. CASE end \in 0 .. now
      BY <3>1, <3>2 DEF BudgetInv
    <3>3. CASE end \notin 0 .. now
      <4>1. now \in Nat /\ Window \in Nat /\ RateMax[Tool(c)] \in Nat
        BY ConstantsAssumption DEF ConstantsAssumption, LifecycleInv, TypeOK, Tool
      <4>2. end = now + 1
        BY <2>1, <3>3, <4>1
      <4>3. Created(c, end) \in SUBSET Created(c, now)
        <5>1. ASSUME NEW x \in Created(c, end) PROVE createdAt[x] \in now - Window .. now
          <6>1. createdAt[x] \in 0 .. now /\ createdAt[x] \in end - Window .. end
            BY DEF Created, LifecycleInv, TypeOK
          <6> QED
            BY <4>1, <4>2, <6>1
        <5> QED
          BY <5>1 DEF Created
      <4>4. Created(c, now) \in SUBSET Calls /\ now \in 0 .. now
        BY <4>1 DEF Created
      <4>5. Cardinality(Created(c, now)) <= RateMax[Tool(c)]
        BY <4>4 DEF BudgetInv
      <4> QED
        BY <3>1, <4>1, <4>3, <4>4, <4>5, FiniteCalls, SubsetBound
    <3> QED
      BY <3>2, <3>3
  <2> QED
    BY <2>2, <2>3 DEF BudgetInv
<1> QED
  BY <1>1, <1>2

(* No race of requests exceeds the proposals, the approvals or the rate of  *)
(* a tool, however late a request commits what it counted when it read its  *)
(* clock.                                                                   *)
THEOREM BudgetsHold == Spec => []RequestsWithinBudget
<1>1. Init => BudgetInv
  <2> SUFFICES ASSUME Init PROVE BudgetInv
    OBVIOUS
  <2>1. /\ \A c \in Calls, r \in Runs \cup {NoRun} : Anchored(c, r) = {} /\ Approvals(c, r) = {}
        /\ \A c \in Calls, end \in 0 .. now : Created(c, end) = {}
    BY DEF Init, Anchored, Approvals, Created
  <2>2. \A c \in Calls : RateMax[Tool(c)] \in Nat
    BY ConstantsAssumption DEF ConstantsAssumption, Tool
  <2>3. MaxProposals \in Nat /\ MaxApprovals \in Nat
    BY ConstantsAssumption DEF ConstantsAssumption
  <2> QED
    <3>1. Cardinality({}) = 0
      BY FS_EmptySet
    <3>2. 0 <= MaxProposals /\ 0 <= MaxApprovals + 1
      BY <2>3
    <3>3. ASSUME NEW c \in Calls, NEW end \in 0 .. now
          PROVE  Cardinality(Created(c, end)) <= RateMax[Tool(c)]
      <4>1. PICK n \in Nat : n = RateMax[Tool(c)]
        BY <2>2
      <4> QED
        BY <2>1, <3>1, <4>1
    <3> QED
      BY <2>1, <3>1, <3>2, <3>3 DEF BudgetInv
<1>2. LifecycleInv /\ BudgetInv => RequestsWithinBudget
  <2> SUFFICES ASSUME LifecycleInv, BudgetInv PROVE RequestsWithinBudget
    OBVIOUS
  <2>1. \A c \in Calls : run[c] \in Runs \cup {NoRun}
    BY DEF LifecycleInv, TypeOK
  <2> QED
    BY <2>1 DEF BudgetInv, RequestsWithinBudget, Approvals, Created
<1> QED
  BY <1>1, <1>2, BudgetStep, LifecycleSafe, PTL DEF Spec

-----------------------------------------------------------------------------
(* ToolPlatform implements ToolAuthority                                    *)

(* An executor that has not reported belongs to a call that the budget      *)
(* counts, unless the call was cancelled with its parent run.               *)
SpentIsCounted ==
    \A c \in Calls : starts[c] = 1 /\ obs[c] = "none" =>
        \/ status[c] \in {"executing", "cancel_requested"}
        \/ /\ status[c] = "cancelled"
           /\ run[c] # NoRun
           /\ runState[run[c]] # "active"

LEMMA SpentStep ==
  ASSUME LifecycleInv, SpentIsCounted, [Next]_vars
  PROVE  SpentIsCounted'
<1> USE DEF LifecycleInv, TypeOK, SpentIsCounted
<1>1. CASE Request
  BY <1>1 DEF Request, RequestTool, StartedStatus, environment
<1>2. CASE Decision
  <2> PICK k \in Calls, a \in Devices :
          \/ BeginDecision(k, a)
          \/ AbandonDecision(k, a)
          \/ DecideParentOver(k, a)
          \/ DecideExpired(k, a)
          \/ \E approve \in BOOLEAN : Decide(k, a, approve)
    BY <1>2 DEF Decision
  <2>1. CASE BeginDecision(k, a) \/ AbandonDecision(k, a)
    BY <2>1 DEF BeginDecision, AbandonDecision, callRow, environment
  <2>2. CASE \/ DecideParentOver(k, a) \/ DecideExpired(k, a)
             \/ \E approve \in BOOLEAN : Decide(k, a, approve)
    <3>1. starts[k] = 0
      BY <2>2 DEF DecideParentOver, DecideExpired, Decide, DecisionLocked, Undecided,
                  ApprovalTracksCall, StartedStatus
    <3> QED
      BY <2>2, <3>1 DEF DecideParentOver, DecideExpired, Decide, DecisionLocked, SetCall, environment
  <2> QED BY <2>1, <2>2
<1>3. CASE Execution
  <2> PICK k \in Calls :
          \/ ExecuteParentOver(k)
          \/ \E t \in ReadClock : ExecuteExpired(k, t) \/ StartExecution(k, t)
          \/ \E o \in ObservationStatus : Finalize(k, o)
          \/ LoseWorker(k)
    BY <1>3 DEF Execution
  <2>1. CASE ExecuteParentOver(k)
    BY <2>1 DEF ExecuteParentOver, ExecutionLocked, ParentOver, SetCall, environment
  <2>2. CASE \E t \in ReadClock : ExecuteExpired(k, t)
    BY <2>2 DEF ExecuteExpired, ExecutionLocked, SetCall, StartedStatus, environment
  <2>3. CASE \E t \in ReadClock : StartExecution(k, t)
    BY <2>3 DEF StartExecution, ExecutionLocked, environment
  <2>4. CASE \E o \in ObservationStatus : Finalize(k, o)
    BY <2>4 DEF Finalize, ObservationStatus, environment
  <2>5. CASE LoseWorker(k)
    BY <2>5 DEF LoseWorker, callRow, environment
  <2> QED BY <2>1, <2>2, <2>3, <2>4, <2>5
<1>4. CASE Cancellation
  BY <1>4 DEF Cancellation, CancelRunning, CancelBeforeStart, CancelDelivered,
              CancelUndelivered, SetCall, StartedStatus, callRow, environment
<1>5. CASE Sweep
  BY <1>5 DEF Sweep, ExpirePending, StartedStatus, environment
<1>6. CASE Reconcile
  BY <1>6 DEF Reconcile, Stale, environment
<1>7. CASE Environment
  BY <1>7 DEF Environment, Tick, RevokeDevice, CloseSession, RequestRunCancel, EndRun,
              ChangeAvailability, callRow
<1>8. CASE Restart \/ UNCHANGED vars
  BY <1>8 DEF Restart, vars, callRow, environment
<1> QED BY <1>1, <1>2, <1>3, <1>4, <1>5, <1>6, <1>7, <1>8 DEF Next

-----------------------------------------------------------------------------
(* The mapping                                                              *)

LEMMA NextPhase ==
  /\ phase' = [c \in Calls |-> CallPhase(c)']
  /\ anchor' = [c \in Calls |-> CallAnchor(c)']
BY DEF phase, anchor

(* Which phase a status means.                                              *)
LEMMA PhaseOf ==
  ASSUME LifecycleInv, NEW c \in Calls
  PROVE  /\ status[c] = "absent" => phase[c] = "none"
         /\ status[c] = "awaiting_approval" => phase[c] = "offered"
         /\ status[c] = "approved" => phase[c] = "granted"
         /\ starts[c] = 1 /\ obs[c] = "none" => phase[c] = "spent"
         /\ starts[c] \in {0, 1}
<1> USE DEF LifecycleInv, TypeOK, AuthorityUsedOnce, StartedStatus
<1>1. starts[c] \in {0, 1}
  OBVIOUS
<1>2. phase[c] = CallPhase(c)
  BY DEF phase
<1> QED
  BY <1>1, <1>2 DEF CallPhase

(* A step that is no request keeps the anchors.                             *)
LEMMA AnchorsStay ==
  ASSUME LifecycleInv, [Next]_vars, ~Request
  PROVE  anchor' = anchor
<1>1. \A c \in Calls : CallAnchor(c)' = CallAnchor(c)
  BY RowsStay DEF CallAnchor
<1> QED
  BY <1>1, NextPhase DEF anchor

LEMMA Annulled ==
  ASSUME NEW S \in SUBSET Calls, \A c \in S : phase[c] \in {"offered", "granted"},
         \A c \in Calls : CallPhase(c)' = IF c \in S THEN "void" ELSE phase[c],
         anchor' = anchor, obs' = obs
  PROVE  Authority!Next
<1>1. phase' = [c \in Calls |-> IF c \in S THEN "void" ELSE phase[c]]
  BY NextPhase
<1>2. Authority!Annul(S)
  BY <1>1 DEF Authority!Annul
<1> QED
  BY <1>2 DEF Authority!Next

LEMMA Unmoved ==
  ASSUME \A c \in Calls : CallPhase(c)' = CallPhase(c), anchor' = anchor, obs' = obs
  PROVE  Authority!Next
<1>1. PICK S \in SUBSET Calls : S = {}
  OBVIOUS
<1>2. \A c \in Calls : CallPhase(c)' = IF c \in S THEN "void" ELSE phase[c]
  BY <1>1 DEF phase
<1>3. \A c \in S : phase[c] \in {"offered", "granted"}
  BY <1>1
<1> QED
  BY <1>2, <1>3, Annulled

-----------------------------------------------------------------------------
(* The steps                                                                *)

LEMMA RequestProposes ==
  ASSUME LifecycleInv, NEW k \in Calls, NEW r \in Runs \cup {NoRun}, NEW t \in ReadClock,
         RequestTool(k, r, t)
  PROVE  Authority!Next
<1> USE DEF LifecycleInv, TypeOK
<1>1. PICK s \in {"denied", "approved", "awaiting_approval"} :
        status' = [status EXCEPT ![k] = s]
  <2>1. Permission(k) \in {"deny", "require_approval", "allow"}
    BY DEF Permission
  <2> QED
    BY <2>1 DEF RequestTool
<1>2. /\ status[k] = "absent" /\ run' = [run EXCEPT ![k] = r]
      /\ obs' = obs /\ starts' = starts
  BY DEF RequestTool
<1>3. starts[k] = 0
  BY <1>2 DEF StartedStatus
<1> DEFINE a == CallAnchor(k)'
           p == CallPhase(k)'
<1>4. a \in Anchors
  BY <1>1, <1>2, ConstantsAssumption
     DEF CallAnchor, Anchors, RunAnchor, DeviceAnchor, Device, ConstantsAssumption
<1>5. p \in {"offered", "granted", "void"}
  BY <1>1, <1>2, <1>3 DEF CallPhase
<1>6. \A c \in Calls \ {k} : CallPhase(c)' = CallPhase(c) /\ CallAnchor(c)' = CallAnchor(c)
  BY <1>1, <1>2 DEF CallPhase, CallAnchor
<1> HIDE DEF a, p
<1>7. phase' = [phase EXCEPT ![k] = p] /\ anchor' = [anchor EXCEPT ![k] = a]
  BY <1>6, NextPhase DEF phase, anchor, a, p
<1>8. phase[k] = "none"
  BY <1>2, PhaseOf
<1>9. Authority!Propose(k, a, p) /\ p \in Authority!Phase
  BY <1>2, <1>5, <1>7, <1>8 DEF Authority!Propose, Authority!Phase
<1> QED
  BY <1>4, <1>9 DEF Authority!Next

LEMMA DecisionGrants ==
  ASSUME LifecycleInv, NEW k \in Calls, NEW a \in Devices,
         \/ DecideParentOver(k, a) \/ DecideExpired(k, a)
         \/ \E approve \in BOOLEAN : Decide(k, a, approve),
         anchor' = anchor
  PROVE  Authority!Next
<1> USE DEF LifecycleInv, TypeOK
<1>1. status[k] = "awaiting_approval" /\ obs' = obs /\ starts' = starts
  BY DEF DecideParentOver, DecideExpired, Decide, DecisionLocked, Undecided, ApprovalTracksCall
<1>2. starts[k] = 0 /\ phase[k] = "offered"
  BY <1>1, PhaseOf DEF StartedStatus
<1>3. PICK s \in {"cancelled", "expired", "approved", "rejected"} :
        status' = [status EXCEPT ![k] = s]
  BY DEF DecideParentOver, DecideExpired, Decide, SetCall
<1>4. \A c \in Calls \ {k} : CallPhase(c)' = CallPhase(c)
  BY <1>1, <1>3 DEF CallPhase
<1>5. CASE s = "approved"
  <2>1. CallPhase(k)' = "granted"
    BY <1>1, <1>2, <1>3, <1>5 DEF CallPhase
  <2>2. phase' = [phase EXCEPT ![k] = "granted"]
    BY <1>4, <2>1, NextPhase DEF phase
  <2>3. Authority!Grant(k)
    BY <1>1, <1>2, <2>2 DEF Authority!Grant
  <2> QED
    BY <2>3 DEF Authority!Next
<1>6. CASE s # "approved"
  <2>1. CallPhase(k)' = "void"
    BY <1>1, <1>2, <1>3, <1>6 DEF CallPhase
  <2>2. PICK S \in SUBSET Calls : S = {k}
    OBVIOUS
  <2>3. \A c \in Calls : CallPhase(c)' = IF c \in S THEN "void" ELSE phase[c]
    BY <1>4, <2>1, <2>2 DEF phase
  <2>4. \A c \in S : phase[c] \in {"offered", "granted"}
    BY <1>2, <2>2
  <2> QED
    BY <1>1, <2>3, <2>4, Annulled
<1> QED
  BY <1>5, <1>6

(* A call is ended before it started: an expired or cancelled authority.    *)
LEMMA EndsUnstarted ==
  ASSUME LifecycleInv, NEW k \in Calls, status[k] \in {"awaiting_approval", "approved"},
         NEW s \in {"cancelled", "expired"}, status' = [status EXCEPT ![k] = s],
         obs' = obs, starts' = starts, anchor' = anchor
  PROVE  Authority!Next
<1> USE DEF LifecycleInv, TypeOK
<1>1. starts[k] = 0 /\ phase[k] \in {"offered", "granted"}
  BY PhaseOf DEF StartedStatus
<1>2. CallPhase(k)' = "void"
  BY <1>1 DEF CallPhase
<1>3. \A c \in Calls \ {k} : CallPhase(c)' = CallPhase(c)
  BY DEF CallPhase
<1>4. PICK S \in SUBSET Calls : S = {k}
  OBVIOUS
<1>5. \A c \in Calls : CallPhase(c)' = IF c \in S THEN "void" ELSE phase[c]
  BY <1>2, <1>3, <1>4 DEF phase
<1>6. \A c \in S : phase[c] \in {"offered", "granted"}
  BY <1>1, <1>4
<1> QED
  BY <1>5, <1>6, Annulled

(* A started call changes its status without an observation.                *)
LEMMA StaysSpent ==
  ASSUME LifecycleInv, NEW k \in Calls, status[k] \in {"executing", "cancel_requested"},
         NEW s \in {"cancelled", "cancel_requested"}, status' = [status EXCEPT ![k] = s],
         obs' = obs, starts' = starts, anchor' = anchor
  PROVE  Authority!Next
<1> USE DEF LifecycleInv, TypeOK
<1>1. starts[k] = 1
  BY DEF StartedStatus
<1>2. \A c \in Calls : CallPhase(c)' = CallPhase(c)
  BY <1>1 DEF CallPhase
<1> QED
  BY <1>2, Unmoved

(* The budget query counts every call that the anchor has in use.           *)
LEMMA StartFindsSlot ==
  ASSUME LifecycleInv, SpentIsCounted, NEW k \in Calls, NEW t \in ReadClock,
         StartExecution(k, t)
  PROVE  Authority!SlotFree(k)
<1> DEFINE Counted == {x \in Anchored(k, run[k]) : status[x] \in OccupyingStatus}
           Used == {x \in Calls : anchor[x] = anchor[k] /\ Authority!InUse(x)}
<1>1. Cardinality(Counted) < MaxExecutions
  BY DEF StartExecution, WithinExecutionBudget
<1>2. status[k] = "approved" /\ (run[k] # NoRun => runState[run[k]] = "active")
  BY DEF StartExecution, Consumable, ParentOver
<1>3. ASSUME NEW x \in Used PROVE x \in Counted
  <2>1. CallAnchor(x) = CallAnchor(k)
    BY DEF anchor
  <2>2. /\ run[k] \in Runs \cup {NoRun} /\ run[x] \in Runs \cup {NoRun}
        /\ Device(k) \in Devices /\ Device(x) \in Devices
    BY ConstantsAssumption DEF LifecycleInv, TypeOK, ConstantsAssumption, Device
  <2>3. status[x] # "absent" /\ run[x] = run[k] /\ (run[k] = NoRun => Device(x) = Device(k))
    BY <1>2, <2>1, <2>2, ConstantsAssumption
       DEF CallAnchor, RunAnchor, DeviceAnchor, ConstantsAssumption
  <2>4. status[x] \in OccupyingStatus
    <3>1. CASE phase[x] = "spent"
      <4>1. starts[x] = 1 /\ obs[x] = "none"
        <5>1. CallPhase(x) = "spent" /\ starts[x] \in {0, 1}
          BY <3>1, PhaseOf DEF phase
        <5> QED
          BY <5>1 DEF CallPhase
      <4> QED
        BY <1>2, <2>3, <4>1 DEF SpentIsCounted, OccupyingStatus
    <3>2. CASE obs[x] = "succeeded"
      BY <3>2 DEF LifecycleInv, TruthfulObservation, OccupyingStatus
    <3> QED
      BY <3>1, <3>2 DEF Authority!InUse
  <2> QED
    BY <2>3, <2>4 DEF Anchored
<1>4. Counted \in SUBSET Calls /\ Used \in SUBSET Counted
  BY <1>3 DEF Anchored
<1>5. IsFiniteSet(Counted)
  BY <1>4, FiniteCalls
<1>6. Cardinality(Used) < MaxExecutions
  <2> HIDE DEF Counted, Used
  <2>1. IsFiniteSet(Used) /\ Cardinality(Used) <= Cardinality(Counted)
    BY <1>4, <1>5, FS_Subset
  <2>2. Cardinality(Used) \in Nat /\ Cardinality(Counted) \in Nat /\ MaxExecutions \in Nat
    BY <1>5, <2>1, FS_CardinalityType, ConstantsAssumption DEF ConstantsAssumption
  <2> QED
    BY <1>1, <2>1, <2>2
<1>7. Authority!Cardinality(Used) = Cardinality(Used)
  BY DEF Authority!Cardinality, Cardinality
<1> QED
  BY <1>6, <1>7 DEF Authority!SlotFree

LEMMA StartSpends ==
  ASSUME LifecycleInv, SpentIsCounted, NEW k \in Calls, NEW t \in ReadClock,
         StartExecution(k, t), anchor' = anchor
  PROVE  Authority!Next
<1> USE DEF LifecycleInv, TypeOK
<1>1. /\ status[k] = "approved" /\ status' = [status EXCEPT ![k] = "executing"]
      /\ starts' = [starts EXCEPT ![k] = @ + 1] /\ obs' = obs
  BY DEF StartExecution, ExecutionLocked, Consumable
<1>2. starts[k] = 0 /\ obs[k] = "none" /\ phase[k] = "granted"
  BY <1>1, PhaseOf DEF StartedStatus, TruthfulObservation
<1>3. CallPhase(k)' = "spent"
  BY <1>1, <1>2 DEF CallPhase
<1>4. \A c \in Calls \ {k} : CallPhase(c)' = CallPhase(c)
  BY <1>1 DEF CallPhase
<1>5. phase' = [phase EXCEPT ![k] = "spent"]
  BY <1>3, <1>4, NextPhase DEF phase
<1>6. Authority!Spend(k)
  BY <1>1, <1>2, <1>5, StartFindsSlot DEF Authority!Spend
<1> QED
  BY <1>6 DEF Authority!Next

(* An observation settles the calls that were started without one.          *)
LEMMA Settled ==
  ASSUME LifecycleInv, NEW S \in SUBSET Calls, NEW o \in ObservationStatus,
         \A c \in S : starts[c] = 1 /\ obs[c] = "none",
         status' = [c \in Calls |-> IF c \in S THEN o ELSE status[c]],
         obs' = [c \in Calls |-> IF c \in S THEN o ELSE obs[c]],
         starts' = starts, anchor' = anchor
  PROVE  Authority!Next
<1> USE DEF LifecycleInv, TypeOK
<1>1. o # "none" /\ o # "absent" /\ o \in Authority!Outcome
  BY DEF ObservationStatus, Authority!Outcome
<1>2. ASSUME NEW c \in Calls
      PROVE  CallPhase(c)' = IF c \in S THEN "settled" ELSE phase[c]
  <2>1. CASE c \in S
    <3>1. status'[c] = o /\ obs'[c] = o /\ starts'[c] = 1
      BY <2>1
    <3> QED
      BY <1>1, <2>1, <3>1 DEF CallPhase
  <2>2. CASE c \notin S
    <3>1. status'[c] = status[c] /\ obs'[c] = obs[c] /\ starts'[c] = starts[c]
      BY <2>2
    <3> QED
      BY <2>2, <3>1 DEF CallPhase, phase
  <2> QED
    BY <2>1, <2>2
<1>3. phase' = [c \in Calls |-> IF c \in S THEN "settled" ELSE phase[c]]
  BY <1>2, NextPhase
<1>4. \A c \in S : phase[c] = "spent"
  BY PhaseOf
<1>5. Authority!Settle(S, o)
  BY <1>1, <1>3, <1>4 DEF Authority!Settle
<1> QED
  BY <1>1, <1>5 DEF Authority!Next

LEMMA SweepAnnuls ==
  ASSUME LifecycleInv, Sweep, anchor' = anchor
  PROVE  Authority!Next
<1> USE DEF LifecycleInv, TypeOK
<1> PICK t \in ReadClock : ExpirePending(t)
  BY DEF Sweep
<1> DEFINE dead == {c \in Calls : /\ approval[c] = "pending" /\ Expired(c, t)
                                  /\ status[c] = "awaiting_approval"}
<1>1. /\ status' = [c \in Calls |-> IF c \in dead THEN "expired" ELSE status[c]]
      /\ obs' = obs /\ starts' = starts
  BY DEF ExpirePending
<1>2. \A c \in dead : starts[c] = 0 /\ phase[c] = "offered"
  BY PhaseOf DEF StartedStatus
<1>3. dead \in SUBSET Calls
  OBVIOUS
<1> HIDE DEF dead
<1>4. ASSUME NEW c \in Calls
      PROVE  CallPhase(c)' = IF c \in dead THEN "void" ELSE phase[c]
  <2>1. CASE c \in dead
    BY <1>1, <1>2, <2>1 DEF CallPhase
  <2>2. CASE c \notin dead
    BY <1>1, <2>2 DEF CallPhase, phase
  <2> QED
    BY <2>1, <2>2
<1> QED
  BY <1>1, <1>2, <1>3, <1>4, Annulled

-----------------------------------------------------------------------------
(* The refinement                                                           *)

LEMMA AuthorityInit == Init => Authority!Init
<1> SUFFICES ASSUME Init PROVE Authority!Init
  OBVIOUS
<1>1. \A c \in Calls : CallPhase(c) = "none" /\ CallAnchor(c) = RunAnchor(NoRun)
  BY DEF Init, CallPhase, CallAnchor
<1> QED
  BY <1>1 DEF Init, phase, anchor, Authority!Init

LEMMA AuthorityNext ==
  LifecycleInv /\ SpentIsCounted /\ [Next]_vars => [Authority!Next]_(Authority!vars)
<1> SUFFICES ASSUME LifecycleInv, SpentIsCounted, [Next]_vars PROVE Authority!Next
  OBVIOUS
<1>1. CASE Request
  BY <1>1, RequestProposes DEF Request
<1>2. CASE ~Request
  <2>0. anchor' = anchor
    BY <1>2, AnchorsStay
  <2>1. CASE UNCHANGED <<status, obs, starts>>
    <3>1. \A c \in Calls : CallPhase(c)' = CallPhase(c)
      BY <2>1 DEF CallPhase
    <3> QED
      BY <2>0, <2>1, <3>1, Unmoved
  <2>2. ASSUME NEW k \in Calls, NEW a \in Devices,
               \/ DecideParentOver(k, a) \/ DecideExpired(k, a)
               \/ \E approve \in BOOLEAN : Decide(k, a, approve)
        PROVE  Authority!Next
    BY <2>0, <2>2, DecisionGrants
  <2>3. ASSUME NEW k \in Calls, ExecuteParentOver(k) PROVE Authority!Next
    <3>1. /\ status' = [status EXCEPT ![k] = "cancelled"] /\ UNCHANGED <<obs, starts>>
          /\ status[k] \in {"awaiting_approval", "approved", "executing", "cancel_requested"}
      BY <2>3 DEF ExecuteParentOver, ExecutionLocked, Dispatchable, SetCall, LifecycleInv,
                  TypeOK, CallStatus
    <3> QED
      BY <2>0, <3>1, EndsUnstarted, StaysSpent
  <2>4. ASSUME NEW k \in Calls, NEW t \in ReadClock, ExecuteExpired(k, t)
        PROVE  Authority!Next
    <3>1. /\ status' = [status EXCEPT ![k] = "expired"] /\ UNCHANGED <<obs, starts>>
          /\ status[k] = "approved"
      BY <2>4 DEF ExecuteExpired, ExecutionLocked, SetCall
    <3> QED
      BY <2>0, <3>1, EndsUnstarted
  <2>5. ASSUME NEW k \in Calls, NEW t \in ReadClock, StartExecution(k, t)
        PROVE  Authority!Next
    BY <2>0, <2>5, StartSpends
  <2>6. ASSUME NEW k \in Calls, NEW o \in ObservationStatus, Finalize(k, o)
        PROVE  Authority!Next
    <3>1. starts[k] = 1 /\ obs[k] = "none"
      BY <2>6 DEF Finalize, LifecycleInv, WorkerOwnsCall
    <3>2. PICK S \in SUBSET Calls : S = {k}
      BY <2>6
    <3>3. /\ status' = [c \in Calls |-> IF c \in S THEN o ELSE status[c]]
          /\ obs' = [c \in Calls |-> IF c \in S THEN o ELSE obs[c]]
          /\ starts' = starts
      BY <2>6, <3>2 DEF Finalize, LifecycleInv, TypeOK
    <3>4. \A c \in S : starts[c] = 1 /\ obs[c] = "none"
      BY <3>1, <3>2
    <3> QED
      BY <2>0, <3>3, <3>4, Settled
  <2>7. ASSUME NEW k \in Calls, CancelRunning(k) PROVE Authority!Next
    <3>1. /\ status' = [status EXCEPT ![k] = "cancel_requested"] /\ UNCHANGED <<obs, starts>>
          /\ status[k] = "executing"
      BY <2>7 DEF CancelRunning, SetCall
    <3> QED
      BY <2>0, <3>1, StaysSpent
  <2>8. ASSUME NEW k \in Calls, CancelBeforeStart(k) PROVE Authority!Next
    <3>1. /\ status' = [status EXCEPT ![k] = "cancelled"] /\ UNCHANGED <<obs, starts>>
          /\ status[k] \in {"awaiting_approval", "approved"}
      BY <2>8 DEF CancelBeforeStart, SetCall
    <3> QED
      BY <2>0, <3>1, EndsUnstarted
  <2>9. CASE Sweep
    BY <2>0, <2>9, SweepAnnuls
  <2>10. CASE Reconcile
    <3>1. \A c \in Stale : starts[c] = 1 /\ obs[c] = "none"
      BY DEF Stale, LifecycleInv, TypeOK, StartedStatus, TruthfulObservation, ObservationStatus
    <3>2. /\ status' = [c \in Calls |-> IF c \in Stale THEN "failed" ELSE status[c]]
          /\ obs' = [c \in Calls |-> IF c \in Stale THEN "failed" ELSE obs[c]]
          /\ starts' = starts
      BY <2>10 DEF Reconcile
    <3>3. Stale \in SUBSET Calls /\ "failed" \in ObservationStatus
      BY DEF Stale, ObservationStatus
    <3> QED
      BY <2>0, <3>1, <3>2, <3>3, Settled
  <2>11. CASE \/ \E k \in Calls, a \in Devices : BeginDecision(k, a) \/ AbandonDecision(k, a)
              \/ \E k \in Calls : LoseWorker(k) \/ CancelDelivered(k) \/ CancelUndelivered(k)
              \/ Restart \/ Environment \/ UNCHANGED vars
    <3>1. UNCHANGED <<status, obs, starts>>
      BY <2>11 DEF BeginDecision, AbandonDecision, LoseWorker, CancelDelivered,
                   CancelUndelivered, Restart, Environment, vars, callRow
    <3> QED
      BY <2>1, <3>1
  <2> QED
    BY <1>2, <2>2, <2>3, <2>4, <2>5, <2>6, <2>7, <2>8, <2>9, <2>10, <2>11
       DEF Next, Decision, Execution, Cancellation
<1> QED
  BY <1>1, <1>2

(* Whatever races, restarts and failed commits there are, authority is      *)
(* offered or granted once, spent at most once and within the budget of its *)
(* anchor, and never given back.                                            *)
THEOREM AuthorityIsImplemented == Spec => ImplementsAuthority
<1>1. Init => SpentIsCounted
  BY DEF Init, SpentIsCounted
<1> QED
  BY <1>1, SpentStep, AuthorityInit, AuthorityNext, LifecycleSafe, PTL
     DEF Spec, ImplementsAuthority, Authority!Spec

-----------------------------------------------------------------------------
(* What the liveness of the calls rests on *)

Started(c) == status[c] \in {"executing", "cancel_requested"}
StartedHasWorker ==
    ready => \A c \in Calls : Started(c) => c \in running /\ obs[c] = "none"
StartedGoesOn ==
    \A c \in Calls :
        /\ status[c] = "executing" => Started(c)' \/ status'[c] \in TerminalStatus
        /\ status[c] = "cancel_requested" =>
              status'[c] \in {"cancel_requested"} \cup TerminalStatus

LEMMA StepKeepsWorker ==
  ASSUME LifecycleInv, [Next]_vars
  PROVE  /\ ~StoreFails /\ StartedHasWorker =>
               \A c \in Calls : ready' /\ Started(c)' => c \in running'
         /\ StartedGoesOn
<1> USE DEF LifecycleInv, TypeOK, Started, StartedGoesOn, TerminalStatus
<1>1. CASE Request
  <2> PICK k \in Calls, r \in Runs \cup {NoRun}, t \in ReadClock : RequestTool(k, r, t)
    BY <1>1 DEF Request
  <2>1. PICK s \in {"denied", "approved", "awaiting_approval"} : status' = [status EXCEPT ![k] = s]
    BY DEF RequestTool, Permission
  <2>2. UNCHANGED <<ready, running>> /\ status[k] = "absent"
    BY DEF RequestTool, process
  <2> QED BY <2>1, <2>2 DEF StartedHasWorker
<1>2. CASE Decision
  <2>1. UNCHANGED <<ready, running>>
    BY <1>2 DEF Decision, BeginDecision, AbandonDecision, DecideParentOver, DecideExpired,
                Decide, DecisionLocked
  <2>2. \/ UNCHANGED status
        \/ \E k \in Calls : status[k] = "awaiting_approval" /\
             \E s \in {"cancelled", "expired", "approved", "rejected"} :
               status' = [status EXCEPT ![k] = s]
    BY <1>2 DEF Decision, BeginDecision, AbandonDecision, DecideParentOver, DecideExpired,
                Decide, DecisionLocked, Undecided, ApprovalTracksCall, SetCall, callRow
  <2> QED BY <2>1, <2>2 DEF StartedHasWorker
<1>3. CASE Execution
  <2> PICK k \in Calls :
          \/ ExecuteParentOver(k)
          \/ \E t \in ReadClock : ExecuteExpired(k, t) \/ StartExecution(k, t)
          \/ \E o \in ObservationStatus : Finalize(k, o)
          \/ LoseWorker(k)
    BY <1>3 DEF Execution
  <2>1. CASE ExecuteParentOver(k) \/ \E t \in ReadClock : ExecuteExpired(k, t)
    <3>1. UNCHANGED <<ready, running>> /\ \E s \in {"cancelled", "expired"} :
            status' = [status EXCEPT ![k] = s]
      BY <2>1 DEF ExecuteParentOver, ExecuteExpired, ExecutionLocked, SetCall
    <3> QED BY <3>1 DEF StartedHasWorker
  <2>2. CASE \E t \in ReadClock : StartExecution(k, t)
    <3>1. /\ ready /\ ready' /\ status[k] = "approved" /\ running' = running \cup {k}
          /\ status' = [status EXCEPT ![k] = "executing"]
      BY <2>2 DEF StartExecution, ExecutionLocked, Consumable
    <3> QED BY <3>1 DEF StartedHasWorker
  <2>3. CASE \E o \in ObservationStatus : Finalize(k, o)
    <3>1. /\ ready' = ready /\ running' = running \ {k}
          /\ \E o \in ObservationStatus : status' = [status EXCEPT ![k] = o]
      BY <2>3 DEF Finalize
    <3> QED BY <3>1 DEF StartedHasWorker, ObservationStatus
  <2>4. CASE LoseWorker(k)
    BY <2>4 DEF LoseWorker, callRow
  <2> QED BY <2>1, <2>2, <2>3, <2>4
<1>4. CASE Cancellation
  <2>1. UNCHANGED <<ready, running>>
    BY <1>4 DEF Cancellation, CancelRunning, CancelBeforeStart, CancelDelivered,
                CancelUndelivered, process
  <2>2. \/ UNCHANGED status
        \/ \E k \in Calls : /\ status[k] = "executing"
                            /\ status' = [status EXCEPT ![k] = "cancel_requested"]
        \/ \E k \in Calls : /\ status[k] \in {"awaiting_approval", "approved"}
                            /\ status' = [status EXCEPT ![k] = "cancelled"]
    BY <1>4 DEF Cancellation, CancelRunning, CancelBeforeStart, CancelDelivered,
                CancelUndelivered, SetCall, callRow
  <2> QED BY <2>1, <2>2 DEF StartedHasWorker
<1>5. CASE Sweep
  <2>1. UNCHANGED <<ready, running>> /\ \A c \in Calls :
          status'[c] = status[c] \/ (status[c] = "awaiting_approval" /\ status'[c] = "expired")
    BY <1>5 DEF Sweep, ExpirePending, process
  <2> QED BY <2>1 DEF StartedHasWorker
<1>6. CASE Reconcile
  <2>1. \A c \in Calls : status'[c] = IF Started(c) THEN "failed" ELSE status[c]
    BY <1>6 DEF Reconcile, Stale
  <2> QED BY <2>1
<1>7. CASE Restart \/ Environment \/ UNCHANGED vars
  <2>1. status' = status /\ (ready' => ready /\ running' = running)
    BY <1>7 DEF Restart, Environment, vars, callRow, process
  <2> QED BY <2>1 DEF StartedHasWorker
<1> QED BY <1>1, <1>2, <1>3, <1>4, <1>5, <1>6, <1>7 DEF Next

LEMMA StartedStep ==
  ASSUME LifecycleInv, StartedHasWorker, ~StoreFails, [Next]_vars
  PROVE  StartedHasWorker'
<1>1. LifecycleInv'
  BY LifecycleInductive
<1>2. \A c \in Calls : c \in running' => obs'[c] = "none"
  BY <1>1 DEF LifecycleInv, WorkerOwnsCall
<1> QED
  BY <1>2, StepKeepsWorker DEF StartedHasWorker

(* While the last transactions of the workers do not fail, a call that      *)
(* started has a worker that can still store its observation, unless the    *)
(* process stopped and the reconciliation has yet to find the call: none is *)
(* left to nobody (execute_tool_call, reconcile_stale_executing).           *)
THEOREM StartedHaveWorkers == ~StoreFails /\ Spec => []StartedHasWorker
<1> SUFFICES ASSUME ~StoreFails PROVE Spec => []StartedHasWorker
  OBVIOUS
<1>1. Init => StartedHasWorker
  BY DEF Init, StartedHasWorker
<1>2. LifecycleInv /\ StartedHasWorker /\ [Next]_vars => StartedHasWorker'
  BY StartedStep
<1> QED
  BY <1>1, <1>2, LifecycleSafe, PTL DEF Spec

(* And it only goes on, even when transactions fail: no handler takes a     *)
(* started call back to waiting or approved, and a requested cancellation   *)
(* is never taken back (cancel_tool_call, execute_tool_call).               *)
THEOREM StartedOnlyGoOn == Spec => [][StartedGoesOn]_vars
<1>1. LifecycleInv /\ [Next]_vars => [StartedGoesOn]_vars
  BY StepKeepsWorker
<1> QED
  BY <1>1, LifecycleSafe, PTL DEF Spec
=============================================================================
