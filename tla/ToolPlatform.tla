---------------------------- MODULE ToolPlatform ----------------------------
(***************************************************************************)
(* The durable tool-call lifecycle of                                      *)
(* src/src/personal_ai_os/tools/service.py: proposal, policy decision,     *)
(* owner approval, consumption of the authority, execution outside the     *)
(* transaction, the observation, cancellation, expiry and the startup      *)
(* reconciliation of calls whose worker died with the process.             *)
(*                                                                         *)
(* Every action is one committed transaction (or one step between two      *)
(* transactions of the same handler).  A handler that raises rolls its     *)
(* transaction back and is not a step.  The transactions are atomic        *)
(* because each locks the Device, AgentRun, ConversationSession and        *)
(* ToolCall rows it depends on before it reads them; the two reads that    *)
(* are NOT under those locks, the clock and the authority of the approving *)
(* device, are modelled as reads of an earlier moment.                     *)
(*                                                                         *)
(* A call is identified by its idempotency key (device, tool, key), so     *)
(* CallDevice and CallTool are constants; a replayed request finds the row *)
(* and changes nothing.                                                    *)
(***************************************************************************)
EXTENDS Integers, FiniteSets

CONSTANTS
    Calls,          \* idempotency identities of tool calls
    Devices,        \* enrolled devices of the owner
    Runs,           \* agent runs a call may be bound to
    NoRun,          \* the null run_id
    NoDevice,       \* the null decision_device_id
    Tools,          \* descriptors of the registry
    CallDevice,     \* the device whose principal requests the call
    CallTool,       \* the descriptor the call names
    RunDevices,     \* session device and request device of a run
    Granted,        \* tools whose scopes and capabilities a device holds
    Approvers,      \* devices that hold the scope approval.decide
    ExactTools,     \* tools that need an exact owner approval
    ForbiddenTools, \* disabled, forbidden or sandbox-forbidden tools
    Ttl,            \* lifetime of an approval of a tool
    RateMax,        \* requests of a tool allowed in a window
    Window,         \* length of the rate window
    MaxProposals,   \* MAX_PROPOSALS_PER_RUN
    MaxExecutions,  \* MAX_EXECUTIONS_PER_RUN
    MaxApprovals,   \* MAX_APPROVALS_PER_RUN
    MaxTime,        \* bound of the model's clock
    MaxDeciding,    \* bound of decisions in flight
    StoreFails      \* whether a worker's last transaction may fail

ASSUME ConstantsAssumption ==
    /\ IsFiniteSet(Calls)
    /\ NoRun \notin Runs
    /\ NoDevice \notin Devices
    /\ CallDevice \in [Calls -> Devices]
    /\ CallTool \in [Calls -> Tools]
    /\ RunDevices \in [Runs -> SUBSET Devices]
    /\ Granted \in [Devices -> SUBSET Tools]
    /\ Approvers \subseteq Devices
    /\ ExactTools \subseteq Tools
    /\ ForbiddenTools \subseteq Tools
    /\ Ttl \in [Tools -> Nat]
    /\ RateMax \in [Tools -> Nat]
    /\ Window \in Nat
    /\ MaxProposals \in Nat
    /\ MaxExecutions \in Nat
    /\ MaxApprovals \in Nat
    /\ MaxTime \in Nat
    /\ MaxDeciding \in Nat
    /\ StoreFails \in BOOLEAN

VARIABLES
    (* rows of tool_calls; "absent" is no row *)
    status, run, createdAt, decision, reason,
    (* rows of approvals: status, consumed_at is set, decision_device_id *)
    approval, consumed, decider,
    (* tool_observations: status of the row of the call, if any *)
    obs,
    (* audit_events: the result field of the latest event of the call *)
    audited,
    (* memory of the Core process *)
    ready,     \* ToolReconciliationGate._ready
    bootAt,    \* when the process started
    running,   \* calls whose executor this process is running
    cancelling,\* cancellations between their two transactions
    deciding,  \* decisions whose approver has been checked
    (* the rest of the system *)
    now, active, sessionOpen, runState, available,
    (* history: how often the executor of a call was invoked *)
    starts

callRow == <<status, run, createdAt, decision, reason>>
approvalRow == <<approval, consumed, decider>>
process == <<ready, bootAt, running, cancelling, deciding>>
environment == <<now, active, sessionOpen, runState, available>>
vars == <<callRow, approvalRow, obs, audited, process, environment, starts>>

TerminalStatus ==
    {"succeeded", "failed", "cancelled", "rejected", "denied", "expired"}
CallStatus ==
    TerminalStatus \cup
    {"absent", "awaiting_approval", "approved", "executing", "cancel_requested"}
ApprovalStatus ==
    {"none", "pending", "approved", "rejected", "expired", "cancelled", "consumed"}
DecisionKind == {"none", "deny", "require_approval", "allow"}
ObservationStatus == {"succeeded", "failed", "cancelled"}
Reason ==
    {"none", "policy", "owner_approved", "owner_rejected", "approval_expired",
     "parent_run_cancelled", "caller_cancel_requested", "caller_cancelled",
     "cancellation_not_delivered", "stale_execution_reconciled"}
RunState == {"active", "cancel_requested", "terminal"}

Tool(c) == CallTool[c]
Device(c) == CallDevice[c]

-----------------------------------------------------------------------------
(* Budgets, rate limit, policy and parent checks *)

(* The existing calls counted against the run r, or, for calls without a   *)
(* run, against the device of c (the query of the three budgets).          *)
Anchored(c, r) ==
    {x \in Calls : /\ status[x] # "absent"
                   /\ run[x] = r
                   /\ r = NoRun => Device(x) = Device(c)}

OccupyingStatus_NoCancelRequested == {"executing", "succeeded"}
OccupyingStatus == {"executing", "cancel_requested", "succeeded"}

WithinProposalBudget_OneMore(c, r) == Cardinality(Anchored(c, r)) <= MaxProposals
WithinProposalBudget(c, r) == Cardinality(Anchored(c, r)) < MaxProposals

(* The count runs before the decision of the new call is flushed, because   *)
(* the session factory turns autoflush off (db/engine.py): it sees the      *)
(* other calls only, and compares with >.                                   *)
WithinApprovalBudget_OneMore(c, r) ==
    Cardinality({x \in Anchored(c, r) : decision[x] = "require_approval"})
        <= MaxApprovals + 1
WithinApprovalBudget(c, r) ==
    Cardinality({x \in Anchored(c, r) : decision[x] = "require_approval"})
        <= MaxApprovals

WithinExecutionBudget(c) ==
    Cardinality({x \in Anchored(c, run[c]) : status[x] \in OccupyingStatus})
        < MaxExecutions

WithinRate_OpenWindow(c, t) ==
    Cardinality({x \in Calls : /\ status[x] # "absent"
                               /\ Device(x) = Device(c)
                               /\ Tool(x) = Tool(c)
                               /\ createdAt[x] > t - Window})
        < RateMax[Tool(c)]
WithinRate(c, t) ==
    Cardinality({x \in Calls : /\ status[x] # "absent"
                               /\ Device(x) = Device(c)
                               /\ Tool(x) = Tool(c)
                               /\ createdAt[x] >= t - Window})
        < RateMax[Tool(c)]

(* _validate_context_binding: what a request bound to run r needs of it.    *)
BindableRun(c, r) ==
    r # NoRun => /\ Device(c) \in RunDevices[r]
                 /\ sessionOpen[r]
                 /\ runState[r] # "terminal"

Permission(c) ==
    IF Tool(c) \notin Granted[Device(c)] \/ ~available[Tool(c)] \/ Tool(c) \in ForbiddenTools
    THEN "deny"
    ELSE IF Tool(c) \in ExactTools THEN "require_approval" ELSE "allow"

(* _revalidate_parent_context, for a principal of device d: the session of  *)
(* the parent run must be open and attributed to d, or the handler raises.  *)
ParentReachable(c, d) ==
    run[c] # NoRun => d \in RunDevices[run[c]] /\ sessionOpen[run[c]]
ParentOver(c) == run[c] # NoRun /\ runState[run[c]] # "active"

Expired(c, t) == createdAt[c] + Ttl[Tool(c)] <= t

(* Moments at which a handler that commits now may have read its clock.     *)
ReadClock == bootAt .. now

(* The call row, its reason and the audit event written with it.            *)
SetCall_Unaudited(c, s, why) ==
    /\ status' = [status EXCEPT ![c] = s]
    /\ reason' = [reason EXCEPT ![c] = why]
    /\ UNCHANGED <<audited, run, createdAt, decision>>
SetCall(c, s, why) ==
    /\ status' = [status EXCEPT ![c] = s]
    /\ reason' = [reason EXCEPT ![c] = why]
    /\ audited' = [audited EXCEPT ![c] = s]
    /\ UNCHANGED <<run, createdAt, decision>>

SetApproval(c, s) == approval' = [approval EXCEPT ![c] = s]

-----------------------------------------------------------------------------
Init ==
    /\ status = [c \in Calls |-> "absent"]
    /\ run = [c \in Calls |-> NoRun]
    /\ createdAt = [c \in Calls |-> 0]
    /\ decision = [c \in Calls |-> "none"]
    /\ reason = [c \in Calls |-> "none"]
    /\ approval = [c \in Calls |-> "none"]
    /\ consumed = [c \in Calls |-> FALSE]
    /\ decider = [c \in Calls |-> NoDevice]
    /\ obs = [c \in Calls |-> "none"]
    /\ audited = [c \in Calls |-> "absent"]
    /\ ready = FALSE
    /\ bootAt = 0
    /\ running = {}
    /\ cancelling = {}
    /\ deciding = {}
    /\ now = 0
    /\ active = [d \in Devices |-> TRUE]
    /\ sessionOpen = [r \in Runs |-> TRUE]
    /\ runState = [r \in Runs |-> "active"]
    /\ available = [x \in Tools |-> TRUE]
    /\ starts = [c \in Calls |-> 0]

(* request_tool, for a key that has no row yet.  The clock is read before   *)
(* the device is locked.                                                    *)
RequestTool(c, r, t) ==
    /\ ready
    /\ status[c] = "absent"
    /\ active[Device(c)]
    /\ BindableRun(c, r)
    /\ WithinRate(c, t)
    /\ WithinProposalBudget(c, r)
    /\ Permission(c) = "require_approval" => WithinApprovalBudget(c, r)
    /\ LET verdict == Permission(c)
           s == CASE verdict = "deny" -> "denied"
                  [] verdict = "allow" -> "approved"
                  [] verdict = "require_approval" -> "awaiting_approval"
       IN  /\ status' = [status EXCEPT ![c] = s]
           /\ audited' = [audited EXCEPT ![c] = s]
           /\ decision' = [decision EXCEPT ![c] = verdict]
           /\ SetApproval(c, IF verdict = "require_approval" THEN "pending" ELSE "none")
    /\ run' = [run EXCEPT ![c] = r]
    /\ createdAt' = [createdAt EXCEPT ![c] = t]
    /\ reason' = [reason EXCEPT ![c] = "policy"]
    /\ UNCHANGED <<consumed, decider, obs, process, environment, starts>>

(* decide_approval, first half: _require_persisted_authority reads the      *)
(* approving device a without a lock.                                       *)
BeginDecision(c, a) ==
    /\ ready
    /\ approval[c] # "none"
    /\ a \in Approvers
    /\ active[a]
    /\ Cardinality(deciding) < MaxDeciding
    /\ deciding' = deciding \cup {<<c, a>>}
    /\ UNCHANGED <<callRow, approvalRow, obs, audited, ready, bootAt, running,
                   cancelling, environment, starts>>

(* The transaction of a decision was rolled back.                           *)
AbandonDecision(c, a) ==
    /\ <<c, a>> \in deciding
    /\ deciding' = deciding \ {<<c, a>>}
    /\ UNCHANGED <<callRow, approvalRow, obs, audited, ready, bootAt, running,
                   cancelling, environment, starts>>

(* Only a pending approval is decided.                                      *)
Undecided_OrExpired(c) == approval[c] \in {"pending", "expired"}
Undecided(c) == approval[c] = "pending"

(* decide_approval, second half, under the locks of the REQUESTING device,  *)
(* the run, the session, the call and the approval.                         *)
DecisionLocked(c, a) ==
    /\ <<c, a>> \in deciding
    /\ active[Device(c)]
    /\ Undecided(c)
    /\ ParentReachable(c, a)
    /\ deciding' = deciding \ {<<c, a>>}
    /\ UNCHANGED <<consumed, obs, ready, bootAt, running, cancelling, environment, starts>>

DecideParentOver(c, a) ==
    /\ DecisionLocked(c, a)
    /\ ParentOver(c)
    /\ SetCall(c, "cancelled", "parent_run_cancelled")
    /\ SetApproval(c, "cancelled")
    /\ UNCHANGED decider

DecideExpired(c, a) ==
    /\ DecisionLocked(c, a)
    /\ ~ParentOver(c)
    /\ Expired(c, now)
    /\ SetCall(c, "expired", "approval_expired")
    /\ SetApproval(c, "expired")
    /\ UNCHANGED decider

Decide(c, a, approve) ==
    /\ DecisionLocked(c, a)
    /\ ~ParentOver(c)
    /\ ~Expired(c, now)
    /\ decider' = [decider EXCEPT ![c] = a]
    /\ IF approve
       THEN SetCall(c, "approved", "owner_approved") /\ SetApproval(c, "approved")
       ELSE SetCall(c, "rejected", "owner_rejected") /\ SetApproval(c, "rejected")

(* A terminal call returns its observation, or raises tool_call_terminal.   *)
Dispatchable_Failed(c) ==
    status[c] # "absent" /\ status[c] \notin TerminalStatus \ {"failed"}
Dispatchable(c) == status[c] # "absent" /\ status[c] \notin TerminalStatus

(* execute_tool_call, first transaction: the guards every branch that       *)
(* commits shares.                                                          *)
ExecutionLocked(c) ==
    /\ ready
    /\ Dispatchable(c)
    /\ active[Device(c)]
    /\ ParentReachable(c, Device(c))
    /\ Tool(c) \in Granted[Device(c)]
    /\ Tool(c) \notin ForbiddenTools
    /\ available[Tool(c)]
    /\ approval[c] = "none" => Tool(c) \notin ExactTools
    /\ UNCHANGED <<decider, obs, ready, bootAt, cancelling, deciding, environment>>

ExecuteParentOver(c) ==
    /\ ExecutionLocked(c)
    /\ ParentOver(c)
    /\ SetCall(c, "cancelled", "parent_run_cancelled")
    /\ SetApproval(c, IF approval[c] = "none" THEN "none" ELSE "cancelled")
    /\ UNCHANGED <<consumed, running, starts>>

ExecuteExpired(c, t) ==
    /\ ExecutionLocked(c)
    /\ ~ParentOver(c)
    /\ status[c] = "approved"
    /\ approval[c] = "approved"
    /\ Expired(c, t)
    /\ SetCall(c, "expired", "approval_expired")
    /\ SetApproval(c, "expired")
    /\ UNCHANGED <<consumed, running, starts>>

(* The authority of c is consumable at time t: policy allowed it, or its    *)
(* approval is approved and has not expired.                                *)
Consumable_Retry(c, t) ==
    /\ status[c] \in {"approved", "executing"}
    /\ approval[c] # "none" => approval[c] \in {"approved", "consumed"} /\ ~Expired(c, t)
Consumable(c, t) ==
    /\ status[c] = "approved"
    /\ approval[c] # "none" => approval[c] = "approved" /\ ~Expired(c, t)

(* The approval is consumed, the call starts, the executor is invoked.      *)
StartExecution(c, t) ==
    /\ ExecutionLocked(c)
    /\ ~ParentOver(c)
    /\ Consumable(c, t)
    /\ WithinExecutionBudget(c)
    /\ status' = [status EXCEPT ![c] = "executing"]
    /\ audited' = [audited EXCEPT ![c] = "executing"]
    /\ UNCHANGED <<run, createdAt, decision, reason>>
    /\ SetApproval(c, IF approval[c] = "none" THEN "none" ELSE "consumed")
    /\ consumed' = [consumed EXCEPT ![c] = (approval[c] # "none")]
    /\ running' = running \cup {c}
    /\ starts' = [starts EXCEPT ![c] = @ + 1]

(* execute_tool_call, last transaction: the executor answered o, or raised  *)
(* ("failed").  Only the ToolCall row is locked and its status is not       *)
(* looked at again; tool_observations.tool_call_id is unique.               *)
Finalize(c, o) ==
    /\ c \in running
    /\ obs[c] = "none"
    /\ running' = running \ {c}
    /\ status' = [status EXCEPT ![c] = o]
    /\ obs' = [obs EXCEPT ![c] = o]
    /\ audited' = [audited EXCEPT ![c] = o]
    /\ UNCHANGED <<run, createdAt, decision, reason, approvalRow, ready, bootAt,
                   cancelling, deciding, environment, starts>>

(* The last transaction could not be committed: the worker is gone and the  *)
(* call keeps its status.                                                   *)
LoseWorker(c) ==
    /\ StoreFails
    /\ c \in running
    /\ running' = running \ {c}
    /\ UNCHANGED <<callRow, approvalRow, obs, audited, ready, bootAt, cancelling,
                   deciding, environment, starts>>

(* cancel_tool_call, first transaction.                                     *)
CancelRunning(c) ==
    /\ ready
    /\ active[Device(c)]
    /\ status[c] = "executing"
    /\ SetCall(c, "cancel_requested", "caller_cancel_requested")
    /\ cancelling' = cancelling \cup {c}
    /\ UNCHANGED <<approvalRow, obs, ready, bootAt, running, deciding, environment, starts>>

CancelBeforeStart_KeepsApproval(c) ==
    /\ ready
    /\ active[Device(c)]
    /\ status[c] \in {"awaiting_approval", "approved"}
    /\ SetCall(c, "cancelled", "caller_cancelled")
    /\ UNCHANGED <<approvalRow, obs, process, environment, starts>>
CancelBeforeStart(c) ==
    /\ ready
    /\ active[Device(c)]
    /\ status[c] \in {"awaiting_approval", "approved"}
    /\ SetCall(c, "cancelled", "caller_cancelled")
    /\ SetApproval(c, IF approval[c] \in {"pending", "approved"} THEN "cancelled" ELSE approval[c])
    /\ UNCHANGED <<consumed, decider, obs, process, environment, starts>>

(* The executor took the cancellation.                                      *)
CancelDelivered(c) ==
    /\ c \in cancelling
    /\ cancelling' = cancelling \ {c}
    /\ UNCHANGED <<callRow, approvalRow, obs, audited, ready, bootAt, running,
                   deciding, environment, starts>>

(* It did not: the second transaction tests the status of the ORM object    *)
(* loaded by the first one (with_for_update without populate_existing, and  *)
(* expire_on_commit off), which is still "cancel_requested".                *)
CancelUndelivered(c) ==
    /\ c \in cancelling
    /\ cancelling' = cancelling \ {c}
    /\ reason' = [reason EXCEPT ![c] = "cancellation_not_delivered"]
    /\ audited' = [audited EXCEPT ![c] = "cancel_requested"]
    /\ UNCHANGED <<status, run, createdAt, decision, approvalRow, obs, ready, bootAt,
                   running, deciding, environment, starts>>

(* expire_pending: one sweep over the pending approvals past their expiry.  *)
ExpirePending(t) ==
    LET due == {c \in Calls : approval[c] = "pending" /\ Expired(c, t)}
        dead == {c \in due : status[c] = "awaiting_approval"}
    IN  /\ ready
        /\ due # {}
        /\ approval' = [c \in Calls |-> IF c \in due THEN "expired" ELSE approval[c]]
        /\ status' = [c \in Calls |-> IF c \in dead THEN "expired" ELSE status[c]]
        /\ reason' = [c \in Calls |-> IF c \in dead THEN "approval_expired" ELSE reason[c]]
        /\ audited' = [c \in Calls |-> IF c \in dead THEN "expired" ELSE audited[c]]
        /\ UNCHANGED <<run, createdAt, decision, consumed, decider, obs, process,
                       environment, starts>>

(* ToolReconciliationGate.attempt with reconcile_stale_executing: once per  *)
(* process, before any protected operation.                                 *)
Stale_OnlyExecuting == {c \in Calls : status[c] = "executing"}
Stale == {c \in Calls : status[c] \in {"executing", "cancel_requested"}}
GateClosed_Never == TRUE
GateClosed == ~ready
Reconcile ==
    /\ GateClosed
    /\ ready' = TRUE
    /\ status' = [c \in Calls |-> IF c \in Stale THEN "failed" ELSE status[c]]
    /\ obs' = [c \in Calls |-> IF c \in Stale THEN "failed" ELSE obs[c]]
    /\ audited' = [c \in Calls |-> IF c \in Stale THEN "failed" ELSE audited[c]]
    /\ reason' = [c \in Calls |-> IF c \in Stale THEN "stale_execution_reconciled"
                                                 ELSE reason[c]]
    /\ UNCHANGED <<run, createdAt, decision, approvalRow, bootAt, running, cancelling,
                   deciding, environment, starts>>

(* The Core process dies and starts again: everything in memory is lost.    *)
Restart ==
    /\ ready' = FALSE
    /\ bootAt' = now
    /\ running' = {}
    /\ cancelling' = {}
    /\ deciding' = {}
    /\ UNCHANGED <<callRow, approvalRow, obs, audited, environment, starts>>

-----------------------------------------------------------------------------
(* The rest of the system, as the service sees it *)

Tick ==
    /\ now < MaxTime
    /\ now' = now + 1
    /\ UNCHANGED <<active, sessionOpen, runState, available>>

RevokeDevice(d) ==
    /\ active[d]
    /\ active' = [active EXCEPT ![d] = FALSE]
    /\ UNCHANGED <<now, sessionOpen, runState, available>>

CloseSession(r) ==
    /\ sessionOpen[r]
    /\ sessionOpen' = [sessionOpen EXCEPT ![r] = FALSE]
    /\ UNCHANGED <<now, active, runState, available>>

(* ConversationRunService: a run is asked to cancel, or ends.               *)
RequestRunCancel(r) ==
    /\ runState[r] = "active"
    /\ runState' = [runState EXCEPT ![r] = "cancel_requested"]
    /\ UNCHANGED <<now, active, sessionOpen, available>>

EndRun(r) ==
    /\ runState[r] # "terminal"
    /\ runState' = [runState EXCEPT ![r] = "terminal"]
    /\ UNCHANGED <<now, active, sessionOpen, available>>

(* A satellite connects, disconnects or goes stale.                         *)
ChangeAvailability(x) ==
    /\ available' = [available EXCEPT ![x] = ~@]
    /\ UNCHANGED <<now, active, sessionOpen, runState>>

Environment ==
    /\ \/ Tick
       \/ \E d \in Devices : RevokeDevice(d)
       \/ \E r \in Runs : CloseSession(r) \/ RequestRunCancel(r) \/ EndRun(r)
       \/ \E x \in Tools : ChangeAvailability(x)
    /\ UNCHANGED <<callRow, approvalRow, obs, audited, process, starts>>

-----------------------------------------------------------------------------
Request == \E c \in Calls, r \in Runs \cup {NoRun}, t \in ReadClock : RequestTool(c, r, t)

Decision ==
    \E c \in Calls, a \in Devices :
        \/ BeginDecision(c, a)
        \/ AbandonDecision(c, a)
        \/ DecideParentOver(c, a)
        \/ DecideExpired(c, a)
        \/ \E approve \in BOOLEAN : Decide(c, a, approve)

Execution ==
    \E c \in Calls :
        \/ ExecuteParentOver(c)
        \/ \E t \in ReadClock : ExecuteExpired(c, t) \/ StartExecution(c, t)
        \/ \E o \in ObservationStatus : Finalize(c, o)
        \/ LoseWorker(c)

Cancellation ==
    \E c \in Calls :
        \/ CancelRunning(c)
        \/ CancelBeforeStart(c)
        \/ CancelDelivered(c)
        \/ CancelUndelivered(c)

Sweep == \E t \in ReadClock : ExpirePending(t)

Next ==
    \/ Request
    \/ Decision
    \/ Execution
    \/ Cancellation
    \/ Sweep
    \/ Reconcile
    \/ Restart
    \/ Environment

Spec == Init /\ [][Next]_vars

(* The executors bound their own time and the worker thread then commits;   *)
(* the gate is tried at startup and again before every protected request.   *)
Fairness ==
    /\ \A c \in Calls : WF_vars(\E o \in ObservationStatus : Finalize(c, o))
    /\ WF_vars(Reconcile)

FairSpec == Spec /\ Fairness

-----------------------------------------------------------------------------
(* Properties *)

(* Every variable has its type; no row is created in the future.            *)
TypeOK ==
    /\ status \in [Calls -> CallStatus]
    /\ run \in [Calls -> Runs \cup {NoRun}]
    /\ createdAt \in [Calls -> 0 .. now]
    /\ decision \in [Calls -> DecisionKind]
    /\ reason \in [Calls -> Reason]
    /\ approval \in [Calls -> ApprovalStatus]
    /\ consumed \in [Calls -> BOOLEAN]
    /\ decider \in [Calls -> Devices \cup {NoDevice}]
    /\ obs \in [Calls -> ObservationStatus \cup {"none"}]
    /\ audited \in [Calls -> CallStatus]
    /\ ready \in BOOLEAN
    /\ bootAt \in 0 .. now
    /\ running \subseteq Calls
    /\ cancelling \subseteq Calls
    /\ deciding \subseteq Calls \X Approvers
    /\ now \in 0 .. MaxTime
    /\ active \in [Devices -> BOOLEAN]
    /\ sessionOpen \in [Runs -> BOOLEAN]
    /\ runState \in [Runs -> RunState]
    /\ available \in [Tools -> BOOLEAN]
    /\ starts \in [Calls -> Nat]

(* However dispatches, cancellations, expiries and restarts interleave, the *)
(* executor of a call is invoked at most once, only after the policy        *)
(* allowed the call or a device with approval.decide approved it, and the   *)
(* approval is marked consumed exactly when the executor was invoked        *)
(* (execute_tool_call).                                                     *)
AuthorityUsedOnce ==
    \A c \in Calls :
        /\ starts[c] <= 1
        /\ consumed[c] <=> starts[c] = 1 /\ decision[c] = "require_approval"
        /\ starts[c] = 1 =>
              \/ decision[c] = "allow"
              \/ decision[c] = "require_approval" /\ decider[c] \in Approvers

(* The approval row and the call row, written by five different handlers,   *)
(* never contradict each other: a pending approval and a waiting call are   *)
(* the same thing, an approved call still owns its approval, a dead         *)
(* approval has a dead call, and only an approval cancelled with its parent *)
(* run after the start can belong to a call that was executed.              *)
ApprovalTracksCall ==
    \A c \in Calls :
        /\ (approval[c] # "none") <=> (decision[c] = "require_approval")
        /\ (approval[c] = "pending") <=> (status[c] = "awaiting_approval")
        /\ status[c] = "approved" => approval[c] \in {"none", "approved"}
        /\ approval[c] = "approved" => status[c] = "approved"
        /\ approval[c] \in {"rejected", "expired"} => status[c] = approval[c]
        /\ approval[c] = "consumed" => starts[c] = 1
        /\ approval[c] = "cancelled" => status[c] = "cancelled" \/ starts[c] = 1

(* A call reports success or failure exactly when an observation row says   *)
(* so, and an observation exists only for a call whose executor was         *)
(* invoked: no handler overwrites a settled call.                           *)
TruthfulObservation ==
    \A c \in Calls :
        /\ obs[c] # "none" => obs[c] = status[c] /\ starts[c] = 1
        /\ status[c] \in {"succeeded", "failed"} => obs[c] = status[c]

(* A live worker owns an unsettled call: the startup reconciliation never   *)
(* settles a call whose executor is running in this process, and a worker   *)
(* never loses its call to anything but the cancellation of the parent run. *)
WorkerOwnsCall ==
    \A c \in running :
        /\ ready
        /\ starts[c] = 1
        /\ obs[c] = "none"
        /\ \/ status[c] \in {"executing", "cancel_requested"}
           \/ status[c] = "cancelled"
                /\ reason[c] \in {"parent_run_cancelled", "cancellation_not_delivered"}

(* What the invariants above need to be inductive: the status tells whether *)
(* the executor was invoked, and an approved row has a positive decision.   *)
StartedStatus ==
    \A c \in Calls :
        /\ status[c] \in {"absent", "awaiting_approval", "approved"} => starts[c] = 0
        /\ status[c] \in {"executing", "cancel_requested"} => starts[c] = 1
        /\ approval[c] = "approved" => decider[c] \in Approvers
        /\ status[c] = "approved" => decision[c] \in {"allow", "require_approval"}

LifecycleInv ==
    /\ TypeOK
    /\ AuthorityUsedOnce
    /\ ApprovalTracksCall
    /\ TruthfulObservation
    /\ WorkerOwnsCall
    /\ StartedStatus

(* The latest audit event of a call carries its durable status, except for  *)
(* the report of an undelivered cancellation, which may come late.          *)
AuditFollowsStatus ==
    \A c \in Calls :
        audited[c] = status[c] \/ reason[c] = "cancellation_not_delivered"

(* A settled call without a live worker never changes its status, its       *)
(* observation or its approval again.                                       *)
SettledIsFinal ==
    [][\A c \in Calls :
           status[c] \in TerminalStatus /\ c \notin running =>
               /\ status'[c] = status[c]
               /\ obs'[c] = obs[c]
               /\ approval'[c] = approval[c]]_vars

(* No run, and no device without a run, owns more than                      *)
(* MAX_PROPOSALS_PER_RUN calls, whatever becomes of them, or more approvals *)
(* than the count of _enforce_approval_budget admits, which is one more     *)
(* than MAX_APPROVALS_PER_RUN (PromptsWithinBudget below is what the        *)
(* documentation promises); and in no window of time does a device create   *)
(* more calls of a tool than its rate limit, although requests read the     *)
(* clock before they queue for the device lock and commit out of its order. *)
RequestsWithinBudget ==
    \A c \in Calls :
        /\ Cardinality(Anchored(c, run[c])) <= MaxProposals
        /\ Cardinality({x \in Anchored(c, run[c]) : decision[x] = "require_approval"})
               <= MaxApprovals + 1
        /\ \A end \in 0 .. now :
             Cardinality({x \in Calls : /\ status[x] # "absent"
                                        /\ Device(x) = Device(c)
                                        /\ Tool(x) = Tool(c)
                                        /\ createdAt[x] \in end - Window .. end})
                 <= RateMax[Tool(c)]

(* A call that started settles, through its worker or, after a restart,     *)
(* through the reconciliation.                                              *)
StartedCallSettles ==
    \A c \in Calls :
        status[c] \in {"executing", "cancel_requested"} ~> status[c] \in TerminalStatus

-----------------------------------------------------------------------------
(* What the documentation says, and the code does not do *)

(* docs/phase_reports/PHASE_08_REPORT.md: a call cancelled with its parent  *)
(* run never reached the executor.                                          *)
ParentCancelledNeverStarted ==
    \A c \in Calls : reason[c] = "parent_run_cancelled" => starts[c] = 0

(* docs/security/PHASE_08_THREAT_MODEL.md: a run asks its owner for at most *)
(* MAX_APPROVALS_PER_RUN approvals (_enforce_approval_budget).              *)
PromptsWithinBudget ==
    \A r \in Runs :
        Cardinality({c \in Calls : run[c] = r /\ approval[c] # "none"}) <= MaxApprovals
=============================================================================
