---------------------------- MODULE Conversations ----------------------------
(***************************************************************************)
(* The text conversations of src/src/personal_ai_os/conversations: device  *)
(* sessions, idempotent message submission, one active agent run per       *)
(* conversation, the two-thread executor that runs the model gateway       *)
(* outside the transactions, cancellation, and the reconciliation gate.    *)
(*                                                                         *)
(* A submission spans several statements of one READ COMMITTED transaction *)
(* that locks only ITS session, so submissions of two sessions of one      *)
(* conversation interleave: the reads are steps of their own and the       *)
(* unique indexes decide when the rows are inserted.  A worker's last      *)
(* transaction is split the same way.  Every other action is one           *)
(* transaction.                                                            *)
(*                                                                         *)
(* A request is one HTTP submission.  The user message and the agent run   *)
(* it creates are named by it.                                             *)
(***************************************************************************)
EXTENDS Integers, FiniteSets, Sequences

CONSTANTS
    Requests,       \* submissions, and the message and run each may create
    NoRequest,      \* no submission
    Sessions,       \* conversation sessions
    Conversation,   \* the conversation of a session
    Owner,          \* the device of a session, author of its messages
    Keys,           \* client_message_id values
    Bodies,         \* content and requested model of a submission
    Workers,        \* max_workers of the executor's pool
    MaxStarts,      \* bound of process restarts
    StoreFails      \* whether a transaction may fail or lose its answer

ASSUME ConversationConstants ==
    /\ NoRequest \notin Requests
    /\ Sessions # {} /\ Keys # {} /\ Bodies # {}
    /\ Workers \in Nat \ {0}
    /\ MaxStarts \in Nat
    /\ StoreFails \in BOOLEAN

VARIABLES
    (* durable rows *)
    session,    \* status of a conversation_sessions row, "none" before it
    run,        \* status of the agent_runs row of a request, "none" before it
    messages,   \* conversation_messages
    log,        \* run_events of a session, in sequence order
    (* submissions in flight *)
    request,    \* where a submission is and what it carries
    locked,     \* the submission whose transaction holds a session row
    (* memory of the Core process *)
    ready,      \* ConversationReconciliationGate._ready
    backlog,    \* runs waiting for a worker of the pool
    work,       \* what a worker is doing with a run
    starts      \* process restarts so far

rows == <<session, run, messages, log>>
submissions == <<request, locked>>
executor == <<backlog, work>>
vars == <<rows, submissions, executor, ready, starts>>

ActiveStatus_NotRunning == {"queued", "cancel_requested"}
ActiveStatus == {"queued", "running", "cancel_requested"}
SettledStatus == {"succeeded", "failed", "cancelled"}
RunStatus == {"none"} \cup ActiveStatus \cup SettledStatus
Phase ==
    {"idle", "arrived", "checked", "numbered", "conflicted", "committed",
     "answered", "lost"}
Answer ==
    {"none", "accepted", "replayed", "busy", "conflict", "closed", "error"}
Work == {"none", "waiting", "taken", "generating", "replying", "failing"}
Event ==
    {"session.ready", "session.closed", "message.accepted", "run.queued",
     "run.started", "run.cancel_requested", "run.cancelled", "run.succeeded",
     "assistant.message.ready", "run.failed", "run.interrupted"}

Conv(q) == Conversation[request[q].session]
Author(q) == Owner[request[q].session]

-----------------------------------------------------------------------------
(* Queries of the repository *)

UserMessages(c) == {m \in messages : m.conv = c /\ m.role = "user"}

(* message_by_client_id: the requests whose message carries the key.        *)
SameKey(q) ==
    {m.turn : m \in {m \in UserMessages(Conv(q)) :
                        /\ Author(m.turn) = Author(q)
                        /\ request[m.turn].key = request[q].key}}

(* active_run and the partial unique index of agent_runs.                   *)
ActiveRuns(c) ==
    {m.turn : m \in {m \in UserMessages(c) : run[m.turn] \in ActiveStatus}}

Taken(c, n) == \E m \in messages : m.conv = c /\ m.ordinal = n

(* next_message_ordinal: one more than the largest ordinal.                 *)
LastOrdinal(c) ==
    CHOOSE n \in {0} \cup {m.ordinal : m \in messages} :
        /\ n = 0 \/ Taken(c, n)
        /\ \A m \in messages : m.conv = c => m.ordinal <= n
NextOrdinal(c) == LastOrdinal(c) + 1

Busy == {q \in Requests : work[q] \in {"taken", "generating", "replying", "failing"}}
Free(s) == locked[s] = NoRequest

(* _emit: append to the log of the session, under the session's row lock.   *)
Emit(s, events, q) ==
    log' = [log EXCEPT ![s] =
              @ \o [i \in 1..Len(events) |-> [event |-> events[i], turn |-> q]]]

EmitRun(q, events) ==
    /\ Free(request[q].session)
    /\ Emit(request[q].session, events, q)

-----------------------------------------------------------------------------
(* Sessions *)

CreateSession(s) ==
    /\ ready
    /\ session[s] = "none"
    /\ session' = [session EXCEPT ![s] = "active"]
    /\ Emit(s, <<"session.ready">>, NoRequest)
    /\ UNCHANGED <<run, messages, submissions, executor, ready, starts>>

(* Closing again changes nothing.  The runs of the session go on.           *)
CloseSession(s) ==
    /\ ready
    /\ session[s] = "active"
    /\ Free(s)
    /\ session' = [session EXCEPT ![s] = "closed"]
    /\ Emit(s, <<"session.closed">>, NoRequest)
    /\ UNCHANGED <<run, messages, submissions, executor, ready, starts>>

-----------------------------------------------------------------------------
(* submit_message *)

(* The answer found by the key, or "none" when the key is new.              *)
AnswerByKey(q) ==
    IF SameKey(q) = {} THEN "none"
    ELSE IF \A x \in SameKey(q) : request[x].body = request[q].body
         THEN "replayed" ELSE "conflict"

(* A submission arrives.                                                    *)
Arrive(q, s, k, b) ==
    /\ ready
    /\ request[q].phase = "idle"
    /\ session[s] # "none"
    /\ request' = [request EXCEPT ![q] =
           [@ EXCEPT !.phase = "arrived", !.session = s, !.key = k, !.body = b]]
    /\ UNCHANGED <<rows, locked, executor, ready, starts>>

(* Under the lock of its session, the transaction answers at once, or goes  *)
(* on to insert a message and a run.                                        *)
CheckSubmission(q) ==
    /\ request[q].phase = "arrived"
    /\ Free(request[q].session)
    /\ LET answer ==
             IF session[request[q].session] # "active" THEN "closed"
             ELSE IF AnswerByKey(q) # "none" THEN AnswerByKey(q)
             ELSE IF ActiveRuns(Conv(q)) # {} THEN "busy" ELSE "none"
       IN  IF answer = "none"
           THEN /\ request' = [request EXCEPT ![q].phase = "checked"]
                /\ locked' = [locked EXCEPT ![request[q].session] = q]
           ELSE /\ request' = [request EXCEPT ![q].phase = "answered",
                                              ![q].answer = answer]
                /\ UNCHANGED locked
    /\ UNCHANGED <<rows, executor, ready, starts>>

NumberMessage(q) ==
    /\ request[q].phase = "checked"
    /\ request' = [request EXCEPT ![q].phase = "numbered",
                                  ![q].ordinal = NextOrdinal(Conv(q))]
    /\ UNCHANGED <<rows, locked, executor, ready, starts>>

(* The unique indexes: ordinal, client id, one active run.                  *)
ClientIdUnique_Absent(q) == TRUE
ClientIdUnique(q) == SameKey(q) = {}
OneActiveRunUnique_Absent(q) == TRUE
OneActiveRunUnique(q) == ActiveRuns(Conv(q)) = {}
OrdinalUnique(q) == ~Taken(Conv(q), request[q].ordinal)

Unlock(q) == locked' = [locked EXCEPT ![request[q].session] = NoRequest]

(* The rows are inserted and committed.  When the answer of the commit is   *)
(* lost the handler raises and the run is never handed to the executor.     *)
CommitSubmission(q) ==
    /\ request[q].phase = "numbered"
    /\ ClientIdUnique(q) /\ OneActiveRunUnique(q) /\ OrdinalUnique(q)
    /\ messages' = messages \cup
           {[conv |-> Conv(q), ordinal |-> request[q].ordinal, role |-> "user", turn |-> q]}
    /\ run' = [run EXCEPT ![q] = "queued"]
    /\ Emit(request[q].session, <<"message.accepted", "run.queued">>, q)
    /\ Unlock(q)
    /\ \E p \in IF StoreFails THEN {"committed", "lost"} ELSE {"committed"} :
          request' = [request EXCEPT ![q].phase = p]
    /\ UNCHANGED <<session, executor, ready, starts>>

(* An insert violates a unique index: IntegrityError, rollback.             *)
SubmissionConflicts(q) ==
    /\ request[q].phase = "numbered"
    /\ ~(ClientIdUnique(q) /\ OneActiveRunUnique(q) /\ OrdinalUnique(q))
    /\ request' = [request EXCEPT ![q].phase = "conflicted"]
    /\ Unlock(q)
    /\ UNCHANGED <<rows, executor, ready, starts>>

(* After the rollback the winner is looked for; none may be left.           *)
ResolveConflict(q) ==
    /\ request[q].phase = "conflicted"
    /\ LET answer == IF AnswerByKey(q) # "none" THEN AnswerByKey(q)
                     ELSE IF ActiveRuns(Conv(q)) # {} THEN "busy" ELSE "error"
       IN  request' = [request EXCEPT ![q].phase = "answered", ![q].answer = answer]
    /\ UNCHANGED <<rows, locked, executor, ready, starts>>

SubmissionFails(q) ==
    /\ StoreFails
    /\ request[q].phase \in {"checked", "numbered"}
    /\ request' = [request EXCEPT ![q].phase = "lost"]
    /\ Unlock(q)
    /\ UNCHANGED <<rows, executor, ready, starts>>

(* The handler hands the committed run to the executor and answers 202.     *)
Enqueue(q) ==
    /\ request[q].phase = "committed"
    /\ request' = [request EXCEPT ![q].phase = "answered", ![q].answer = "accepted"]
    /\ backlog' = Append(backlog, q)
    /\ work' = [work EXCEPT ![q] = "waiting"]
    /\ UNCHANGED <<rows, locked, ready, starts>>

-----------------------------------------------------------------------------
(* cancel_run.  The run's row is locked while a worker stores its reply.    *)
CancelQueued(q) ==
    /\ ready
    /\ run[q] = "queued"
    /\ run' = [run EXCEPT ![q] = "cancelled"]
    /\ EmitRun(q, <<"run.cancelled">>)
    /\ UNCHANGED <<session, messages, submissions, executor, ready, starts>>

CancelRunning(q) ==
    /\ ready
    /\ run[q] = "running"
    /\ work[q] # "replying"
    /\ run' = [run EXCEPT ![q] = "cancel_requested"]
    /\ EmitRun(q, <<"run.cancel_requested">>)
    /\ UNCHANGED <<session, messages, submissions, executor, ready, starts>>

-----------------------------------------------------------------------------
(* The executor: execute_run and its exception boundary *)

Working(q, w) == work' = [work EXCEPT ![q] = w]

TakeRun ==
    /\ backlog # <<>>
    /\ Cardinality(Busy) < Workers
    /\ backlog' = Tail(backlog)
    /\ Working(Head(backlog), "taken")
    /\ UNCHANGED <<rows, submissions, ready, starts>>

Startable_Unsettled(q) == run[q] # "succeeded"
Startable(q) == run[q] = "queued"

StartRun(q) ==
    /\ work[q] = "taken"
    /\ Startable(q)
    /\ run' = [run EXCEPT ![q] = "running"]
    /\ EmitRun(q, <<"run.started">>)
    /\ Working(q, "generating")
    /\ UNCHANGED <<session, messages, submissions, backlog, ready, starts>>

SkipRun(q) ==
    /\ work[q] = "taken"
    /\ ~Startable(q)
    /\ Working(q, "none")
    /\ UNCHANGED <<rows, submissions, backlog, ready, starts>>

(* _finalize_response of a valid response: the ordinal is read under the    *)
(* lock of the run, then the rows are inserted under that of the session.   *)
Deliverable(q) == run[q] = "running"

NumberReply(q) ==
    /\ work[q] = "generating"
    /\ Deliverable(q)
    /\ request' = [request EXCEPT ![q].ordinal = NextOrdinal(Conv(q))]
    /\ Working(q, "replying")
    /\ UNCHANGED <<rows, locked, backlog, ready, starts>>

CommitReply(q) ==
    /\ work[q] = "replying"
    /\ ~Taken(Conv(q), request[q].ordinal)
    /\ messages' = messages \cup
           {[conv |-> Conv(q), ordinal |-> request[q].ordinal,
             role |-> "assistant", turn |-> q]}
    /\ run' = [run EXCEPT ![q] = "succeeded"]
    /\ EmitRun(q, <<"run.succeeded", "assistant.message.ready">>)
    /\ \E w \in IF StoreFails THEN {"none", "failing"} ELSE {"none"} : Working(q, w)
    /\ UNCHANGED <<session, submissions, backlog, ready, starts>>

(* The gateway failed or its response is invalid: run.failed.               *)
FailRun(q) ==
    /\ work[q] = "generating"
    /\ run[q] = "running"
    /\ run' = [run EXCEPT ![q] = "failed"]
    /\ EmitRun(q, <<"run.failed">>)
    /\ Working(q, "none")
    /\ UNCHANGED <<session, messages, submissions, backlog, ready, starts>>

(* Whatever the gateway answered, a requested cancellation wins.            *)
FinishCancelled(q) ==
    /\ work[q] = "generating"
    /\ run[q] = "cancel_requested"
    /\ run' = [run EXCEPT ![q] = "cancelled"]
    /\ EmitRun(q, <<"run.cancelled">>)
    /\ Working(q, "none")
    /\ UNCHANGED <<session, messages, submissions, backlog, ready, starts>>

(* A transaction of the worker raises: a failed statement, a lost           *)
(* connection, or an ordinal that another message took.                     *)
WorkerFails(q) ==
    /\ \/ StoreFails /\ work[q] \in {"taken", "generating", "replying"}
       \/ work[q] = "replying" /\ Taken(Conv(q), request[q].ordinal)
    /\ Working(q, "failing")
    /\ UNCHANGED <<rows, submissions, backlog, ready, starts>>

(* fail_unexpected_run, in a new transaction.                               *)
Unsettled_Any(q) == TRUE
Unsettled(q) == run[q] \in ActiveStatus

RecordFailure(q) ==
    /\ work[q] = "failing"
    /\ Unsettled(q)
    /\ LET cancelled == run[q] = "cancel_requested"
       IN  /\ run' = [run EXCEPT ![q] = IF cancelled THEN "cancelled" ELSE "failed"]
           /\ EmitRun(q, <<IF cancelled THEN "run.cancelled" ELSE "run.failed">>)
    /\ Working(q, "none")
    /\ UNCHANGED <<session, messages, submissions, backlog, ready, starts>>

(* The run is settled already, or recording the failure fails as well: the  *)
(* worker drops the run as it is.                                           *)
DropRun(q) ==
    /\ work[q] = "failing"
    /\ StoreFails \/ ~Unsettled(q)
    /\ Working(q, "none")
    /\ UNCHANGED <<rows, submissions, backlog, ready, starts>>

-----------------------------------------------------------------------------
(* The process stops, gracefully or not, and another one starts.            *)
Restart ==
    /\ starts < MaxStarts
    /\ starts' = starts + 1
    /\ ready' = FALSE
    /\ backlog' = <<>>
    /\ work' = [q \in Requests |-> "none"]
    /\ request' = [q \in Requests |->
           IF request[q].phase \in {"idle", "answered"} THEN request[q]
           ELSE [request[q] EXCEPT !.phase = "lost"]]
    /\ locked' = [s \in Sessions |-> NoRequest]
    /\ UNCHANGED rows

(* ConversationReconciliationGate.attempt: once in a process, before any    *)
(* handler runs.                                                            *)
GateClosed_Never == TRUE
GateClosed == ~ready

Interrupted_Started(q) == run[q] \in {"running", "cancel_requested"}
Interrupted(q) == run[q] \in ActiveStatus

Reconcile ==
    /\ GateClosed
    /\ \A s \in Sessions : Free(s)
    /\ run' = [q \in Requests |-> IF Interrupted(q) THEN "failed" ELSE run[q]]
    /\ log' = [s \in Sessions |->
           LET lost == {q \in Requests : Interrupted(q) /\ request[q].session = s}
           IN  IF lost = {} THEN log[s]
               ELSE Append(log[s], [event |-> "run.interrupted",
                                    turn |-> CHOOSE q \in lost : TRUE])]
    /\ ready' = TRUE
    /\ UNCHANGED <<session, messages, submissions, executor, starts>>

-----------------------------------------------------------------------------
Init ==
    /\ session = [s \in Sessions |-> "none"]
    /\ run = [q \in Requests |-> "none"]
    /\ messages = {}
    /\ log = [s \in Sessions |-> <<>>]
    /\ request = [q \in Requests |->
           [phase |-> "idle", session |-> CHOOSE s \in Sessions : TRUE,
            key |-> CHOOSE k \in Keys : TRUE, body |-> CHOOSE b \in Bodies : TRUE,
            ordinal |-> 0, answer |-> "none"]]
    /\ locked = [s \in Sessions |-> NoRequest]
    /\ ready = FALSE
    /\ backlog = <<>>
    /\ work = [q \in Requests |-> "none"]
    /\ starts = 0

Submit(q) ==
    \/ CheckSubmission(q)
    \/ NumberMessage(q)
    \/ CommitSubmission(q)
    \/ SubmissionConflicts(q)
    \/ ResolveConflict(q)
    \/ SubmissionFails(q)
    \/ Enqueue(q)

Execute(q) ==
    \/ StartRun(q)
    \/ SkipRun(q)
    \/ NumberReply(q)
    \/ CommitReply(q)
    \/ FailRun(q)
    \/ FinishCancelled(q)
    \/ WorkerFails(q)
    \/ RecordFailure(q)
    \/ DropRun(q)

Next ==
    \/ \E s \in Sessions : CreateSession(s) \/ CloseSession(s)
    \/ \E q \in Requests, s \in Sessions, k \in Keys, b \in Bodies : Arrive(q, s, k, b)
    \/ \E q \in Requests : Submit(q) \/ CancelQueued(q) \/ CancelRunning(q)
    \/ TakeRun
    \/ \E q \in Requests : Execute(q)
    \/ Restart
    \/ Reconcile

Spec == Init /\ [][Next]_vars

(* Handlers and workers go on once they started, the pool takes what waits, *)
(* and the gate is tried at startup and again by every request.  Clients    *)
(* promise nothing.                                                         *)
FairSpec ==
    /\ Spec
    /\ \A q \in Requests : WF_vars(Submit(q)) /\ WF_vars(Execute(q))
    /\ WF_vars(TakeRun)
    /\ WF_vars(Reconcile)

-----------------------------------------------------------------------------
TypeOK ==
    /\ session \in [Sessions -> {"none", "active", "closed"}]
    /\ run \in [Requests -> RunStatus]
    /\ messages \subseteq [conv : {Conversation[s] : s \in Sessions}, ordinal : Nat \ {0},
                           role : {"user", "assistant"}, turn : Requests]
    /\ log \in [Sessions -> Seq([event : Event, turn : Requests \cup {NoRequest}])]
    /\ request \in [Requests -> [phase : Phase, session : Sessions, key : Keys,
                                 body : Bodies, ordinal : Nat, answer : Answer]]
    /\ locked \in [Sessions -> Requests \cup {NoRequest}]
    /\ ready \in BOOLEAN
    /\ backlog \in Seq(Requests)
    /\ work \in [Requests -> Work]
    /\ starts \in 0..MaxStarts

(* A conversation never has two unsettled runs, although the check of       *)
(* submit_message is not serialised across the sessions of a conversation   *)
(* (uq_agent_runs_one_active_per_conversation).                             *)
OneActiveRun ==
    \A q, x \in Requests :
        /\ run[q] \in {"queued", "running", "cancel_requested"}
        /\ run[x] \in {"queued", "running", "cancel_requested"}
        /\ Conv(q) = Conv(x)
        => q = x

(* Submissions that carry one client_message_id of one device store one     *)
(* message whatever session they come through and however they race, and a  *)
(* replayed answer is given only for the very content that was stored       *)
(* (submit_message and its IntegrityError path).                            *)
SubmittedOnce ==
    /\ \A m, n \in messages :
          /\ m.role = "user" /\ n.role = "user" /\ m.conv = n.conv
          /\ Author(m.turn) = Author(n.turn)
          /\ request[m.turn].key = request[n.turn].key
          => m = n
    /\ \A q \in Requests : request[q].answer = "replayed" =>
          \E m \in messages :
             /\ m.role = "user" /\ m.conv = Conv(q) /\ m.turn # q
             /\ Author(m.turn) = Author(q)
             /\ request[m.turn].key = request[q].key
             /\ request[m.turn].body = request[q].body

(* An assistant message exists exactly for the succeeded runs, and it is    *)
(* the next message of the conversation after the one it replies to: no     *)
(* submission gets between them, and no finished generation is thrown away  *)
(* because its ordinal was taken while it was being stored                  *)
(* (_finalize_response holds the run, not the conversation).                *)
ReplyFollowsItsMessage ==
    /\ \A m \in messages : m.role = "assistant" =>
          /\ run[m.turn] = "succeeded"
          /\ \E u \in messages : /\ u.role = "user" /\ u.turn = m.turn
                                 /\ u.conv = m.conv /\ m.ordinal = u.ordinal + 1
    /\ \A q \in Requests : run[q] = "succeeded" =>
          \E m \in messages : m.role = "assistant" /\ m.turn = q
    /\ \A q \in Requests : work[q] = "replying" =>
          ~\E m \in messages : m.conv = Conv(q) /\ m.ordinal = request[q].ordinal

(* The order in which the events of a run may follow each other, and the    *)
(* status each of them reports.                                             *)
Follows(a, b) ==
    CASE a = "message.accepted" -> b = "run.queued"
      [] a = "run.queued" ->
           b \in {"run.started", "run.cancelled", "run.failed", "run.interrupted"}
      [] a = "run.started" ->
           b \in {"run.succeeded", "run.failed", "run.cancel_requested", "run.interrupted"}
      [] a = "run.cancel_requested" -> b \in {"run.cancelled", "run.interrupted"}
      [] a = "run.succeeded" -> b = "assistant.message.ready"
      [] OTHER -> FALSE

Reports(e) ==
    CASE e = "run.queued" -> "queued"
      [] e = "run.started" -> "running"
      [] e = "run.cancel_requested" -> "cancel_requested"
      [] e = "run.cancelled" -> "cancelled"
      [] e = "assistant.message.ready" -> "succeeded"
      [] e \in {"run.failed", "run.interrupted"} -> "failed"
      [] OTHER -> "none"

(* The positions of the events of a run in a log.                           *)
Life(entries, q) == {i \in 1..Len(entries) : entries[i].turn = q}

(* The events of a run in the log of its session are one legal life of a    *)
(* run, and the last of them reports the status of the row: a client that   *)
(* follows the stream and one that reads the run agree (_emit, and every    *)
(* transition of service.py).                                               *)
EventsTrackRun ==
    \A q \in Requests :
        LET entries == log[request[q].session]
            life == Life(entries, q)
        IN  /\ run[q] = "none" <=> life = {}
            /\ \A i \in life :
                  /\ \/ \E j \in life : j < i
                     \/ entries[i].event = "message.accepted"
                  /\ \/ \E j \in life : i < j
                     \/ Reports(entries[i].event) = run[q]
            /\ \A i, j \in life :
                  \/ i >= j
                  \/ \E k \in life : i < k /\ k < j
                  \/ Follows(entries[i].event, entries[j].event)

(* A run a worker holds is unsettled, and one that waits for a worker was   *)
(* not started: neither the reconciliation nor another worker takes it      *)
(* (reconciliation.py, executor.py).                                        *)
WorkerOwnsRun ==
    \A q \in Requests :
        /\ work[q] \in {"generating", "replying"} =>
              run[q] \in {"running", "cancel_requested"}
        /\ work[q] = "replying" => run[q] = "running"
        /\ work[q] \in {"waiting", "taken"} => run[q] \in {"queued", "cancelled"}

(* Every accepted run is settled in the end, across cancellations and       *)
(* restarts; without it the conversation stays busy for ever.               *)
RunSettles ==
    \A q \in Requests :
        run[q] = "queued" ~> run[q] \in {"succeeded", "failed", "cancelled"}
=============================================================================
