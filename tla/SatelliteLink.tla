---------------------------- MODULE SatelliteLink ----------------------------
(***************************************************************************)
(* The channel between the Core and the Windows satellite of one device:   *)
(* the connection manager and its WebSocket handlers                       *)
(* (satellites/windows/connection.py, api/routes/satellites.py), the       *)
(* network, and the agent with its replay journal (agent.py, replay.py).   *)
(*                                                                         *)
(* The event loops of both processes run one callback at a time: an action *)
(* is what happens between two awaits.  The executor of a command is the   *)
(* external process a worker thread of the agent starts and waits for.     *)
(***************************************************************************)
EXTENDS Integers, Sequences, FiniteSets, SequencesExt

CONSTANTS
    Commands,       \* tool calls the Core may hand to the satellite
    Consequential,  \* those for windows.workflow.start
    Sockets,        \* WebSockets; one is dialed anew when both ends left it
    NoSocket,
    MaxInFlight,    \* commands an agent accepts at a time (2 in the code)
    MaxRecords,     \* records of the journal (256 in the code)
    MaxDeliveries,  \* bound: how often one command is handed to the manager
    MaxCancels,     \* bound: cancellations requested by the Core
    MaxFaults       \* bound: broken links, refused credentials, agent crashes

ASSUME LinkAssumption ==
    /\ IsFiniteSet(Commands)
    /\ Consequential \subseteq Commands
    /\ NoSocket \notin Sockets
    /\ {MaxInFlight, MaxRecords} \subseteq Nat \ {0}
    /\ MaxDeliveries \in [Commands -> Nat \ {0}]
    /\ {MaxCancels, MaxFaults} \subseteq Nat

VARIABLES
    (* the Core *)
    handler,     \* the handler of a socket
    registered,  \* the session of the device in _sessions
    pending,     \* the socket a command waits on
    verdicts,    \* what execute_sync returned for a command, so far
    deliveries,  \* how often dispatch took a command
    (* the network *)
    down, up,    \* frames in transit on a socket
    cut,         \* the network below a socket is gone
    (* the agent *)
    link,        \* the socket of _run_connection
    task,        \* _handle_command of each delivery
    table,       \* _tasks: the delivery the table names for a command
    cancelled,   \* _cancel_before_start
    owned,       \* cancel events of running workflows (OwnedProcessRegistry)
    terminal,    \* _terminal, oldest first
    durable,     \* the journal file, oldest first
    (* history and bounds *)
    started,     \* how often the process of a command was started
    cancels, faults

core == <<handler, registered, pending, verdicts, deliveries>>
network == <<down, up, cut>>
memory == <<task, table, cancelled, owned, terminal>>
agent == <<link, memory, durable, started>>
bounds == <<cancels, faults>>
vars == <<core, network, agent, bounds>>

Delivery == UNION {1..MaxDeliveries[c] : c \in Commands}
NoTask == [phase |-> "none", socket |-> NoSocket, result |-> "none"]

(* What an observation says; "unstopped" is a process that outlived its     *)
(* termination, "uncertain" the journal's answer for an interrupted start.  *)
Result == {"succeeded", "failed", "stopped", "unstarted", "busy", "uncertain", "unstopped"}

(* What a tool call learns: an observation, or a failure of the transport.  *)
(* Certain are those that do not set uncertain_outcome and do not admit     *)
(* that a process was left running.                                         *)
Verdict == Result \cup {"offline", "timeout", "raised"}
NeverRan == {"offline", "busy", "unstarted"}
Certain == NeverRan \cup {"succeeded", "failed", "stopped", "timeout"}

(* A task is waiting for the semaphore, has its journal record begun, has   *)
(* its process running, or is reporting its result.                         *)
Task == [phase : {"none", "waiting", "begun", "running", "reporting"},
         socket : Sockets \cup {NoSocket}, result : Result \cup {"none"}]

CommandFrame(c, n) == [kind |-> "command", command |-> c, delivery |-> n]
CancelFrame(c) == [kind |-> "cancel", command |-> c, delivery |-> 0]
Observation(c, r) == [command |-> c, result |-> r]

TypeOK ==
    /\ handler \in [Sockets -> {"done", "hello", "serving", "closing"}]
    /\ registered \in Sockets \cup {NoSocket}
    /\ pending \in [Commands -> Sockets \cup {NoSocket}]
    /\ verdicts \in [Commands -> SUBSET Verdict]
    /\ deliveries \in [Commands -> Delivery \cup {0}]
    /\ \A s \in Sockets : \A i \in DOMAIN down[s] :
          down[s][i] \in [kind : {"command", "cancel"}, command : Commands, delivery : Delivery \cup {0}]
    /\ \A s \in Sockets : \A i \in DOMAIN up[s] :
          up[s][i] \in [command : Commands, result : Result]
    /\ cut \in [Sockets -> BOOLEAN]
    /\ link \in Sockets \cup {NoSocket}
    /\ task \in [Commands -> [Delivery -> Task]]
    /\ table \in [Commands -> Delivery \cup {0}]
    /\ Cardinality({c \in Commands : table[c] # 0}) <= MaxInFlight
    /\ cancelled \subseteq Commands
    /\ owned \in [Consequential -> {"none", "running", "cancelled"}]
    /\ \A i \in DOMAIN terminal : terminal[i] \in [command : Commands, result : Result]
    /\ \A i \in DOMAIN durable : durable[i] \in Consequential
    /\ Len(durable) <= MaxRecords
    /\ started \in [Commands -> Nat]
    /\ cancels \in 0..MaxCancels
    /\ faults \in 0..MaxFaults

Init ==
    /\ handler = [s \in Sockets |-> "done"]
    /\ registered = NoSocket
    /\ pending = [c \in Commands |-> NoSocket]
    /\ verdicts = [c \in Commands |-> {}]
    /\ deliveries = [c \in Commands |-> 0]
    /\ down = [s \in Sockets |-> <<>>]
    /\ up = [s \in Sockets |-> <<>>]
    /\ cut = [s \in Sockets |-> FALSE]
    /\ link = NoSocket
    /\ task = [c \in Commands |-> [n \in Delivery |-> NoTask]]
    /\ table = [c \in Commands |-> 0]
    /\ cancelled = {}
    /\ owned = [c \in Consequential |-> "none"]
    /\ terminal = <<>>
    /\ durable = <<>>
    /\ started = [c \in Commands |-> 0]
    /\ cancels = 0
    /\ faults = 0

-----------------------------------------------------------------------------
(* Sending on a socket.  The Core cannot tell that the agent is gone: its   *)
(* frame is lost without notice.                                            *)

Gone_Cut(s) == cut[s]
Gone(s) == cut[s] \/ link # s

SendDown(s, frame) ==
    down' = IF Gone(s) THEN down ELSE [down EXCEPT ![s] = Append(@, frame)]

Usable(s) == s # NoSocket /\ s = link /\ ~cut[s] /\ handler[s] = "serving"

SendUp(s, observation) ==
    up' = IF Usable(s) THEN [up EXCEPT ![s] = Append(@, observation)] ELSE up

-----------------------------------------------------------------------------
(* The sessions of the Core.                                                *)

(* The agent dials: authentication, accept and hello on a fresh socket.     *)
Dial(s) ==
    /\ link = NoSocket
    /\ handler[s] = "done"
    /\ link' = s
    /\ handler' = [handler EXCEPT ![s] = "hello"]
    /\ cut' = [cut EXCEPT ![s] = FALSE]
    /\ UNCHANGED <<registered, pending, verdicts, deliveries, down, up, memory, durable, started, bounds>>

Register(s) ==
    /\ handler[s] = "hello"
    /\ registered = NoSocket
    /\ registered' = s
    /\ handler' = [handler EXCEPT ![s] = "serving"]
    /\ UNCHANGED <<pending, verdicts, deliveries, network, agent, bounds>>

Closing(s) == handler' = [handler EXCEPT ![s] = "closing"]

(* register raises DuplicateSatelliteSessionError: code 4409.               *)
RefuseDuplicate(s) ==
    /\ handler[s] = "hello"
    /\ registered # NoSocket
    /\ Closing(s)
    /\ UNCHANGED <<registered, pending, verdicts, deliveries, network, agent, bounds>>

(* The peer is gone or silent: disconnect, hello or heartbeat timeout.      *)
PeerLost(s) ==
    /\ handler[s] \in {"hello", "serving"}
    /\ Gone(s)
    /\ Closing(s)
    /\ UNCHANGED <<registered, pending, verdicts, deliveries, network, agent, bounds>>

(* A frame finds the credential revoked or rotated: code 4401 or 4403.      *)
RefuseCredential(s) ==
    /\ handler[s] \in {"hello", "serving"}
    /\ faults < MaxFaults
    /\ Closing(s)
    /\ faults' = faults + 1
    /\ UNCHANGED <<registered, pending, verdicts, deliveries, network, agent, cancels>>

(* The finally clause; what the socket still held is lost.  A handler       *)
(* that lost the race to register has a session_id of its own, so it must   *)
(* not remove the session that won.                                         *)
Unregisters_Any(s) == {registered} \ {NoSocket}
Unregisters(s) == {registered} \cap {s}

Orphans(s) == {c \in Commands : pending[c] \in Unregisters(s)}

Unregister(s) ==
    /\ handler[s] = "closing"
    /\ handler' = [handler EXCEPT ![s] = "done"]
    /\ registered' = IF Unregisters(s) = {} THEN registered ELSE NoSocket
    /\ pending' = [c \in Commands |-> IF c \in Orphans(s) THEN NoSocket ELSE pending[c]]
    /\ verdicts' = [c \in Commands |->
          IF c \in Orphans(s) THEN verdicts[c] \cup {"uncertain"} ELSE verdicts[c]]
    /\ up' = [up EXCEPT ![s] = <<>>]
    /\ UNCHANGED <<deliveries, down, cut, agent, bounds>>

-----------------------------------------------------------------------------
(* Commands of the tool service.                                            *)

Conclude(c, v) ==
    /\ pending' = [pending EXCEPT ![c] = NoSocket]
    /\ verdicts' = [verdicts EXCEPT ![c] = @ \cup {v}]

(* The tool service waits for one delivery before it can make another.      *)
Requested(c) ==
    /\ pending[c] = NoSocket
    /\ deliveries[c] < MaxDeliveries[c]
    /\ deliveries' = [deliveries EXCEPT ![c] = @ + 1]
    /\ UNCHANGED <<handler, registered, up, cut, agent, bounds>>

(* dispatch: the command waits before its frame is sent.                    *)
Dispatch(c) ==
    /\ Requested(c)
    /\ registered # NoSocket
    /\ handler[registered] = "serving"
    /\ pending' = [pending EXCEPT ![c] = registered]
    /\ SendDown(registered, CommandFrame(c, deliveries[c] + 1))
    /\ UNCHANGED verdicts

(* No session, or one that was silent for SESSION_FRESHNESS_SECONDS.        *)
DispatchOffline(c) ==
    /\ Requested(c)
    /\ registered # NoSocket => Gone(registered)
    /\ Conclude(c, "offline")
    /\ UNCHANGED down

(* The handler closed the socket and did not unregister yet: send_text      *)
(* raises what the tool service records as an uncertain outcome.            *)
DispatchRaises(c) ==
    /\ Requested(c)
    /\ registered # NoSocket
    /\ handler[registered] = "closing"
    /\ Conclude(c, "raised")
    /\ UNCHANGED down

TimeoutVerdict_Plain(c) == "timeout"
TimeoutVerdict(c) == IF c \in Consequential THEN "uncertain" ELSE "timeout"

Timeout(c) ==
    /\ pending[c] # NoSocket
    /\ Conclude(c, TimeoutVerdict(c))
    /\ UNCHANGED <<handler, registered, deliveries, network, agent, bounds>>

RequestCancel(c) ==
    /\ pending[c] # NoSocket
    /\ handler[pending[c]] = "serving"
    /\ cancels < MaxCancels
    /\ cancels' = cancels + 1
    /\ SendDown(pending[c], CancelFrame(c))
    /\ UNCHANGED <<core, up, cut, agent, faults>>

(* accept_observation: an observation nobody waits for is a protocol error  *)
(* that closes the session (code 4400).                                     *)
ReceiveObservation(s) ==
    /\ handler[s] = "serving"
    /\ up[s] # <<>>
    /\ LET o == Head(up[s]) IN
          IF pending[o.command] = s
          THEN Conclude(o.command, o.result) /\ UNCHANGED handler
          ELSE Closing(s) /\ UNCHANGED <<pending, verdicts>>
    /\ up' = [up EXCEPT ![s] = Tail(@)]
    /\ UNCHANGED <<registered, deliveries, down, cut, agent, bounds>>

-----------------------------------------------------------------------------
(* The agent.                                                               *)

(* _run_connection ends: the Core closed, the link broke, or the credential *)
(* was refused.  Tasks go on; what they send on the old socket is lost.     *)
Disconnect ==
    /\ link # NoSocket
    /\ cut[link] \/ handler[link] \in {"closing", "done"}
    /\ link' = NoSocket
    /\ task' = [c \in Commands |-> [n \in Delivery |->
          [task[c][n] EXCEPT !.socket = NoSocket]]]
    /\ down' = [down EXCEPT ![link] = <<>>]
    /\ UNCHANGED <<core, up, cut, table, cancelled, owned, terminal, durable, started, bounds>>

InFlight == {c \in Commands : table[c] # 0}
Accepts(c) == Cardinality(InFlight) < MaxInFlight

(* A command frame becomes a task, or is refused with satellite_busy.       *)
ReceiveCommand ==
    /\ link # NoSocket
    /\ down[link] # <<>>
    /\ LET f == Head(down[link]) IN
          /\ f.kind = "command"
          /\ IF Accepts(f.command)
             THEN /\ table' = [table EXCEPT ![f.command] = f.delivery]
                  /\ task' = [task EXCEPT ![f.command][f.delivery] =
                        [phase |-> "waiting", socket |-> link, result |-> "none"]]
                  /\ UNCHANGED up
             ELSE /\ SendUp(link, Observation(f.command, "busy"))
                  /\ UNCHANGED <<table, task>>
    /\ down' = [down EXCEPT ![link] = Tail(@)]
    /\ UNCHANGED <<core, cut, link, cancelled, owned, terminal, durable, started, bounds>>

Owned(c) == c \in Consequential /\ owned[c] # "none"

ReceiveCancel ==
    /\ link # NoSocket
    /\ down[link] # <<>>
    /\ LET c == Head(down[link]).command IN
          /\ Head(down[link]).kind = "cancel"
          /\ owned' = IF Owned(c) THEN [owned EXCEPT ![c] = "cancelled"] ELSE owned
          /\ cancelled' = IF ~Owned(c) /\ c \in InFlight THEN cancelled \cup {c} ELSE cancelled
    /\ down' = [down EXCEPT ![link] = Tail(@)]
    /\ UNCHANGED <<core, up, cut, link, task, table, terminal, durable, started, bounds>>

Holders ==
    {h \in Commands \X Delivery : task[h[1]][h[2]].phase \in {"begun", "running", "reporting"}}

(* A task that waits for the semaphore of two goes on.                      *)
Admitted(c, n) ==
    /\ task[c][n].phase = "waiting"
    /\ Cardinality(Holders) < 2

SetTask(c, n, p, r) ==
    task' = [task EXCEPT ![c][n].phase = p, ![c][n].result = r]

Cached(c) == {r \in Result : Contains(terminal, Observation(c, r))}
Journaled_Never(c) == FALSE
Journaled(c) == c \in Consequential /\ Contains(durable, c)

(* What lookup and _cancel_before_start answer instead of an execution.     *)
Known(c) ==
    IF Cached(c) # {} THEN Cached(c)
    ELSE IF Journaled(c) THEN {"uncertain"}
    ELSE IF c \in cancelled THEN {"unstarted"}
    ELSE {}

AnswerKnown(c, n) ==
    /\ Admitted(c, n)
    /\ \E r \in Known(c) : SetTask(c, n, "reporting", r)
    /\ cancelled' = IF Known(c) = {"unstarted"} THEN cancelled \ {c} ELSE cancelled
    /\ UNCHANGED <<core, network, link, table, owned, terminal, durable, started, bounds>>

(* A record keeps its place when it is written again.                       *)
Recorded(c) == IF Contains(durable, c) THEN durable ELSE Append(durable, c)

Remembered(c, r) ==
    IF Cached(c) = {} THEN Append(terminal, Observation(c, r))
    ELSE [i \in DOMAIN terminal |->
            IF terminal[i].command = c THEN Observation(c, r) ELSE terminal[i]]

(* _trim: the oldest records go first, in flight or not.                    *)
Newest(records) ==
    SubSeq(records, IF Len(records) > MaxRecords THEN Len(records) - MaxRecords + 1 ELSE 1,
           Len(records))

(* begin and finish write the journal of consequential commands only, and   *)
(* trim both tables only then.                                              *)
BeginJournal_None(c) == UNCHANGED <<durable, terminal>>
BeginJournal(c) ==
    IF c \in Consequential
    THEN durable' = Newest(Recorded(c)) /\ terminal' = Newest(terminal)
    ELSE UNCHANGED <<durable, terminal>>

FinishJournal(c, r) ==
    IF c \in Consequential
    THEN durable' = Newest(Recorded(c)) /\ terminal' = Newest(Remembered(c, r))
    ELSE UNCHANGED durable /\ terminal' = Remembered(c, r)

(* The journal names the command before its process can exist.              *)
Begin(c, n) ==
    /\ Admitted(c, n)
    /\ Known(c) = {}
    /\ BeginJournal(c)
    /\ SetTask(c, n, "begun", "none")
    /\ UNCHANGED <<core, network, link, table, cancelled, owned, started, bounds>>

(* The worker thread starts the process.                                    *)
Launch(c, n) ==
    /\ task[c][n].phase = "begun"
    /\ ~Owned(c)
    /\ SetTask(c, n, "running", "none")
    /\ started' = [started EXCEPT ![c] = @ + 1]
    /\ owned' = IF c \in Consequential THEN [owned EXCEPT ![c] = "running"] ELSE owned
    /\ UNCHANGED <<core, network, link, table, cancelled, terminal, durable, bounds>>

(* The deadline passed, the allowlist refuses, or the target is missing.    *)
Decline(c, n) ==
    /\ task[c][n].phase = "begun"
    /\ SetTask(c, n, "reporting", "failed")
    /\ FinishJournal(c, "failed")
    /\ UNCHANGED <<core, network, link, table, cancelled, owned, started, bounds>>

(* How a process ends: by itself, or a workflow at its deadline or once its *)
(* cancel event is set, when stopping it may fail.                          *)
Ends(c) ==
    {"succeeded", "failed"}
    \cup (IF c \in Consequential THEN {"unstopped"} ELSE {})
    \cup (IF c \in Consequential /\ owned[c] = "cancelled" THEN {"stopped"} ELSE {})

Finish(c, n, r) ==
    /\ task[c][n].phase = "running"
    /\ r \in Ends(c)
    /\ SetTask(c, n, "reporting", r)
    /\ FinishJournal(c, r)
    /\ owned' = IF c \in Consequential THEN [owned EXCEPT ![c] = "none"] ELSE owned
    /\ UNCHANGED <<core, network, link, table, cancelled, started, bounds>>

(* The task sends its observation on the socket its command came from; its  *)
(* done callback forgets whatever delivery of the command the table names.  *)
Report(c, n) ==
    /\ task[c][n].phase = "reporting"
    /\ IF task[c][n].socket # NoSocket
       THEN SendUp(task[c][n].socket, Observation(c, task[c][n].result))
       ELSE UNCHANGED up
    /\ task' = [task EXCEPT ![c][n] = NoTask]
    /\ table' = [table EXCEPT ![c] = 0]
    /\ UNCHANGED <<core, down, cut, link, cancelled, owned, terminal, durable, started, bounds>>

-----------------------------------------------------------------------------
(* Faults.                                                                  *)

Break(s) ==
    /\ handler[s] \in {"hello", "serving"}
    /\ ~cut[s]
    /\ faults < MaxFaults
    /\ faults' = faults + 1
    /\ cut' = [cut EXCEPT ![s] = TRUE]
    /\ down' = [down EXCEPT ![s] = <<>>]
    /\ up' = [up EXCEPT ![s] = <<>>]
    /\ UNCHANGED <<core, agent, cancels>>

(* The agent dies and starts again: only the journal file survives.         *)
CrashAgent ==
    /\ faults < MaxFaults
    /\ faults' = faults + 1
    /\ link' = NoSocket
    /\ down' = [s \in Sockets |-> <<>>]
    /\ task' = [c \in Commands |-> [n \in Delivery |-> NoTask]]
    /\ table' = [c \in Commands |-> 0]
    /\ cancelled' = {}
    /\ owned' = [c \in Consequential |-> "none"]
    /\ terminal' = <<>>
    /\ UNCHANGED <<core, up, cut, durable, started, cancels>>

-----------------------------------------------------------------------------
Session(s) == Dial(s) \/ Register(s) \/ RefuseDuplicate(s) \/ PeerLost(s) \/ Unregister(s)
Handle(c, n) ==
    \/ AnswerKnown(c, n) \/ Begin(c, n) \/ Launch(c, n) \/ Decline(c, n) \/ Report(c, n)
    \/ \E r \in Result : Finish(c, n, r)

Next ==
    \/ \E s \in Sockets : Session(s) \/ RefuseCredential(s) \/ ReceiveObservation(s) \/ Break(s)
    \/ \E c \in Commands :
          \/ Dispatch(c) \/ DispatchOffline(c) \/ DispatchRaises(c)
          \/ Timeout(c) \/ RequestCancel(c)
          \/ \E n \in Delivery : Handle(c, n)
    \/ Disconnect \/ ReceiveCommand \/ ReceiveCancel \/ CrashAgent

Spec == Init /\ [][Next]_vars

(* Handlers leave silent peers after 45 s and always reach their finally    *)
(* clause; run_forever notices a lost socket and dials again.               *)
FairSpec ==
    /\ Spec
    /\ \A s \in Sockets : WF_vars(Register(s)) /\ WF_vars(RefuseDuplicate(s))
                          /\ WF_vars(PeerLost(s)) /\ WF_vars(Unregister(s))
    /\ WF_vars(\E s \in Sockets : Dial(s))
    /\ WF_vars(Disconnect)

-----------------------------------------------------------------------------
(* While the journal holds every command, a workflow is started at most     *)
(* once, however often its command is delivered and the agent restarts      *)
(* (ReplayJournal.begin before execute, lookup before begin).               *)
ConsequentialRunsOnce ==
    Cardinality(Consequential) <= MaxRecords =>
        \A c \in Consequential : started[c] <= 1

Underway(c) ==
    \/ \E n \in Delivery : task[c][n].phase \in {"waiting", "begun", "running"}
    \/ \E s \in Sockets : \E i \in DOMAIN down[s] :
          down[s][i].kind = "command" /\ down[s][i].command = c

(* What a tool call was told is true then and stays true: never started     *)
(* when every verdict said so, started when one says succeeded, and of a    *)
(* workflow only certain verdicts mean that nothing of it is underway       *)
(* (uncertain flags of dispatch and unregister).                            *)
VerdictIsTruthful ==
    \A c \in Commands :
        /\ "succeeded" \in verdicts[c] => started[c] > 0
        /\ pending[c] = NoSocket =>
              /\ verdicts[c] \subseteq NeverRan => started[c] = 0
              /\ verdicts[c] \subseteq Certain /\ c \in Consequential => ~Underway(c)

(* A redelivered workflow never reports a second, different end             *)
(* (ReplayJournal.lookup).                                                  *)
OutcomeIsStable ==
    \A c \in Consequential :
        Cardinality(verdicts[c] \cap {"succeeded", "failed", "stopped", "unstopped"}) <= 1

(* The one serving handler is the registered session, and whoever waits     *)
(* waits on it: refusing a duplicate removes nobody else's session, and     *)
(* unregistering leaves no command behind (register, unregister).           *)
SessionServes ==
    /\ \A s \in Sockets : handler[s] = "serving" => registered = s
    /\ \A c \in Commands : pending[c] # NoSocket => pending[c] = registered

Linked ==
    /\ registered # NoSocket
    /\ link = registered
    /\ ~cut[registered]
    /\ handler[registered] = "serving"

(* When faults stop, the satellite gets and keeps a session: a dead session *)
(* cannot refuse its successor forever (run_forever, receive timeout,       *)
(* finally clause of connect_windows_satellite).                            *)
LinkRecovers == <>[]Linked
=============================================================================
