# BMO Personal AI OS: verification project

TLA+ models of BMO: its Core (`src/src/personal_ai_os`), the Windows satellite
and the stability gate of its host, checked with TLC on small instances, with
theorems proved by TLAPS for every instance. Paths below are relative to `src/`;
code without a prefix is under `src/personal_ai_os/`.

## 1. Inventory

The Core is one Python process (FastAPI, uvicorn) on PostgreSQL. Synchronous
routes run in a thread pool, each with its own database session and READ
COMMITTED transactions; a two-thread executor runs model generations; WebSockets
live on the event loop. `db/engine.py` sets `autoflush=False` and a statement
timeout of about a second, so a transaction may fail while it waits for a lock.

| Component | State | Operations | What makes it correct |
| --- | --- | --- | --- |
| tools (`tools/service.py`, `reconciliation.py`) | `tool_calls`, `approvals`, `tool_observations`, `audit_events`; the gate's `_ready` flag | request, decide, execute (two transactions around the executor), cancel (two transactions around the delivery), expire, reconcile | an authority is used once; approval, call, observation and audit agree; budgets and rate hold under races; started calls settle |
| conversations (`conversations/`) | `conversation_sessions`, `conversation_messages`, `agent_runs`, `run_events`; executor pool, gate flag | create/close session, submit, cancel, execute, finalize, reconcile, replay events | one active run; a submission is stored once; the reply follows its message; events and rows agree; runs settle |
| identity (`identity/`) | `owners`, `device_enrollments`, `devices`, `device_credentials` | bootstrap, enroll, redeem, authenticate, heartbeat, rotate, revoke | one device of an enrollment, one live credential of a device, none of a revoked one |
| satellite, Core side (`satellites/windows/connection.py`, `api/routes/satellites.py`) | sessions by device, pending commands with futures | register, unregister, dispatch, cancel, accept observation | an observation reaches the command it is bound to; lost outcomes are reported uncertain |
| event stream (`api/routes/conversations.py`) | cursor and revalidation timer of each WebSocket | replay, revalidate, send, wait | every event once and in order, none after access ended |
| satellite, Windows side (`agent.py`, `replay.py`) | task table, replay journal (partly durable), cancel set | connect, command, cancel, reconnect | a consequential command runs at most once |
| local executors (`execution.py`, `allowlist.py`) | none; the desktop changes under them | search, open, volume, status | only listed entries are touched, success is observed |
| model gateway (`gateway.py`, `resilience.py`) | circuit breakers, inference guard, residency | generate and embed with retries | one inference at a time, one heavy model, circuits recover |
| gateway contracts (`registry.py`, `validation.py`, `contracts.py`, `providers/`) | none | route, validate, call a server, normalise, health | what gets in fits the model, what gets out fits the request |
| stability gate (`scripts/phase_01/`) | sample file and state file of the monitor | sample, trim, save, evaluate | PASS means a watched, healthy week |
| routes, app, config, migrations, other scripts, adapter, infrastructure | none of their own | HTTP mapping, lifespan, deployment | see section 7 |

Interactions. `tools` reads and locks rows of identity (Device) and conversations
(AgentRun, ConversationSession), and projects its events into the conversation's
`run_events`. `execute_tool_call` calls an executor, for Windows tools the
satellite manager, which waits for an observation over the WebSocket.
`conversations` calls the model gateway outside its transactions. Every route
authenticates with identity in a transaction of its own, before the one that
acts; the event stream revalidates again and again. The lifespan
in `app.py` tries both reconciliation gates at startup; every protected route
tries them again.

Hard behaviours: handlers interleave between transactions; the clock and the
approver are read before the locks and used after them; the executor acts between
two commits; a cancellation races the result; sessions of one conversation lock
different rows and meet only in the unique indexes; the process dies between any
two steps; a commit succeeds and its answer is lost; a socket drops between a
command and its observation. `PROJECT.json` lists each one at its line under
`hazards`.

## 2. Modules

| Module | Models |
| --- | --- |
| `ToolPlatform` | the tool-call lifecycle: every state-changing operation of `tools/service.py` and the gate |
| `ToolAuthority` | abstract: a proposal's authority is offered, granted, spent at most once within a budget, settled |
| `ToolRefinement` | the mapping under which `ToolPlatform` implements `ToolAuthority` |
| `Conversations` | sessions, submissions statement by statement, runs, executor, gate |
| `ConversationHistory` | abstract: one history of questions, each answered at once or not at all |
| `ConversationRefinement` | the mapping under which `Conversations` implements it |
| `Identity` | bootstrap, enrollment, redemption, authentication, heartbeat, rotation, revocation, row lock by row lock |
| `EventStream` | the WebSocket over `run_events`, composed with `Identity` |
| `SatelliteLink` | the session of one satellite: connection manager, socket handlers, network, agent, journal |
| `WindowsTools` | the checks and the steps of the local executors on a changing desktop |
| `ModelGateway` | inference guard, circuits, retries, residency of two servers behind a tunnel |
| `GatewayContracts` | routing, checks of requests, adapters, normalisation and health, one exchange at a time; the validator of schemas and values is a parameter |
| `GatewayValidation` | that validator, and the promise about replies that rests on it |
| `CallLevels` | what a recursive procedure comes to: its calls at each depth, with the theorems that unfold them |
| `StabilityGate` | the monitor's writes, the timer and the evaluator's verdict |
| `ToolPlatformProofs`, `ConversationProofs` | the theorems about the module and about its refinement |
| `IdentityProofs` | the theorems about `Identity` and `EventStream` |
| `SatelliteLinkProofs`, `ModelGatewayProofs` | the theorems about the module they are named after |
| `GatewayContractsProofs` | the theorems about `GatewayContracts` and `GatewayValidation` |
| `HostProofs` | the theorems about `WindowsTools` and `StabilityGate` |
| `MC*` | instances for TLC |

### ToolPlatform

A call is named by its idempotency key, so a replayed request is not a step.
`status`, `run`, `createdAt`, `decision`, `reason` are columns of `tool_calls`,
`approval`, `consumed`, `decider` of `approvals`; `obs` is the observation row,
`audited` the result of the latest audit event. `ready`, `bootAt`, `running`,
`cancelling`, `deciding` are memory of the process and vanish in `Restart`.
`starts` is a history variable: how often the executor was invoked.

An action is one committed transaction, or a step between two transactions of a
handler. That grain is sound because each transaction locks Device, AgentRun,
ConversationSession and ToolCall before it reads them. The two reads that are
not covered are modelled as such: a handler's clock is any earlier moment since
the process started (`ReadClock`), and the approver is checked in
`BeginDecision`, before `Decide`. `execute_tool_call` is `StartExecution` (first
transaction, executor invoked) and `Finalize` or `LoseWorker` (last
transaction); `cancel_tool_call` is `CancelRunning`/`CancelBeforeStart` and, after
the delivery, `CancelDelivered`/`CancelUndelivered`. A transaction that raises is
not a step. The environment revokes devices, closes sessions, ends runs and
changes availability at any moment.

### Conversations

A request is one HTTP submission; its message and run carry its name.
`session`, `run`, `messages`, `log` are the durable rows; `request` and `locked`
are the submissions in flight and the session rows they lock; `ready`, `backlog`,
`work` are memory of the process. Submissions of two sessions of a conversation
lock different rows, so `submit_message` is several steps: `CheckSubmission`
(status, replay, active run), `NumberMessage` (MAX(ordinal)+1), then
`CommitSubmission` or `SubmissionConflicts`, decided by the three unique indexes,
and `ResolveConflict` after the rollback. `Enqueue` is `executor.submit` in the
route. A worker takes a run (`TakeRun`), starts it, numbers its reply under the
lock of the run and stores it under that of the session (`NumberReply`,
`CommitReply`). With `StoreFails` a transaction may fail, or commit and lose its
answer. The gateway is an input: a valid response, or a failure.

### SatelliteLink

An action is what one event loop does between two awaits. On the Core `handler`
is the coroutine of each socket, `registered` the entry of the device in
`_sessions`, `pending` the waiting commands; `verdicts` collects what
`execute_sync` returned. `down`, `up`, `cut` are the network: a frame for a peer
that is gone is lost without notice, and a socket can stay half-open. On the agent
`task` is each `_handle_command` (waiting for the semaphore, begun, running,
reporting), `table` is `_tasks`, `terminal` and `durable` the two tables of the
journal, of which a crash leaves only the second. `register` and the finally
clause are separate steps (`Register`/`RefuseDuplicate`, `Unregister`), so that a
reconnecting agent meets its own dead session. The tool service calls the executor
of a call once; `MaxDeliveries` lets the model deliver a command again, since that
is what the journal is for.

### Identity and EventStream

A slot is a server thread or a local command with at most one transaction.
`owners`, `enrollment`, `device`, `credential` are the rows; `request` is what a
slot read before its locks and which rows it locks. `TakeLock` and `Refuse` make
the test that the code makes on the row it just locked; `Redeem`, `Heartbeat`,
`Rotate` and `Revoke` write and commit; `Abort` rolls back. `Authenticate` is the
transaction before: the principal it returns may be stale when it is used.
Secrets, hashes and the two listings are left out. `EventStream` EXTENDS
`Identity`: a stream replays a batch, revalidates and sends in separate steps
between which credentials are rotated and sessions closed. `EventsAfter` is the
query, `SendFrame` sends the next event of the batch, whatever number it has, and
moves the cursor to the last one when the batch is sent. Each event of `log`
carries, as history, the credentials whose access had not ended when it was
appended.

### ModelGateway and GatewayContracts

`call` is where a caller is inside `generate`: waiting for the guard, admitted by
its circuit, waking or sleeping a server (`PrepareAdvanced`, `Wake`,
`PrepareCore`), verifying the artifact, dispatching, calling, pausing before a
retry. A server is reachable, sick or healthy; it goes on after its caller timed
out, and unloads on its own. A healthy server's answer may be lost in a connection
reset, which the provider reports as offline (`Fails`). `past` counts faults and
bounds them. `LlamaStart` is the operator's launcher
(`infrastructure/tuf/advanced/start_phase_08_5_llama_cpp.ps1`): it looks at its own
port, at running llama-server processes and at hashes, so it may start a stopped
server at any moment, whatever Ollama or the Core do. `exposed` is history: the
advanced model is loaded where no check of the Core saw it. In `GatewayContracts` a request goes through the stages of the code; JSON
values are trees of kinds and sizes. Its constants `ValidateSchema` and
`ValidateValue` stand for `validation.py`, so that what does not depend on the
validator can be proved for every validator; the run gives them the definitions of
`GatewayValidation`. Both functions of `validation.py` call themselves for what is
nested; the model says which calls are made at each depth (`CallSchemas`,
`CallMembers`) and what each one finds for itself (`CheckedSchema`, `CheckedValue`),
and leaves open which failing call comes first. The verdict is compared with a
reference that knows no validator: the parts of the value at each depth beside the
schemas that speak of them (`Parts`, `Conforms`).

### WindowsTools and StabilityGate

`WindowsTools` runs one command; between any two of its system calls a file may
vanish or become a junction, a process exit, the volume move; a directory that
cannot be listed is skipped, as `os.walk` does (`ListingFails`). `StabilityGate`
counts time from the official marker; `run` is the monitor between appending a
sample and saving its state, where it may be killed. Its verdict is an operator
on the file. The monitor reads the disk only every few samples, and only if `smartctl`
is there; it takes a temperature or a disk use that it cannot read for a good one
(`Found`). `reality` is history: what happened whether or not a sample saw it;
`unasked` says that a due reading of a failing disk found no `smartctl`.

## 3. Runs

All bounds are constants of the `.cfg` files.

| Run | Question | Instance |
| --- | --- | --- |
| tool_lifecycle | do call, approval, observation, worker and audit stay consistent; does every started call settle? | 1 call needing approval, 2 devices, 1 run, clock to 2, TTL 1, unbounded restarts |
| tool_authority | can executions exceed their slots, requests their budgets; does it implement the abstract authority? | two scenes: 2 calls, one by policy and one by approval, 1 slot, run-bound and run-less, failing stores; 4 requests, 3 of them for approvals, 3 proposals, 1 approval (2 in effect), rate 2, clock to 2, window 1 |
| conversation_lifecycle | is a submission stored and answered once, consistently; does it implement the abstract history? | 2 requests, 2 sessions of a conversation, 2 keys, 2 bodies, 1 restart, failing stores |
| conversation_settles | does every run settle? | 2 conversations, 1 worker, 1 restart |
| identity_and_stream | do rows and row locks agree under racing requests; does a client get every event it may, and none it may not? | two scenes: 2 slots, 2 enrollments, 2 devices, 3 credentials; then 1 session, 1 stream, 1 slot that rotates or revokes, 3 events in batches of 2; failing stores in both |
| satellite_commands | is what a tool call is told true; do sessions and waiters agree? | 1 workflow delivered twice, 1 plain command, 2 sockets, agent with 1 slot, 1 cancellation, 1 fault |
| satellite_recovers | does a workflow start once; does the link come back? | 1 workflow delivered twice, 2 slots, 2 faults |
| gateway | do guard, circuits and residency hold under faults; does a call end and a circuit recover? | 2 callers, 1 core model, threshold 2, 2 attempts, 2 faults |
| decisions | contracts, executors and gate, one program in each behaviour | about 3,000 exchanges; 3 files, 3 volumes, 2 changes; a week of 7 intervals, a file of 8 rows, 2 troubles |
| tool_parent_cancel | violation, see section 6 | as tool_lifecycle, failing stores |
| tool_prompts | violation, see section 6 | 3 calls of one run, the budgets of the code (4 proposals, 2 approvals) |
| gateway_launcher | violation, see section 6 | 1 caller, no fault |

Why the bounds are enough: the tool invariants relate the rows of one call, and
calls meet only in the counters, where one more call than the limit is enough;
clock 2 with TTL and window 1 has a moment before, at and after each boundary.
In `tool_authority` a fourth request is one over the proposals (two denied, one
allowed), a third approval one over what the count admits, a third request of a
moment one over the rate, and no budget implies another. Its two scenes, like those
of `identity_and_stream`, are disjuncts of an action constraint (`GoesOn`): each scene
lets go on what it is about, and the run explores their union. In the second scene of
`identity_and_stream` no step of a stream is cut off, so its fairness is that of the
specification.
Conversations meet only in the pool; within one, a race needs two submissions,
or one submission and the worker of the other. Two slots are the two sides of each
race over a row (redeem and redeem, rotate and rotate, rotate and revoke); a third
credential lets a rotated one rotate again. A stream sees another stream only
through the log; three events and a limit of two make a batch of two frames, and a
replay that stops in the middle of the log. A satellite has one session, so two sockets are the old and the
new one; a fault is a broken link, a refused credential or an agent crash, and one
slot makes the agent busy. The gateway has one guard, so a second caller is the
one that waits; two faults open a circuit and hit its probe. The horizon lies
beyond the week and beyond what the file keeps, and the timer may be late by more
than the evaluator's gap; the file holds a little more than a week, so a healthy host does
reach PASS. Deadlock is checked for the tools and the gateway
runs; the others may simply have nothing left to do.

Definitions with a suffix (`Consumable_Retry`, `NextOrdinal_Count`) are
deviations: what the definition after them would be with a plausible mistake in
the code. No specification uses them; substituting one for its original must
violate the property `PROJECT.json` pairs it with, which shows that the property
depends on the code.

## 4. Fairness

`tool_lifecycle`: a worker's `Finalize` is weakly fair, since executors bound their
own time and the thread then commits; `Reconcile` is, since the lifespan and each
protected request try the gate. `conversation_settles`: handlers and workers go
on once started, the pool takes what waits, the gate is tried. Row locks are
released by handlers that go on, so weak fairness is enough for the finitely many
requests. `identity_and_stream`: the event loop goes on and the revalidation timer fires; the
database and its clients are never assumed to. `gateway`: a caller inside goes on,
because each of its waits has a timeout, and the cooldown passes; servers, tunnel
and callers are never assumed, so `CircuitRecovers` says what follows when they
work again and the model goes on being asked for. `satellite_recovers`: a
handler leaves a silent peer after 45 s (receive timeout) and reaches its finally
clause, the agent notices a closed socket and dials again; faults are finite.
Clients, cancellations and restarts are never assumed. The liveness runs of tools
and conversations leave out failing transactions: with them a worker can be lost
while the process lives, and its call or run then waits for the next restart (the
gates run once in a process), which nothing guarantees.

## 5. Proofs

Each proof module has an inductive invariant, one lemma for each action or group
of actions that write the same rows, and theorems that follow from it. They hold
for all constants that satisfy the named assumption of the module.

**Tools** (`ConstantsAssumption`). `LifecycleInv` gives `AuthorityUsedOnce`,
`ApprovalTracksCall`, `TruthfulObservation`, `WorkerOwnsCall`, `SettledIsFinal`
and `AuditFollowsStatus`. The invariants need each other: the executor is invoked
once because the status says approved only while `starts` is 0, which holds
because no handler takes a status back. `StartedStatus` states that link.
`WorkerOwnsCall` says the gate is open while a worker lives; that is what keeps
`Reconcile` from settling a live call. `BudgetInv` gives `RequestsWithinBudget`: a request
joins only the sets it was counted in, and for every window that holds its
clock the rate query counted all that is in the window already, so it does not
matter that requests commit out of time order. `AuthorityIsImplemented` is the
refinement: a request is a `Propose`, a decision a `Grant` or `Annul`, a dispatch a
`Spend`, an observation or the reconciliation a `Settle`, all other steps change
nothing. Its core is `StartFindsSlot`: a call whose executor has not reported is
one that the budget query counts, or it was cancelled with its run
(`SpentIsCounted`), and such a run starts nothing any more.

**Conversations** (`ConversationConstants`). `ConversationInv` gives one active
run, one worker of a run, `SubmittedOnce` and `ReplyFollowsItsMessage`. Submissions
of two sessions hold different locks, so what one read may be stale when it
commits. The proof rests on `NoGaps` (the ordinals of a conversation are 1 to n)
and `ActiveIsLast` (an unsettled run asks the last message): a submission that
numbered its message before another one committed has an ordinal that is taken,
since ordinals only fill up, and the index refuses it; and no submission fits
between a question and its reply, because the active-run index refuses it while
the run is active. `GateHolds` (nobody works before reconciliation) lets the gate
settle all runs at once; `BacklogWaits` keeps a run from being taken twice.
`EventsTellTheRun` adds `LogSound`: events of a run are only in the log of its
session, each follows its predecessor as the life of a run allows, and the last
one tells the status of the row. Reconciliation appends to a log for every active
run of the session and still keeps this, because there is at most one.
`HistoryIsImplemented` is the refinement: under the mapping a stored submission
is an `Ask`, a stored reply an `AnswerOpen`, and every other step gives up the
open questions of some conversations, or of none. It rests on the invariant: that
the part of a history below an ordinal has that many entries is `NoGaps`, and
that the open question is the last one is `ActiveIsLast`.

**Identity** (`IdentityConstants`). `IdentityInv` gives `EnrolledOnce`,
`OneLiveCredential`, `NoLockCycle` and `RevocationIsFinal`. What a request learned
before its lock (`NamesRows`) never changes; what it tests under a lock
(`HoldsOpen`, `HoldsActive`, `HoldsLive`) stays true because every writer of that row
holds the same lock and a lock has one holder (`Exclusive`). That a rotation and
a revocation both lock the device first is what makes the live credentials a
revocation locked still be all of them when it commits; `LocksInOrder` is also
what excludes a cycle.

**Event stream** (`StreamConstants`). `StreamInv` extends `IdentityInv` and gives
`NothingAfterRevocation` and `EachEventOnce`. Between the replay and the frames the
loop holds no lock; what makes the answer of the revalidation good for a batch
read before it is `Informed`: whoever has access to a session may see all of its
log, since access that ended never comes back (`RevokedStays`, and a session is
not reopened). `EachEventOnce` rests on what a batch is while it is sent: the numbers
that follow the cursor, of which `sent` have been delivered. A revocation between the revalidation and the frames comes after
every event of the batch.

**Model gateway** (`GatewayConstants`). `GatewayInv` gives the one holder of the
guard, `CircuitGuardsCalls`, `CoreCircuitIsolated` and `OneHeavyUnlessExposed`. A probe is
in a circuit only while its caller is inside; since one caller is inside at a
time, whatever ends the attempt ends the probe. `Asked` remembers, unless `exposed`,
that the other server was empty when the caller asked; no caller can load it since,
because loading needs the guard, and the launcher, which does not, sets `exposed`
when it starts beside core work. `exposed` ends when the advanced model leaves memory.

**Satellite** (`LinkAssumption`). `SessionServes`: with the shape of the
Core's tables it is inductive, because `Unregister` releases exactly the commands
that wait on the session it removes. `ConsequentialRunsOnce` from `JournalInv`: when
the journal has room for every workflow, it never holds one twice, so by the
pigeonhole principle `_trim` drops nothing; a workflow is therefore in the journal
from before its process exists, and a delivery that finds it there does not
begin; of the deliveries of a workflow that nobody started, at most one has begun
(`LaunchedOnce`). `LinkTyped` types the channel, its frames in flight included.

`TruthInv` gives `VerdictIsTruthful` without the premise about room, since a
command that is delivered once needs no journal. Two parts carry it. As long as no
verdict of a command was a timeout, uncertain or raised (`Unbroken`), its frame,
its task and its observation are in one place (`OnePlace`), on the socket of the
session that waits for it (`OnItsSocket`). And as long as every verdict denies that
the command ran and another denial may follow, or nobody waits (`MayDeny`), nothing
was started (`DenialsHold`); a success is heard of only when something was
(`SuccessIsReal`). `EndInv` gives `OutcomeIsStable`, with room in the journal
(`Roomy`): while a delivery may still end the workflow it is the only one and no end
has been heard of, and afterwards the journal lets no other begin (`OneEnd`). Without
room it may not be: an evicted workflow runs again.

**Local executors** (`DesktopConstants`: a finite tree without cycles).
`DesktopInv` gives `SearchIsSound` and `OutcomeIsObserved`. A search lists a
directory, tests an entry for a link and resolves its path in three steps while
anybody changes the tree. What it may rely on: a path nobody touched since the
command began is as it was (`Undisturbed`), and a match that was within reach all
the time and is not yet found is below a directory still to be walked or among the
names still to be described (`Reached`). `WalkClean` is the case of an untouched
tree, which no walk fails on. A directory that was skipped because it could not be
listed counts as touched.

**Stability gate** (`GateConstants`). `GateInv` gives `PassIsEarned` and
`HealthyHostPasses`. The file and the monitor's state are what kills and trimming
left of the past, and the invariant says what they still tell of it: rows are in
time order (`InTime`); a row after a reboot has another boot (`RebootSeen`); a spell
of reported breach is a stretch of the file without a fit row (`SpellsSeen`, `Cut`),
so a spell longer than the tolerated gap leaves a gap or a breach; while no due reading
missed `smartctl` (`unasked`), a sample that passes
although the disk has failed repeats a reading that lies at most one tolerated
gap back for each step of the SMART cycle (`DiskSeen`, `Within`), and trimming
only drops what is older than the first row (`Known`). For a host without trouble,
`AllFit` says that row i was taken at 1 + (i - 1) * Interval. The constants are
asked for no more than the deployment has: three intervals and `MinSamples`
samples fit into a day, a SMART cycle with tolerated gaps is shorter than the week
(the code has 15 minutes, a cycle of 4 samples and a week).

**Gateway contracts** (`ContractLimits`, `ExchangeKinds`). `ContractInv` says that a
stage is reached only by the request it serves and that a model is named only
when every check passed (`Accepted`); it gives `AcceptedFitsModel`. `HealthTold` keeps
the verdict of health as the two servers' answers determine it and gives
`HealthIsTruthful`. Both hold for every validator.

`ReplyInv` remembers that the schemas were accepted and that the answer judged is
the answer kept; it gives `ReplyFitsRequest`, with the validator of the code
(`ValidatorIsUsed`) and schemas that are JSON (`SchemasAreNested`: below a schema are
schemas, and a key is there once). The work is `ValidatorIsExact`, for every nesting
and every limit. The recursion is the parameter of `CallLevels`, so that induction is
over the depth of a call, a natural number, and needs only that a set of naturals
has a least element (its lemma `LevelsOfCalls`): a part of a value that fits lies beside schemas it was checked
against (`PartsAreCalled`), and whatever was checked is a part, beside that schema
alone (`CallsAreParts`). `ConformsToTheBottom` adds that the depth limit hides
nothing: an accepted schema ends above it, so a conforming value does.

**What liveness rests on.** The liveness properties themselves are only
model-checked: the prover knows neither fairness nor ENABLED. What is proved is
what a fair schedule needs from the safety side, that somebody can always take the
next step and that the steps do not undo each other:

- conversations, while transactions do not fail: an unsettled run is always with
  its handler, in the backlog, or with a worker that has what it needs
  (`RunsAreAttended`; that the ordinal of a reply is free is `RepliesAreNext`), and it
  passes these places in one order (`RunsOnlyAdvance`). `LocksHaveHolders`, also with
  failures, says that the row of a session is locked exactly by a submission that
  is between its check and its commit and waits for nobody. With failures the first
  two are false, as they are in the code: a run whose handler was lost waits for the
  next start;
- tools, likewise: a started call has a worker, or the reconciliation is still to
  come (`StartedHaveWorkers`); and, failures or not, nothing takes it back
  (`StartedOnlyGoOn`);
- gateway: a call waits once, and its attempts pass their places in order and are
  at most `MaxAttempts` (`CallsOnlyGoOn`);
- satellite: a link that is down never stands still (`LinkNeverStuck`), and a session
  whose agent is gone stays gone (`SessionsOnlyLeave`). `LinkRecovers` needs both: a new
  session is refused while a dead one is registered, so the two may go round, but
  only until the dead one has left;
- event stream: access that ended never comes back and the loop enters no batch
  afterwards (`EndedStreamsStartNothing`), so the next revalidation ends the stream.

## 6. Where documentation and code part

As runs that must find a violation:

- `tool_parent_cancel`: a repeated dispatch of a running call whose run was
  cancelled commits `CANCELLED`, although the executor runs
  (`docs/phase_reports/PHASE_08_REPORT.md:20`).
- `tool_prompts`: a run gets three approval prompts, not two: the count runs before
  the new decision is flushed and compares with `>` (`tools/service.py:1219`,
  `docs/security/PHASE_08_THREAT_MODEL.md:17`). `RequestsWithinBudget` says what the
  code does keep, `MAX_APPROVALS_PER_RUN + 1`.
- `gateway_launcher`: with llama.cpp stopped a core request passes the residency
  check and its model is loaded; the launcher then loads the advanced one beside it
  (`docs/adr/0009-llama-cpp-advanced-provider.md:36`, and `:63`, which says that a
  wrong residency state blocks the launcher). `OneHeavyUnlessExposed` says what is left:
  without such a start, and without a check that took a loaded server for a stopped
  one, the two are never resident together.

Seen while modelling; the models do what the code does, and the properties are
stated so that they hold of it:

- Tools. A decision can commit after its
  device was revoked (`tools/service.py:448`). An approval that expires while its
  dispatch waits for row locks is consumed (`tools/service.py:566`). The report of an
  undelivered cancellation may follow the end of its call, in the audit too
  (`tools/service.py:980`); `AuditFollowsStatus` exempts it.
- Conversations. An identical submission whose session was closed gets a conflict
  instead of its run (`conversations/service.py:162`).
- Satellite. `ReplayJournal.finish` caches every observation but trims only for
  workflows (`replay.py:89`). A cancellation between the journal record and the
  process start is reported as delivered and stops nothing (`agent.py:140`). The journal
  file is sorted by key (`replay.py:50`), so after a restart of the agent `_trim` evicts
  by key and not by age; the model keeps the order of age, on which no property
  depends. A connection that is refused before it is accepted raises `InvalidStatus`,
  which `run_forever` does not catch (`agent.py:73`): the agent ends, which the model
  has only as a crash and a restart.
- Executors. `_search` reports `truncated` by the entry count only, also when the
  result list is full, and says nothing of a directory it could not list; a process
  started or a volume set just before an exception is reported as a certain failure;
  an `observe_process` entry of the allowlist is never read.
- Gateway. A tunnel that is cut at the residency check and back before the dispatch
  lets both heavy models be resident, and so does a connection reset by a live llama.cpp,
  which the provider reports as offline (`resilience.py:164`, `llama_cpp.py:183`).
  The verdict of health is not independent when an answer is cut short: the error ends
  the whole operation, and `HealthIsTruthful` exempts it. `enum: null` and a list as
  `type` pass or break `validate_schema` with a `TypeError`; `true` equals 1 in an
  `enum`; a vision request without a user message is refused only by the adapter.
- Stability gate. The monitor counts a gap above 1800 s as missing, the evaluator's
  comment (`evaluate_stability_gate.py:19`) permits one delayed interval of 31
  minutes. After 1000 rows the trimmed file turns PASS into BLOCKED. A reboot after
  the newest sample is not seen. A due SMART reading without `smartctl` on the PATH
  repeats the status read before (`venom_stability_monitor.sh:82`), so a disk that
  failed since can still get a PASS: `PassIsEarned` excepts it. A temperature `NA` and
  a disk use that is no number pass (`venom_stability_monitor.sh:109`), so a breach that
  the tools do not report is not one for the gate.

## 7. Not modelled

The listings and `create_conversation` do not interact with other operations.
Left out, because their outcomes are inputs of the models and they keep no state
whose order matters: digests, secrets and hashes, wire-frame syntax, the allowlist
document and the credential manager, tool argument schemas, HTTP routing and error
codes, configuration, logging, migrations (their unique indexes are modelled), the
OpenJarvis adapter (without a caller in the Core), evidence validators, benchmarks
and the deployment scripts, which one operator runs. Several Core processes on one
database are outside the design (the gates assume one process) and outside the
models. A satellite device that shares its owner with another one makes every
dispatch offline and is left out.

## 8. What could come next

A model of `deploy_release.sh` and `rollback_release.sh`, in which a deployment
fails between the migration and the switch of the link.
