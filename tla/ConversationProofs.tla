------------------------- MODULE ConversationProofs -------------------------
(***************************************************************************)
(* Safety of the conversations for every number of requests, sessions,     *)
(* workers and restarts.  A submission reads the conversation in one step  *)
(* and writes it in another one without a lock on it; the unique indexes,  *)
(* the one active run and the fact that ordinals have no gaps make the     *)
(* rows it finally writes fit the conversation as it then is.              *)
(***************************************************************************)
EXTENDS ConversationRefinement, FiniteSetTheorems, FunctionTheorems, TLAPS

User(m) == m.role = "user"
Active(q) == run[q] \in ActiveStatus
Threads == {Conversation[s] : s \in Sessions}

(* A conversation has the ordinals 1 to n.                                  *)
Filled(c, n) == \A k \in Nat \ {0} : Taken(c, k) <=> k <= n

(* Rows of messages and runs.                                               *)
OneMessageEach ==
    /\ \A m, n \in messages : m.role = n.role /\ m.turn = n.turn => m = n
    /\ \A m, n \in messages : m.conv = n.conv /\ m.ordinal = n.ordinal => m = n
RunsOfMessages ==
    /\ \A m \in messages : m.conv = Conv(m.turn)
    /\ \A q \in Requests :
         run[q] # "none" <=> \E m \in messages : User(m) /\ m.turn = q
NoGaps == \A c \in Threads : \E n \in Nat : Filled(c, n)
RepliesFit ==
    /\ \A m \in messages : ~User(m) =>
         /\ run[m.turn] = "succeeded"
         /\ \E u \in messages : User(u) /\ u.turn = m.turn /\ m.ordinal = u.ordinal + 1
    /\ \A q \in Requests : run[q] = "succeeded" =>
         \E m \in messages : ~User(m) /\ m.turn = q
(* The message of an active run is the last of its conversation.            *)
ActiveIsLast ==
    \A m, n \in messages :
        User(m) /\ Active(m.turn) /\ n.conv = m.conv => n.ordinal <= m.ordinal
KeysOnce ==
    \A m, n \in messages :
        /\ User(m) /\ User(n) /\ m.conv = n.conv
        /\ Author(m.turn) = Author(n.turn)
        /\ request[m.turn].key = request[n.turn].key
        => m = n
RowsSound ==
    /\ OneMessageEach /\ RunsOfMessages /\ NoGaps /\ RepliesFit /\ ActiveIsLast
    /\ KeysOnce /\ OneActiveRun

(* What a submission and a worker rely on between two of their steps.       *)
Unborn(q) == request[q].phase \in {"idle", "arrived", "checked", "numbered", "conflicted"}
SubmissionSound(q) ==
    /\ Unborn(q) => run[q] = "none" /\ work[q] = "none" /\ request[q].answer = "none"
    /\ request[q].phase = "committed" => run[q] \in {"queued", "cancelled"} /\ work[q] = "none"
    /\ request[q].phase = "numbered" =>
         /\ request[q].ordinal # 0
         /\ \A k \in 1..request[q].ordinal - 1 : Taken(Conv(q), k)
    /\ request[q].answer = "replayed" => \E m \in messages :
         /\ User(m) /\ m.conv = Conv(q) /\ m.turn # q
         /\ Author(m.turn) = Author(q)
         /\ request[m.turn].key = request[q].key
         /\ request[m.turn].body = request[q].body
WorkSound(q) ==
    /\ work[q] # "none" => request[q].phase = "answered"
    /\ work[q] \in {"waiting", "taken"} => run[q] \in {"queued", "cancelled"}
    /\ work[q] \in {"generating", "replying"} => run[q] \in {"running", "cancel_requested"}
    /\ work[q] = "replying" =>
         /\ run[q] = "running"
         /\ \E u \in messages :
              User(u) /\ u.turn = q /\ request[q].ordinal = u.ordinal + 1
RequestsSound == \A q \in Requests : SubmissionSound(q) /\ WorkSound(q)

BacklogWaits ==
    /\ \A i \in 1..Len(backlog) : work[backlog[i]] = "waiting"
    /\ \A i, j \in 1..Len(backlog) : backlog[i] = backlog[j] => i = j

(* Before the reconciliation no handler and no worker is at work.           *)
GateHolds ==
    ~ready => \A q \in Requests :
        work[q] = "none" /\ request[q].phase \in {"idle", "answered", "lost"}

ConversationInv ==
    TypeOK /\ RowsSound /\ RequestsSound /\ BacklogWaits /\ GateHolds

MessageRow == [conv : Threads, ordinal : Nat \ {0}, role : {"user", "assistant"}, turn : Requests]
LogEntry == [event : Event, turn : Requests \cup {NoRequest}]
Submission == [phase : Phase, session : Sessions, key : Keys, body : Bodies,
               ordinal : Nat, answer : Answer]

(* Rows are never deleted, and what a stored message refers to is fixed.    *)
BornFixed ==
    \A q \in Requests : run[q] # "none" =>
        /\ request'[q].session = request[q].session
        /\ request'[q].key = request[q].key
        /\ request'[q].body = request[q].body
Grows == messages \subseteq messages' /\ BornFixed

-----------------------------------------------------------------------------
(* Data                                                                     *)

LEMMA EmitTyped ==
  ASSUME TypeOK, NEW s \in Sessions, NEW q \in Requests \cup {NoRequest},
         NEW events \in Seq(Event), Emit(s, events, q)
  PROVE  log' \in [Sessions -> Seq(LogEntry)]
<1> DEFINE new == [i \in 1..Len(events) |-> [event |-> events[i], turn |-> q]]
<1>1. new \in Seq(LogEntry)
  <2>1. \A i \in 1..Len(events) : [event |-> events[i], turn |-> q] \in LogEntry
    BY DEF LogEntry
  <2>2. Len(events) \in Nat
    OBVIOUS
  <2> QED
    BY <2>1, <2>2
<1>2. log \in [Sessions -> Seq(LogEntry)]
  BY DEF TypeOK, LogEntry
<1>3. log' = [log EXCEPT ![s] = @ \o new]
  BY DEF Emit
<1> HIDE DEF new
<1>4. log[s] \o new \in Seq(LogEntry)
  BY <1>1, <1>2
<1> QED
  BY <1>2, <1>3, <1>4

(* The largest ordinal of a conversation without gaps.                      *)
LEMMA LastOfFilled ==
  ASSUME TypeOK, NEW c, NEW n \in Nat, Filled(c, n)
  PROVE  LastOrdinal(c) = n
<1> DEFINE Cand == {0} \cup {m.ordinal : m \in messages}
           Last(k) == /\ k = 0 \/ Taken(c, k)
                      /\ \A m \in messages : m.conv = c => m.ordinal <= k
<1>1. \A m \in messages : m.ordinal \in Nat \ {0}
  BY DEF TypeOK
<1>2. n \in Cand /\ Last(n)
  <2>1. n = 0 \/ Taken(c, n)
    BY DEF Filled
  <2>2. n \in Cand
    BY <2>1 DEF Taken
  <2>3. ASSUME NEW m \in messages, m.conv = c PROVE m.ordinal <= n
    BY <1>1, <2>3 DEF Filled, Taken
  <2> QED
    BY <2>1, <2>2, <2>3
<1>3. ASSUME NEW k \in Cand, Last(k) PROVE k = n
  <2>1. k \in Nat
    BY <1>1
  <2>2. k <= n
    BY <1>3, <2>1 DEF Filled
  <2>3. n <= k
    BY <1>1, <1>2, <1>3, <2>1 DEF Taken
  <2> QED
    BY <2>1, <2>2, <2>3
<1>4. LastOrdinal(c) = CHOOSE k \in Cand : Last(k)
  BY DEF LastOrdinal
<1> HIDE DEF Cand, Last
<1> QED
  BY <1>2, <1>3, <1>4

LEMMA NextOfFilled ==
  ASSUME TypeOK, NEW c, NEW n \in Nat, Filled(c, n)
  PROVE  NextOrdinal(c) = n + 1 /\ ~Taken(c, n + 1) /\ \A k \in 1..n : Taken(c, k)
  BY LastOfFilled DEF NextOrdinal, Filled

(* An ordinal that is free, with every smaller one taken, is the next one.  *)
LEMMA FillNext ==
  ASSUME TypeOK, NEW c, NEW n \in Nat, Filled(c, n), NEW k \in Nat \ {0},
         ~Taken(c, k), \A j \in 1..k - 1 : Taken(c, j)
  PROVE  k = n + 1
<1>1. k > n
  BY DEF Filled
<1>2. CASE k > n + 1
  BY <1>2 DEF Filled
<1> QED
  BY <1>1, <1>2

LEMMA ThreadOf ==
  ASSUME TypeOK, NEW q \in Requests
  PROVE  Conv(q) \in Threads /\ request[q] \in Submission
  BY DEF TypeOK, Conv, Threads, Submission

-----------------------------------------------------------------------------
(* What a step leaves as it was                                             *)

LEMMA RowsKept ==
  ASSUME ConversationInv, UNCHANGED messages, BornFixed,
         \A q \in Requests :
            /\ run'[q] = "none" <=> run[q] = "none"
            /\ run'[q] = "succeeded" <=> run[q] = "succeeded"
            /\ run'[q] \in ActiveStatus => run[q] \in ActiveStatus
  PROVE  RowsSound'
<1>1. TypeOK /\ RowsSound /\ \A m \in messages : m \in MessageRow
  BY DEF ConversationInv, TypeOK, MessageRow, Threads
<1>2. \A m \in messages : m.turn \in Requests
  BY <1>1 DEF MessageRow
<1>3. \A q \in Requests : run[q] # "none" => Conv(q)' = Conv(q) /\ Author(q)' = Author(q)
  BY DEF BornFixed, Conv, Author
<1>4. \A m \in messages : run[m.turn] # "none"
  BY <1>1, <1>2 DEF RowsSound, RunsOfMessages, RepliesFit
<1>5. OneMessageEach'
  BY <1>1 DEF RowsSound, OneMessageEach
<1>6. RunsOfMessages'
  <2>1. \A m \in messages : m.conv = Conv(m.turn)'
    BY <1>1, <1>2, <1>3, <1>4 DEF RowsSound, RunsOfMessages
  <2> QED
    BY <1>1, <2>1 DEF RowsSound, RunsOfMessages, User
<1>7. NoGaps'
  <2>1. NoGaps
    BY <1>1 DEF RowsSound
  <2>2. ASSUME NEW c, NEW n PROVE Filled(c, n)' = Filled(c, n)
    BY DEF Filled, Taken
  <2> QED
    BY <2>1, <2>2 DEF NoGaps
<1>8. RepliesFit'
  <2>1. RepliesFit
    BY <1>1 DEF RowsSound
  <2>2. ASSUME NEW m \in messages, ~User(m)
        PROVE  /\ run'[m.turn] = "succeeded"
               /\ \E u \in messages : User(u) /\ u.turn = m.turn /\ m.ordinal = u.ordinal + 1
    BY <1>2, <2>1, <2>2 DEF RepliesFit
  <2>3. ASSUME NEW q \in Requests, run'[q] = "succeeded"
        PROVE  \E m \in messages : ~User(m) /\ m.turn = q
    BY <2>1, <2>3 DEF RepliesFit
  <2> QED
    BY <2>2, <2>3 DEF RepliesFit, User
<1>9. ActiveIsLast'
  <2>1. ActiveIsLast
    BY <1>1 DEF RowsSound
  <2>2. \A m \in messages : Active(m.turn)' => Active(m.turn)
    BY <1>2 DEF Active
  <2> QED
    BY <2>1, <2>2 DEF ActiveIsLast, User
<1>10. KeysOnce'
  <2>1. \A m \in messages : Author(m.turn)' = Author(m.turn)
                            /\ request'[m.turn].key = request[m.turn].key
    BY <1>2, <1>3, <1>4 DEF BornFixed
  <2> QED
    BY <1>1, <2>1 DEF RowsSound, KeysOnce, User
<1>11. OneActiveRun'
  <2>1. \A q \in Requests : run'[q] \in ActiveStatus =>
          run[q] \in ActiveStatus /\ Conv(q)' = Conv(q)
    BY <1>3 DEF ActiveStatus
  <2> QED
    BY <1>1, <2>1 DEF RowsSound, OneActiveRun, ActiveStatus
<1> QED
  BY <1>5, <1>6, <1>7, <1>8, <1>9, <1>10, <1>11 DEF RowsSound

LEMMA SubmissionKept ==
  ASSUME ConversationInv, Grows, NEW x \in Requests, request'[x] = request[x],
         Unborn(x) => run'[x] = "none" /\ work'[x] = "none",
         request[x].phase = "committed" =>
            run'[x] \in {"queued", "cancelled"} /\ work'[x] = "none"
  PROVE  SubmissionSound(x)'
<1>1. SubmissionSound(x)
  BY DEF ConversationInv, RequestsSound
<1>2. Conv(x)' = Conv(x) /\ Author(x)' = Author(x)
  BY DEF Conv, Author
<1>3. \A c, k : Taken(c, k) => Taken(c, k)'
  BY DEF Taken, Grows
<1>4. \A k : Taken(Conv(x), k) => \E m \in messages' : m.conv = Conv(x)' /\ m.ordinal = k
  BY <1>2 DEF Taken, Grows
<1>5. request[x].phase = "numbered" =>
        \A k \in 1..request[x].ordinal - 1 : Taken(Conv(x), k)'
  BY <1>1, <1>4 DEF SubmissionSound, Taken
<1>6. request[x].answer = "replayed" => \E m \in messages' :
         /\ User(m) /\ m.conv = Conv(x)' /\ m.turn # x
         /\ Author(m.turn)' = Author(x)'
         /\ request'[m.turn].key = request'[x].key
         /\ request'[m.turn].body = request'[x].body
  <2> SUFFICES ASSUME request[x].answer = "replayed"
               PROVE  \E m \in messages' :
                         /\ User(m) /\ m.conv = Conv(x)' /\ m.turn # x
                         /\ Author(m.turn)' = Author(x)'
                         /\ request'[m.turn].key = request'[x].key
                         /\ request'[m.turn].body = request'[x].body
    OBVIOUS
  <2>1. PICK m \in messages : /\ User(m) /\ m.conv = Conv(x) /\ m.turn # x
                              /\ Author(m.turn) = Author(x)
                              /\ request[m.turn].key = request[x].key
                              /\ request[m.turn].body = request[x].body
    BY <1>1 DEF SubmissionSound
  <2>2. m \in messages' /\ m.turn \in Requests /\ run[m.turn] # "none"
    BY <2>1 DEF Grows, ConversationInv, TypeOK, RowsSound, RunsOfMessages
  <2>3. /\ Author(m.turn)' = Author(m.turn)
        /\ request'[m.turn].key = request[m.turn].key
        /\ request'[m.turn].body = request[m.turn].body
    BY <2>2 DEF Grows, BornFixed, Author
  <2> QED
    BY <1>2, <2>1, <2>2, <2>3
<1> QED
  BY <1>1, <1>5, <1>6 DEF SubmissionSound, Unborn, User

LEMMA WorkKept ==
  ASSUME ConversationInv, Grows, NEW x \in Requests,
         request'[x] = request[x], run'[x] = run[x], work'[x] = work[x]
  PROVE  WorkSound(x)'
<1>1. WorkSound(x)
  BY DEF ConversationInv, RequestsSound
<1> QED
  BY <1>1 DEF WorkSound, Grows, User

-----------------------------------------------------------------------------
(* Steps of one submission that store nothing                               *)

LEMMA RequestStep ==
  ASSUME ConversationInv, ready, NEW q \in Requests, NEW r \in Submission,
         request' = [request EXCEPT ![q] = r], Unborn(q), SubmissionSound(q)',
         locked' \in [Sessions -> Requests \cup {NoRequest}],
         UNCHANGED <<rows, executor, ready, starts>>
  PROVE  ConversationInv'
<1>1. TypeOK /\ SubmissionSound(q) /\ run[q] = "none" /\ work[q] = "none"
  BY DEF ConversationInv, RequestsSound, SubmissionSound
<1>2. /\ request'[q] = r /\ \A x \in Requests \ {q} : request'[x] = request[x]
      /\ request' \in [Requests -> Submission]
  BY <1>1 DEF TypeOK, Submission
<1>3. BornFixed /\ Grows
  BY <1>1, <1>2 DEF BornFixed, Grows, rows
<1>4. TypeOK'
  BY <1>1, <1>2 DEF TypeOK, Submission, rows, executor
<1>5. RowsSound'
  <2>1. UNCHANGED <<messages, run>>
    BY DEF rows
  <2> QED
    BY <1>3, <2>1, RowsKept
<1>6. ASSUME NEW x \in Requests PROVE SubmissionSound(x)' /\ WorkSound(x)'
  <2>1. CASE x = q
    <3>1. work'[q] = "none"
      BY <1>1 DEF executor
    <3> QED
      BY <2>1, <3>1 DEF WorkSound
  <2>2. CASE x # q
    <3>1. request'[x] = request[x] /\ run'[x] = run[x] /\ work'[x] = work[x]
      BY <1>2, <2>2 DEF rows, executor
    <3>2. SubmissionSound(x)
      BY DEF ConversationInv, RequestsSound
    <3> QED
      BY <1>3, <3>1, <3>2, SubmissionKept, WorkKept DEF SubmissionSound
  <2> QED
    BY <2>1, <2>2
<1>7. BacklogWaits' /\ GateHolds'
  BY DEF ConversationInv, BacklogWaits, GateHolds, executor
<1> QED
  BY <1>4, <1>5, <1>6, <1>7 DEF ConversationInv, RequestsSound

(* A submission that is under way is one of this process, and reconciled.   *)
LEMMA UnderWay ==
  ASSUME ConversationInv, NEW q \in Requests,
         request[q].phase \notin {"idle", "answered", "lost"} \/ work[q] # "none"
  PROVE  ready
  BY DEF ConversationInv, GateHolds

LEMMA LockTyped ==
  ASSUME ConversationInv, NEW q \in Requests, NEW v \in Requests \cup {NoRequest}
  PROVE  [locked EXCEPT ![request[q].session] = v] \in [Sessions -> Requests \cup {NoRequest}]
  BY DEF ConversationInv, TypeOK

LEMMA ArriveStep ==
  ASSUME ConversationInv, NEW q \in Requests, NEW s \in Sessions, NEW k \in Keys,
         NEW b \in Bodies, Arrive(q, s, k, b)
  PROVE  ConversationInv'
<1> DEFINE r == [request[q] EXCEPT !.phase = "arrived", !.session = s, !.key = k, !.body = b]
<1>1. TypeOK /\ request[q] \in Submission /\ request[q].phase = "idle" /\ ready
  BY ThreadOf DEF ConversationInv, Arrive
<1>2. r \in Submission /\ r.phase = "arrived" /\ r.answer = request[q].answer
  BY <1>1 DEF Submission, Phase
<1>3. request' = [request EXCEPT ![q] = r] /\ UNCHANGED <<rows, locked, executor, ready, starts>>
  BY DEF Arrive
<1> HIDE DEF r
<1>4. Unborn(q) /\ SubmissionSound(q)
  BY <1>1 DEF Unborn, ConversationInv, RequestsSound
<1>5. request'[q] = r
  BY <1>1, <1>3 DEF TypeOK
<1>6. SubmissionSound(q)'
  BY <1>2, <1>3, <1>4, <1>5 DEF SubmissionSound, Unborn, rows, executor
<1>7. locked' \in [Sessions -> Requests \cup {NoRequest}]
  BY <1>1, <1>3 DEF TypeOK
<1> QED
  BY <1>1, <1>2, <1>3, <1>4, <1>6, <1>7, RequestStep

(* A step to an answer or out of the way that replays nothing.              *)
LEMMA PhaseStep ==
  ASSUME ConversationInv, NEW q \in Requests, Unborn(q), request[q].phase # "idle",
         NEW p \in {"checked", "conflicted", "lost", "answered"}, NEW a \in Answer \ {"replayed"},
         p \in {"checked", "conflicted"} => a = "none",
         request' = [request EXCEPT ![q].phase = p, ![q].answer = a],
         locked' \in [Sessions -> Requests \cup {NoRequest}],
         UNCHANGED <<rows, executor, ready, starts>>
  PROVE  ConversationInv'
<1> DEFINE r == [request[q] EXCEPT !.phase = p, !.answer = a]
<1>1. TypeOK /\ request[q] \in Submission /\ SubmissionSound(q)
  BY ThreadOf DEF ConversationInv, RequestsSound
<1>2. r \in Submission /\ r.phase = p /\ r.answer = a
  BY <1>1 DEF Submission, Phase
<1>3. request' = [request EXCEPT ![q] = r]
  BY <1>1 DEF TypeOK
<1> HIDE DEF r
<1>4. request'[q] = r
  BY <1>1, <1>3 DEF TypeOK
<1>5. SubmissionSound(q)'
  BY <1>1, <1>2, <1>4 DEF SubmissionSound, Unborn, rows, executor
<1>6. ready
  BY UnderWay DEF Unborn
<1> QED
  BY <1>2, <1>3, <1>5, <1>6, RequestStep

(* A replayed answer is given for the content of the stored message.        *)
LEMMA AnswerByKeyStep ==
  ASSUME ConversationInv, NEW q \in Requests, request[q].phase \in {"arrived", "conflicted"},
         AnswerByKey(q) # "none",
         request' = [request EXCEPT ![q].phase = "answered", ![q].answer = AnswerByKey(q)],
         UNCHANGED <<rows, locked, executor, ready, starts>>
  PROVE  ConversationInv'
<1> DEFINE r == [request[q] EXCEPT !.phase = "answered", !.answer = AnswerByKey(q)]
<1>1. /\ TypeOK /\ request[q] \in Submission /\ SubmissionSound(q)
      /\ Unborn(q) /\ run[q] = "none" /\ ready
  BY ThreadOf, UnderWay DEF ConversationInv, RequestsSound, SubmissionSound, Unborn
<1>2. AnswerByKey(q) \in {"replayed", "conflict"}
  BY DEF AnswerByKey
<1>3. r \in Submission /\ r.phase = "answered" /\ r.answer = AnswerByKey(q)
      /\ r.session = request[q].session /\ r.key = request[q].key /\ r.body = request[q].body
  BY <1>1, <1>2 DEF Submission, Phase, Answer
<1>4. request' = [request EXCEPT ![q] = r]
  BY <1>1 DEF TypeOK
<1> HIDE DEF r
<1>5. request'[q] = r /\ \A x \in Requests \ {q} : request'[x] = request[x]
  BY <1>1, <1>4 DEF TypeOK
<1>6. ASSUME AnswerByKey(q) = "replayed"
      PROVE  \E m \in messages' :
                /\ User(m) /\ m.conv = Conv(q)' /\ m.turn # q
                /\ Author(m.turn)' = Author(q)'
                /\ request'[m.turn].key = request'[q].key
                /\ request'[m.turn].body = request'[q].body
  <2>1. PICK x \in SameKey(q) : request[x].body = request[q].body
    BY <1>6 DEF AnswerByKey
  <2>2. PICK m \in messages : /\ m.conv = Conv(q) /\ m.role = "user" /\ m.turn = x
                              /\ Author(m.turn) = Author(q)
                              /\ request[m.turn].key = request[q].key
    BY <2>1 DEF SameKey, UserMessages
  <2>3. m.turn \in Requests /\ run[m.turn] # "none"
    BY <2>2 DEF ConversationInv, TypeOK, RowsSound, RunsOfMessages, User
  <2>4. m.turn # q /\ request'[m.turn] = request[m.turn]
    BY <1>1, <1>5, <2>3
  <2> QED
    BY <1>3, <1>5, <2>1, <2>2, <2>4 DEF rows, User, Conv, Author
<1>7. SubmissionSound(q)'
  BY <1>2, <1>3, <1>5, <1>6 DEF SubmissionSound, Unborn, User
<1>8. locked' \in [Sessions -> Requests \cup {NoRequest}]
  BY <1>1 DEF TypeOK
<1> QED
  BY <1>1, <1>3, <1>4, <1>7, <1>8, RequestStep

LEMMA CheckStep ==
  ASSUME ConversationInv, NEW q \in Requests, CheckSubmission(q)
  PROVE  ConversationInv'
<1>1. /\ Unborn(q) /\ request[q].phase = "arrived" /\ request[q].answer = "none"
      /\ TypeOK /\ request[q] \in Submission
  BY ThreadOf DEF CheckSubmission, Unborn, ConversationInv, RequestsSound, SubmissionSound
<1>2. UNCHANGED <<rows, executor, ready, starts>>
  BY DEF CheckSubmission
<1>3. CASE /\ request' = [request EXCEPT ![q].phase = "checked"]
           /\ locked' = [locked EXCEPT ![request[q].session] = q]
  <2>1. request' = [request EXCEPT ![q].phase = "checked", ![q].answer = "none"]
    BY <1>1, <1>3 DEF TypeOK
  <2>2. "none" \in Answer \ {"replayed"}
    BY DEF Answer
  <2> QED
    BY <1>1, <1>2, <1>3, <2>1, <2>2, LockTyped, PhaseStep
<1>4. ASSUME NEW a \in {"closed", "busy"}, UNCHANGED locked,
             request' = [request EXCEPT ![q].phase = "answered", ![q].answer = a]
      PROVE  ConversationInv'
  <2>1. a \in Answer \ {"replayed"}
    BY DEF Answer
  <2>2. locked' \in [Sessions -> Requests \cup {NoRequest}]
    BY <1>1, <1>4 DEF TypeOK
  <2> QED
    BY <1>1, <1>2, <1>4, <2>1, <2>2, PhaseStep
<1>5. CASE /\ AnswerByKey(q) # "none" /\ UNCHANGED locked
           /\ request' = [request EXCEPT ![q].phase = "answered", ![q].answer = AnswerByKey(q)]
  BY <1>1, <1>2, <1>5, AnswerByKeyStep
<1> QED
  BY <1>3, <1>4, <1>5 DEF CheckSubmission

LEMMA NumberMessageStep ==
  ASSUME ConversationInv, NEW q \in Requests, NumberMessage(q)
  PROVE  ConversationInv'
<1> DEFINE r == [request[q] EXCEPT !.phase = "numbered", !.ordinal = NextOrdinal(Conv(q))]
<1>1. /\ TypeOK /\ request[q] \in Submission /\ SubmissionSound(q) /\ Conv(q) \in Threads
      /\ Unborn(q) /\ run[q] = "none" /\ ready
  BY ThreadOf, UnderWay
     DEF ConversationInv, RequestsSound, SubmissionSound, Unborn, NumberMessage
<1>2. PICK n \in Nat : Filled(Conv(q), n)
  BY <1>1 DEF ConversationInv, RowsSound, NoGaps
<1>3. NextOrdinal(Conv(q)) = n + 1 /\ \A k \in 1..n : Taken(Conv(q), k)
  BY <1>1, <1>2, NextOfFilled
<1>4. r \in Submission /\ r.phase = "numbered" /\ r.ordinal = n + 1
      /\ r.session = request[q].session /\ r.answer = request[q].answer
  <2>1. n + 1 \in Nat /\ "numbered" \in Phase /\ NextOrdinal(Conv(q)) = n + 1
    BY <1>3 DEF Phase
  <2> QED
    BY <1>1, <2>1 DEF Submission
<1>5. request' = [request EXCEPT ![q] = r] /\ UNCHANGED <<rows, locked, executor, ready, starts>>
  BY DEF NumberMessage
<1> HIDE DEF r
<1>6. request'[q] = r
  BY <1>1, <1>5 DEF TypeOK
<1>7. \A k \in 1..r.ordinal - 1 : Taken(Conv(q), k)'
  <2>1. Conv(q)' = Conv(q)
    BY <1>4, <1>6 DEF Conv
  <2>2. r.ordinal - 1 = n
    BY <1>4
  <2> QED
    BY <1>3, <1>5, <2>1, <2>2 DEF Taken, rows
<1>8. SubmissionSound(q)'
  BY <1>1, <1>4, <1>5, <1>6, <1>7 DEF SubmissionSound, Unborn, rows, executor
<1>9. locked' \in [Sessions -> Requests \cup {NoRequest}]
  BY <1>1, <1>5 DEF TypeOK
<1> QED
  BY <1>1, <1>4, <1>5, <1>8, <1>9, RequestStep

LEMMA ConflictSteps ==
  ASSUME ConversationInv, NEW q \in Requests,
         SubmissionConflicts(q) \/ SubmissionFails(q) \/ ResolveConflict(q)
  PROVE  ConversationInv'
<1>1. TypeOK /\ request[q] \in Submission
  BY ThreadOf DEF ConversationInv
<1>2. Unborn(q) /\ request[q].phase # "idle" /\ request[q].answer = "none"
      /\ UNCHANGED <<rows, executor, ready, starts>>
  BY DEF ConversationInv, RequestsSound, SubmissionSound, Unborn,
         SubmissionConflicts, SubmissionFails, ResolveConflict
<1>3. "none" \in Answer \ {"replayed"} /\ "busy" \in Answer \ {"replayed"}
      /\ "error" \in Answer \ {"replayed"}
  BY DEF Answer
<1>4. ASSUME NEW p \in {"conflicted", "lost"}, request' = [request EXCEPT ![q].phase = p],
             Unlock(q)
      PROVE  ConversationInv'
  <2>1. request' = [request EXCEPT ![q].phase = p, ![q].answer = "none"]
    BY <1>1, <1>2, <1>4 DEF TypeOK
  <2>2. locked' \in [Sessions -> Requests \cup {NoRequest}]
    BY <1>4, LockTyped DEF Unlock
  <2> QED
    BY <1>2, <1>3, <2>1, <2>2, PhaseStep
<1>5. CASE ResolveConflict(q)
  <2>1. request[q].phase = "conflicted" /\ UNCHANGED locked
    BY <1>5 DEF ResolveConflict
  <2>2. locked' \in [Sessions -> Requests \cup {NoRequest}]
    BY <1>1, <2>1 DEF TypeOK
  <2>3. ASSUME NEW a \in {"busy", "error"},
               request' = [request EXCEPT ![q].phase = "answered", ![q].answer = a]
        PROVE  ConversationInv'
    BY <1>2, <1>3, <2>2, <2>3, PhaseStep
  <2>4. CASE AnswerByKey(q) # "none"
    BY <1>2, <1>5, <2>1, <2>4, AnswerByKeyStep DEF ResolveConflict
  <2> QED
    BY <1>5, <2>3, <2>4 DEF ResolveConflict
<1> QED
  BY <1>4, <1>5 DEF SubmissionConflicts, SubmissionFails

-----------------------------------------------------------------------------
(* Steps that change the status of one run, or who works on it              *)

LEMMA RunStep ==
  ASSUME ConversationInv, ready, NEW q \in Requests, NEW r \in RunStatus, NEW w \in Work,
         run' = [run EXCEPT ![q] = r], work' = [work EXCEPT ![q] = w],
         UNCHANGED <<session, messages, request, locked, ready, starts>>,
         log' \in [Sessions -> Seq(LogEntry)],
         backlog' \in Seq(Requests), BacklogWaits',
         ~Unborn(q),
         r = run[q] \/ (run[q] \in ActiveStatus /\ r \notin {"none", "succeeded"}),
         request[q].phase = "committed" => r \in {"queued", "cancelled"} /\ w = "none",
         w # "none" => request[q].phase = "answered",
         w \in {"waiting", "taken"} => r \in {"queued", "cancelled"},
         w = "generating" => r \in {"running", "cancel_requested"},
         w # "replying"
  PROVE  ConversationInv'
<1>1. TypeOK
  BY DEF ConversationInv
<1>2. /\ run'[q] = r /\ \A x \in Requests \ {q} : run'[x] = run[x]
      /\ work'[q] = w /\ \A x \in Requests \ {q} : work'[x] = work[x]
      /\ run' \in [Requests -> RunStatus] /\ work' \in [Requests -> Work]
  BY <1>1 DEF TypeOK
<1>3. Grows
  BY DEF Grows, BornFixed
<1>4. TypeOK'
  BY <1>1, <1>2 DEF TypeOK, LogEntry
<1>5. RowsSound'
  <2>1. \A x \in Requests :
            /\ run'[x] = "none" <=> run[x] = "none"
            /\ run'[x] = "succeeded" <=> run[x] = "succeeded"
            /\ run'[x] \in ActiveStatus => run[x] \in ActiveStatus
    BY <1>2 DEF ActiveStatus
  <2> QED
    BY <1>3, <2>1, RowsKept DEF Grows
<1>6. ASSUME NEW x \in Requests PROVE SubmissionSound(x)' /\ WorkSound(x)'
  <2>1. CASE x = q
    <3>1. SubmissionSound(q)'
      BY <1>2, <1>3, SubmissionKept
    <3>2. WorkSound(q)'
      BY <1>2 DEF WorkSound
    <3> QED
      BY <2>1, <3>1, <3>2
  <2>2. CASE x # q
    <3>1. request'[x] = request[x] /\ run'[x] = run[x] /\ work'[x] = work[x]
      BY <1>2, <2>2
    <3>2. SubmissionSound(x)
      BY DEF ConversationInv, RequestsSound
    <3> QED
      BY <1>3, <3>1, <3>2, SubmissionKept, WorkKept DEF SubmissionSound
  <2> QED
    BY <2>1, <2>2
<1>7. GateHolds'
  BY DEF GateHolds
<1> QED
  BY <1>4, <1>5, <1>6, <1>7 DEF ConversationInv, RequestsSound

(* The events a run emits have the type of the log.                         *)
LEMMA EmitRunTyped ==
  ASSUME ConversationInv, NEW q \in Requests, NEW events \in Seq(Event), EmitRun(q, events)
  PROVE  log' \in [Sessions -> Seq(LogEntry)]
<1>1. TypeOK /\ request[q].session \in Sessions
  BY ThreadOf DEF ConversationInv, Submission
<1> QED
  BY <1>1, EmitTyped DEF EmitRun

LEMMA LogTyped ==
  ASSUME ConversationInv
  PROVE  log \in [Sessions -> Seq(LogEntry)]
  BY DEF ConversationInv, TypeOK, LogEntry

(* A run that has left the backlog may change hands.                        *)
LEMMA BacklogKept ==
  ASSUME ConversationInv, NEW q \in Requests, NEW w \in Work,
         work' = [work EXCEPT ![q] = w], UNCHANGED backlog,
         work[q] # "waiting" \/ w = work[q]
  PROVE  BacklogWaits' /\ backlog' \in Seq(Requests)
<1>1. backlog \in Seq(Requests) /\ work \in [Requests -> Work]
  BY DEF ConversationInv, TypeOK
<1>2. \A i \in 1..Len(backlog) : backlog[i] \in Requests /\ work[backlog[i]] = "waiting"
  BY <1>1 DEF ConversationInv, BacklogWaits
<1> QED
  BY <1>1, <1>2 DEF ConversationInv, BacklogWaits

(* A run with a status belongs to a committed submission.                   *)
LEMMA BornOf ==
  ASSUME ConversationInv, NEW q \in Requests, run[q] # "none" \/ work[q] # "none"
  PROVE  ~Unborn(q) /\ SubmissionSound(q) /\ WorkSound(q)
  BY DEF ConversationInv, RequestsSound, SubmissionSound

LEMMA CancelSteps ==
  ASSUME ConversationInv, NEW q \in Requests, CancelQueued(q) \/ CancelRunning(q)
  PROVE  ConversationInv'
<1>1. /\ ready /\ UNCHANGED <<session, messages, request, locked, backlog, work, starts, ready>>
      /\ run[q] \in {"queued", "running"}
  BY DEF CancelQueued, CancelRunning, submissions, executor
<1>2. ~Unborn(q) /\ SubmissionSound(q) /\ WorkSound(q) /\ work[q] \in Work
      /\ work \in [Requests -> Work]
  BY <1>1, BornOf DEF ConversationInv, TypeOK
<1>3. work' = [work EXCEPT ![q] = work[q]]
  BY <1>1, <1>2
<1>4. BacklogWaits' /\ backlog' \in Seq(Requests)
  BY <1>1, <1>2, <1>3, BacklogKept
<1>5. CASE CancelQueued(q)
  <2>1. <<"run.cancelled">> \in Seq(Event) /\ "cancelled" \in RunStatus
    BY DEF Event, RunStatus, SettledStatus
  <2>2. log' \in [Sessions -> Seq(LogEntry)]
    BY <1>5, <2>1, EmitRunTyped DEF CancelQueued
  <2> QED
    BY <1>1, <1>2, <1>3, <1>4, <1>5, <2>1, <2>2, RunStep
       DEF CancelQueued, ActiveStatus, SubmissionSound, WorkSound
<1>6. CASE CancelRunning(q)
  <2>1. <<"run.cancel_requested">> \in Seq(Event) /\ "cancel_requested" \in RunStatus
    BY DEF Event, RunStatus, ActiveStatus
  <2>2. log' \in [Sessions -> Seq(LogEntry)]
    BY <1>6, <2>1, EmitRunTyped DEF CancelRunning
  <2> QED
    BY <1>1, <1>2, <1>3, <1>4, <1>6, <2>1, <2>2, RunStep
       DEF CancelRunning, ActiveStatus, SubmissionSound, WorkSound
<1> QED
  BY <1>5, <1>6

LEMMA TakeRunStep ==
  ASSUME ConversationInv, TakeRun
  PROVE  ConversationInv'
<1>1. /\ backlog # <<>> /\ backlog \in Seq(Requests) /\ backlog' = Tail(backlog)
      /\ run \in [Requests -> RunStatus] /\ work \in [Requests -> Work]
      /\ work' = [work EXCEPT ![Head(backlog)] = "taken"]
      /\ UNCHANGED <<session, run, messages, log, request, locked, ready, starts>>
  BY DEF TakeRun, Working, ConversationInv, TypeOK, rows, submissions
<1>2. PICK q \in Requests : q = Head(backlog) /\ q = backlog[1]
  BY <1>1
<1>3. work[q] = "waiting"
  BY <1>1, <1>2 DEF ConversationInv, BacklogWaits
<1>4. ~Unborn(q) /\ SubmissionSound(q) /\ WorkSound(q) /\ ready
  BY <1>3, BornOf, UnderWay
<1>5. BacklogWaits' /\ backlog' \in Seq(Requests)
  <2>1. /\ Len(backlog') = Len(backlog) - 1 /\ backlog' \in Seq(Requests)
        /\ \A i \in 1..Len(backlog') : backlog'[i] = backlog[i + 1] /\ i + 1 \in 1..Len(backlog)
    BY <1>1
  <2>2. \A i \in 1..Len(backlog') : backlog'[i] # q /\ backlog'[i] \in Requests
    BY <1>1, <1>2, <2>1 DEF ConversationInv, BacklogWaits
  <2>3. \A i \in 1..Len(backlog') : work'[backlog'[i]] = "waiting"
    BY <1>1, <1>2, <2>1, <2>2 DEF ConversationInv, BacklogWaits
  <2>4. \A i, j \in 1..Len(backlog') : backlog'[i] = backlog'[j] => i = j
    BY <2>1 DEF ConversationInv, BacklogWaits
  <2> QED
    BY <2>1, <2>3, <2>4 DEF BacklogWaits
<1>6. /\ "taken" \in Work /\ run[q] \in RunStatus /\ run' = [run EXCEPT ![q] = run[q]]
      /\ work' = [work EXCEPT ![q] = "taken"]
  BY <1>1, <1>2 DEF Work
<1>7. log' \in [Sessions -> Seq(LogEntry)]
  BY <1>1, LogTyped
<1> QED
  BY <1>1, <1>3, <1>4, <1>5, <1>6, <1>7, RunStep DEF WorkSound

(* The steps of a worker that store no reply.                               *)
LEMMA WorkerStep ==
  ASSUME ConversationInv, NEW q \in Requests,
         NEW r \in RunStatus, NEW w \in {"none", "generating", "failing"},
         work[q] \notin {"none", "waiting"},
         r = run[q] \/ (run[q] \in ActiveStatus /\ r \notin {"none", "succeeded"}),
         w = "generating" => r = "running",
         run' = [run EXCEPT ![q] = r], Working(q, w),
         log' \in [Sessions -> Seq(LogEntry)],
         UNCHANGED <<session, messages, submissions, backlog, ready, starts>>
  PROVE  ConversationInv'
<1>1. ~Unborn(q) /\ SubmissionSound(q) /\ WorkSound(q) /\ ready /\ w \in Work
  BY BornOf, UnderWay DEF Work
<1>2. BacklogWaits' /\ backlog' \in Seq(Requests)
  BY <1>1, BacklogKept DEF Working
<1>3. request[q].phase = "answered"
  BY <1>1 DEF WorkSound
<1> QED
  BY <1>1, <1>2, <1>3, RunStep DEF Working, submissions

(* The run as it is.                                                        *)
LEMMA SameRun ==
  ASSUME ConversationInv, NEW q \in Requests, UNCHANGED run
  PROVE  run' = [run EXCEPT ![q] = run[q]] /\ run[q] \in RunStatus
  BY DEF ConversationInv, TypeOK

LEMMA WorkerSteps ==
  ASSUME ConversationInv, NEW q \in Requests,
         \/ StartRun(q) \/ SkipRun(q) \/ FailRun(q) \/ FinishCancelled(q)
         \/ WorkerFails(q) \/ RecordFailure(q) \/ DropRun(q)
  PROVE  ConversationInv'
<1>1. "running" \in RunStatus /\ "failed" \in RunStatus /\ "cancelled" \in RunStatus
  BY DEF RunStatus, ActiveStatus, SettledStatus
<1>2. /\ <<"run.started">> \in Seq(Event) /\ <<"run.failed">> \in Seq(Event)
      /\ <<"run.cancelled">> \in Seq(Event)
  BY DEF Event
<1>3. CASE StartRun(q)
  <2>1. log' \in [Sessions -> Seq(LogEntry)]
    BY <1>2, <1>3, EmitRunTyped DEF StartRun
  <2> QED
    BY <1>1, <1>3, <2>1, WorkerStep DEF StartRun, Startable, ActiveStatus
<1>4. CASE SkipRun(q) \/ WorkerFails(q) \/ DropRun(q)
  <2>1. UNCHANGED <<session, run, messages, log, submissions, backlog, ready, starts>>
    BY <1>4 DEF SkipRun, WorkerFails, DropRun, rows
  <2>2. /\ work[q] \in {"taken", "generating", "replying", "failing"}
        /\ Working(q, "none") \/ Working(q, "failing")
    BY <1>4 DEF SkipRun, WorkerFails, DropRun
  <2>3. log' \in [Sessions -> Seq(LogEntry)]
    BY <2>1, LogTyped
  <2> QED
    BY <2>1, <2>2, <2>3, SameRun, WorkerStep
<1>5. CASE FailRun(q)
  <2>1. log' \in [Sessions -> Seq(LogEntry)]
    BY <1>2, <1>5, EmitRunTyped DEF FailRun
  <2> QED
    BY <1>1, <1>5, <2>1, WorkerStep DEF FailRun, ActiveStatus
<1>6. CASE FinishCancelled(q)
  <2>1. log' \in [Sessions -> Seq(LogEntry)]
    BY <1>2, <1>6, EmitRunTyped DEF FinishCancelled
  <2> QED
    BY <1>1, <1>6, <2>1, WorkerStep DEF FinishCancelled, ActiveStatus
<1>7. ASSUME RecordFailure(q) PROVE ConversationInv'
  <2>1. log' \in [Sessions -> Seq(LogEntry)]
    <3>1. CASE run[q] = "cancel_requested"
      BY <1>2, <1>7, <3>1, EmitRunTyped DEF RecordFailure
    <3>2. CASE run[q] # "cancel_requested"
      BY <1>2, <1>7, <3>2, EmitRunTyped DEF RecordFailure
    <3> QED
      BY <3>1, <3>2
  <2>2. PICK r \in {"cancelled", "failed"} : run' = [run EXCEPT ![q] = r]
    BY <1>7 DEF RecordFailure
  <2> QED
    BY <1>1, <1>7, <2>1, <2>2, WorkerStep DEF RecordFailure, Unsettled
<1> QED
  BY <1>3, <1>4, <1>5, <1>6, <1>7

-----------------------------------------------------------------------------
(* Steps that store a message                                               *)

(* The next message of a conversation.                                      *)
LEMMA StoreMessage ==
  ASSUME ConversationInv, NEW new \in MessageRow, NEW n \in Nat,
         Filled(new.conv, n), new.ordinal = n + 1,
         messages' = messages \cup {new},
         \A m \in messages : ~(m.role = new.role /\ m.turn = new.turn)
  PROVE  OneMessageEach' /\ NoGaps' /\ \A m \in messages : m.conv = new.conv => m.ordinal <= n
<1>1. \A m \in messages : m \in MessageRow
  BY DEF ConversationInv, TypeOK, MessageRow, Threads
<1>2. \A m \in messages : m.conv = new.conv => m.ordinal <= n
  BY <1>1 DEF Filled, Taken, MessageRow
<1>3. n + 1 > n
  OBVIOUS
<1>4. \A m \in messages : ~(m.conv = new.conv /\ m.ordinal = new.ordinal)
  BY <1>1, <1>2, <1>3 DEF MessageRow
<1>5. OneMessageEach'
  BY <1>4 DEF ConversationInv, RowsSound, OneMessageEach
<1>6. NoGaps'
  <2> SUFFICES ASSUME NEW c \in Threads PROVE \E k \in Nat : Filled(c, k)'
    BY DEF NoGaps
  <2>1. PICK k \in Nat : Filled(c, k)
    BY DEF ConversationInv, RowsSound, NoGaps
  <2>2. CASE c = new.conv
    <3>1. \A j \in Nat \ {0} : Taken(c, j)' <=> Taken(c, j) \/ j = n + 1
      BY <2>2 DEF Taken
    <3>2. \A j \in Nat \ {0} : Taken(c, j)' <=> j <= n + 1
      BY <2>2, <3>1 DEF Filled
    <3>3. n + 1 \in Nat /\ Filled(c, n + 1)'
      BY <3>2 DEF Filled
    <3> QED
      BY <3>3
  <2>3. CASE c # new.conv
    <3>1. \A j \in Nat \ {0} : Taken(c, j)' <=> Taken(c, j)
      BY <2>3 DEF Taken
    <3> QED
      BY <2>1, <3>1 DEF Filled
  <2> QED
    BY <2>2, <2>3
<1> QED
  BY <1>2, <1>5, <1>6

(* The rows that are inserted fit the conversation, although it was read in *)
(* an earlier step and the transaction locks another row.                   *)
LEMMA CommitSubmissionStep ==
  ASSUME ConversationInv, NEW q \in Requests, CommitSubmission(q)
  PROVE  ConversationInv'
<1> DEFINE c == Conv(q)
           k == request[q].ordinal
           new == [conv |-> c, ordinal |-> k, role |-> "user", turn |-> q]
<1>1. /\ TypeOK /\ request[q] \in Submission /\ SubmissionSound(q) /\ c \in Threads
      /\ request[q].phase = "numbered" /\ ready
  BY ThreadOf, UnderWay DEF ConversationInv, RequestsSound, CommitSubmission
<1>2. run[q] = "none" /\ work[q] = "none" /\ request[q].answer = "none"
  BY <1>1 DEF SubmissionSound, Unborn
<1>3. /\ SameKey(q) = {} /\ ActiveRuns(c) = {} /\ ~Taken(c, k)
      /\ messages' = messages \cup {new} /\ run' = [run EXCEPT ![q] = "queued"]
      /\ Emit(request[q].session, <<"message.accepted", "run.queued">>, q)
      /\ Unlock(q) /\ UNCHANGED <<session, executor, ready, starts>>
  BY DEF CommitSubmission, ClientIdUnique, OneActiveRunUnique, OrdinalUnique
<1>4. PICK p \in {"committed", "lost"} : request' = [request EXCEPT ![q].phase = p]
  BY DEF CommitSubmission
<1>5. k \in Nat \ {0} /\ \A j \in 1..k - 1 : Taken(c, j)
  BY <1>1 DEF SubmissionSound, Submission
<1>6. PICK n \in Nat : Filled(c, n)
  BY <1>1 DEF ConversationInv, RowsSound, NoGaps
<1>7. k = n + 1
  BY <1>1, <1>3, <1>5, <1>6, FillNext
<1>8. new \in MessageRow
  BY <1>1, <1>5 DEF MessageRow
<1>9. \A m \in messages : m.turn # q /\ m.turn \in Requests /\ run[m.turn] # "none"
  BY <1>2 DEF ConversationInv, TypeOK, RowsSound, RunsOfMessages, RepliesFit
<1>10. /\ request'[q].session = request[q].session /\ request'[q].key = request[q].key
       /\ request'[q].body = request[q].body /\ request'[q].phase = p
       /\ request'[q].answer = "none"
       /\ \A x \in Requests \ {q} : request'[x] = request[x]
       /\ request' \in [Requests -> Submission]
  BY <1>1, <1>2, <1>4 DEF TypeOK, Submission, Phase
<1>11. run'[q] = "queued" /\ \A x \in Requests \ {q} : run'[x] = run[x]
  BY <1>1, <1>3 DEF TypeOK
<1>12. /\ \A x \in Requests : Conv(x)' = Conv(x) /\ Author(x)' = Author(x)
                              /\ request'[x].key = request[x].key
       /\ Grows
  BY <1>3, <1>10 DEF Conv, Author, Grows, BornFixed
<1>13. new.conv = c /\ new.ordinal = n + 1 /\ new.role = "user" /\ new.turn = q
  BY <1>7
<1>14. \A x \in Requests \ {q} : Active(x) => Conv(x) # c
  <2> SUFFICES ASSUME NEW x \in Requests \ {q}, Active(x), Conv(x) = c PROVE FALSE
    OBVIOUS
  <2>1. PICK m \in messages : User(m) /\ m.turn = x
    BY DEF ConversationInv, RowsSound, RunsOfMessages, Active, ActiveStatus
  <2>2. m.conv = c
    BY <2>1 DEF ConversationInv, RowsSound, RunsOfMessages
  <2>3. x \in ActiveRuns(c)
    BY <2>1, <2>2 DEF ActiveRuns, UserMessages, User, Active
  <2> QED
    BY <1>3, <2>3
<1> HIDE DEF new, c, k
<1>15. OneMessageEach' /\ NoGaps' /\ \A m \in messages : m.conv = c => m.ordinal <= n
  BY <1>3, <1>6, <1>8, <1>9, <1>13, StoreMessage
<1>16. TypeOK'
  <2>1. log' \in [Sessions -> Seq(LogEntry)]
    <3>1. <<"message.accepted", "run.queued">> \in Seq(Event)
      BY DEF Event
    <3>2. request[q].session \in Sessions
      BY <1>1 DEF Submission
    <3> QED
      BY <1>1, <1>3, <3>1, <3>2, EmitTyped
  <2>2. messages' \subseteq MessageRow
    BY <1>1, <1>3, <1>8 DEF TypeOK, MessageRow, Threads
  <2>3. run' \in [Requests -> RunStatus]
    BY <1>1, <1>3 DEF TypeOK, RunStatus, ActiveStatus
  <2>4. locked' \in [Sessions -> Requests \cup {NoRequest}]
    BY <1>3, LockTyped DEF Unlock
  <2> QED
    BY <1>1, <1>3, <1>10, <2>1, <2>2, <2>3, <2>4
       DEF TypeOK, LogEntry, MessageRow, Threads, Submission, executor
<1>17. RunsOfMessages'
  <2>1. \A m \in messages' : m.conv = Conv(m.turn)'
    BY <1>3, <1>9, <1>12, <1>13 DEF ConversationInv, RowsSound, RunsOfMessages, c
  <2>2. ASSUME NEW x \in Requests
        PROVE  run'[x] # "none" <=> \E m \in messages' : User(m) /\ m.turn = x
    <3>1. CASE x = q
      BY <1>3, <1>11, <1>13, <3>1 DEF User
    <3>2. CASE x # q
      BY <1>3, <1>11, <1>13, <3>2 DEF ConversationInv, RowsSound, RunsOfMessages
    <3> QED
      BY <3>1, <3>2
  <2> QED
    BY <2>1, <2>2 DEF RunsOfMessages, User
<1>18. RepliesFit'
  <2>1. \A m \in messages' : ~User(m) => m \in messages
    BY <1>3, <1>13 DEF User
  <2>2. ASSUME NEW m \in messages', ~User(m)
        PROVE  /\ run'[m.turn] = "succeeded"
               /\ \E u \in messages' : User(u) /\ u.turn = m.turn /\ m.ordinal = u.ordinal + 1
    BY <1>3, <1>9, <1>11, <2>1, <2>2 DEF ConversationInv, RowsSound, RepliesFit
  <2>3. ASSUME NEW x \in Requests, run'[x] = "succeeded"
        PROVE  \E m \in messages' : ~User(m) /\ m.turn = x
    BY <1>3, <1>11, <2>3 DEF ConversationInv, RowsSound, RepliesFit
  <2> QED
    BY <2>2, <2>3 DEF RepliesFit, User
<1>19. ActiveIsLast'
  <2> SUFFICES ASSUME NEW m \in messages', NEW o \in messages',
                      User(m), run'[m.turn] \in ActiveStatus, o.conv = m.conv
               PROVE  o.ordinal <= m.ordinal
    BY DEF ActiveIsLast, User, Active
  <2>1. CASE m = new
    BY <1>3, <1>8, <1>13, <1>15, <2>1 DEF ConversationInv, TypeOK
  <2>2. CASE m # new
    <3>1. m \in messages /\ Active(m.turn) /\ Conv(m.turn) # c /\ m.conv = Conv(m.turn)
      BY <1>3, <1>9, <1>11, <1>14, <2>2
         DEF Active, ConversationInv, RowsSound, RunsOfMessages
    <3>2. o \in messages
      BY <1>3, <1>13, <3>1
    <3> QED
      BY <3>1, <3>2 DEF ConversationInv, RowsSound, ActiveIsLast
  <2> QED
    BY <2>1, <2>2
<1>20. KeysOnce'
  <2> SUFFICES ASSUME NEW m \in messages', NEW o \in messages', User(m), User(o),
                      m.conv = o.conv, Author(m.turn)' = Author(o.turn)',
                      request'[m.turn].key = request'[o.turn].key
               PROVE  m = o
    BY DEF KeysOnce, User
  <2>1. \A x \in messages' : /\ Author(x.turn)' = Author(x.turn)
                             /\ request'[x.turn].key = request[x.turn].key
    BY <1>3, <1>9, <1>12, <1>13
  <2>2. ASSUME NEW x \in messages, User(x), x.conv = c, Author(x.turn) = Author(q),
               request[x.turn].key = request[q].key
        PROVE  FALSE
    BY <1>3, <2>2 DEF SameKey, UserMessages, User, c
  <2>3. m = new => o = new
    BY <1>3, <1>13, <2>1, <2>2
  <2>4. o = new => m = new
    BY <1>3, <1>13, <2>1, <2>2
  <2>5. CASE m # new /\ o # new
    BY <1>3, <2>1, <2>5 DEF ConversationInv, RowsSound, KeysOnce
  <2> QED
    BY <2>3, <2>4, <2>5
<1>21. OneActiveRun'
  <2> SUFFICES ASSUME NEW x \in Requests, NEW y \in Requests,
                      run'[x] \in ActiveStatus, run'[y] \in ActiveStatus, Conv(x)' = Conv(y)'
               PROVE  x = y
    BY DEF OneActiveRun, ActiveStatus
  <2>1. Conv(x) = Conv(y)
    BY <1>12
  <2>2. CASE x = q \/ y = q
    BY <1>11, <1>14, <2>1, <2>2 DEF Active, c
  <2>3. CASE x # q /\ y # q
    BY <1>11, <2>1, <2>3 DEF ConversationInv, RowsSound, OneActiveRun, ActiveStatus
  <2> QED
    BY <2>2, <2>3
<1>22. ASSUME NEW x \in Requests PROVE SubmissionSound(x)' /\ WorkSound(x)'
  <2>1. CASE x = q
    BY <1>2, <1>3, <1>10, <1>11, <2>1 DEF SubmissionSound, WorkSound, Unborn, executor
  <2>2. CASE x # q
    <3>1. request'[x] = request[x] /\ run'[x] = run[x] /\ work'[x] = work[x]
      BY <1>3, <1>10, <1>11, <2>2 DEF executor
    <3>2. SubmissionSound(x)
      BY DEF ConversationInv, RequestsSound
    <3> QED
      BY <1>12, <3>1, <3>2, SubmissionKept, WorkKept DEF SubmissionSound
  <2> QED
    BY <2>1, <2>2
<1>23. BacklogWaits' /\ GateHolds'
  BY <1>1, <1>3 DEF ConversationInv, BacklogWaits, GateHolds, executor
<1> QED
  BY <1>15, <1>16, <1>17, <1>18, <1>19, <1>20, <1>21, <1>22, <1>23
     DEF ConversationInv, RowsSound, RequestsSound

(* The run and its message are there, and the message is the last one.      *)
LEMMA MessageOfActive ==
  ASSUME ConversationInv, NEW q \in Requests, Active(q), NEW n \in Nat, Filled(Conv(q), n)
  PROVE  \E u \in messages : User(u) /\ u.turn = q /\ u.conv = Conv(q) /\ u.ordinal = n
<1>1. PICK u \in messages : User(u) /\ u.turn = q
  BY DEF ConversationInv, RowsSound, RunsOfMessages, Active, ActiveStatus
<1>2. u.conv = Conv(q) /\ u.ordinal \in Nat \ {0}
  BY <1>1 DEF ConversationInv, TypeOK, RowsSound, RunsOfMessages
<1>3. Taken(Conv(q), u.ordinal)
  BY <1>2 DEF Taken
<1>4. u.ordinal <= n
  BY <1>2, <1>3 DEF Filled
<1>5. Taken(Conv(q), n)
  BY <1>2, <1>4 DEF Filled
<1>6. PICK o \in messages : o.conv = Conv(q) /\ o.ordinal = n
  BY <1>5 DEF Taken
<1>7. n <= u.ordinal
  BY <1>1, <1>2, <1>6 DEF ConversationInv, RowsSound, ActiveIsLast
<1> QED
  BY <1>1, <1>2, <1>4, <1>7

LEMMA NumberReplyStep ==
  ASSUME ConversationInv, NEW q \in Requests, NumberReply(q)
  PROVE  ConversationInv'
<1> DEFINE r == [request[q] EXCEPT !.ordinal = NextOrdinal(Conv(q))]
<1>1. /\ TypeOK /\ request[q] \in Submission /\ Conv(q) \in Threads
      /\ run[q] = "running" /\ work[q] = "generating"
      /\ ~Unborn(q) /\ SubmissionSound(q) /\ WorkSound(q) /\ ready
  BY ThreadOf, UnderWay, BornOf DEF ConversationInv, NumberReply, Deliverable
<1>2. PICK n \in Nat : Filled(Conv(q), n)
  BY <1>1 DEF ConversationInv, RowsSound, NoGaps
<1>3. NextOrdinal(Conv(q)) = n + 1
  BY <1>1, <1>2, NextOfFilled
<1>4. PICK u \in messages : User(u) /\ u.turn = q /\ u.ordinal = n
  BY <1>1, <1>2, MessageOfActive DEF Active, ActiveStatus
<1>5. /\ r \in Submission /\ r.ordinal = u.ordinal + 1 /\ r.phase = request[q].phase
      /\ r.session = request[q].session /\ r.key = request[q].key /\ r.body = request[q].body
      /\ r.answer = request[q].answer
  <2>1. n + 1 \in Nat /\ NextOrdinal(Conv(q)) = n + 1
    BY <1>3
  <2> QED
    BY <1>1, <1>4, <2>1 DEF Submission
<1>6. /\ request' = [request EXCEPT ![q] = r] /\ work' = [work EXCEPT ![q] = "replying"]
      /\ UNCHANGED <<session, run, messages, log, locked, backlog, ready, starts>>
  BY DEF NumberReply, Working, rows
<1> HIDE DEF r
<1>7. /\ request'[q] = r /\ \A x \in Requests \ {q} : request'[x] = request[x]
      /\ work'[q] = "replying" /\ \A x \in Requests \ {q} : work'[x] = work[x]
      /\ request' \in [Requests -> Submission] /\ work' \in [Requests -> Work]
  BY <1>1, <1>5, <1>6 DEF TypeOK, Submission, Work
<1>8. Grows
  BY <1>5, <1>6, <1>7 DEF Grows, BornFixed
<1>9. TypeOK'
  BY <1>1, <1>6, <1>7 DEF TypeOK, Submission
<1>10. RowsSound'
  BY <1>6, <1>8, RowsKept DEF Grows
<1>11. ASSUME NEW x \in Requests PROVE SubmissionSound(x)' /\ WorkSound(x)'
  <2>1. CASE x = q
    <3>1. request[q].phase = "answered"
      BY <1>1 DEF WorkSound
    <3>2. WorkSound(q)'
      BY <1>1, <1>4, <1>5, <1>6, <1>7, <3>1 DEF WorkSound, User
    <3>3. request'[q].answer = "replayed" => \E m \in messages' :
            /\ User(m) /\ m.conv = Conv(q)' /\ m.turn # q
            /\ Author(m.turn)' = Author(q)'
            /\ request'[m.turn].key = request'[q].key
            /\ request'[m.turn].body = request'[q].body
      <4>1. Conv(q)' = Conv(q) /\ Author(q)' = Author(q)
        BY <1>5, <1>7 DEF Conv, Author
      <4>2. \A m \in messages : m.turn # q =>
              Author(m.turn)' = Author(m.turn) /\ request'[m.turn] = request[m.turn]
        BY <1>1, <1>7 DEF Author, TypeOK
      <4> QED
        BY <1>1, <1>5, <1>6, <1>7, <4>1, <4>2 DEF SubmissionSound
    <3>4. SubmissionSound(q)'
      BY <1>5, <1>7, <3>1, <3>3 DEF SubmissionSound, Unborn, User
    <3> QED
      BY <2>1, <3>2, <3>4
  <2>2. CASE x # q
    <3>1. request'[x] = request[x] /\ run'[x] = run[x] /\ work'[x] = work[x]
      BY <1>6, <1>7, <2>2
    <3>2. SubmissionSound(x)
      BY DEF ConversationInv, RequestsSound
    <3> QED
      BY <1>8, <3>1, <3>2, SubmissionKept, WorkKept DEF SubmissionSound
  <2> QED
    BY <2>1, <2>2
<1>12. BacklogWaits' /\ GateHolds'
  <2>1. BacklogWaits'
    <3>1. "replying" \in Work
      BY DEF Work
    <3> QED
      BY <1>1, <1>6, <3>1, BacklogKept
  <2> QED
    BY <1>1, <1>6, <2>1 DEF GateHolds
<1> QED
  BY <1>9, <1>10, <1>11, <1>12 DEF ConversationInv, RequestsSound

(* Nothing came between the question and its answer.                        *)
LEMMA CommitReplyStep ==
  ASSUME ConversationInv, NEW q \in Requests, CommitReply(q)
  PROVE  ConversationInv'
<1> DEFINE c == Conv(q)
           k == request[q].ordinal
           new == [conv |-> c, ordinal |-> k, role |-> "assistant", turn |-> q]
<1>1. /\ TypeOK /\ request[q] \in Submission /\ c \in Threads
      /\ run[q] = "running" /\ work[q] = "replying" /\ request[q].phase = "answered"
      /\ ~Unborn(q) /\ SubmissionSound(q) /\ WorkSound(q) /\ ready
  BY ThreadOf, UnderWay, BornOf DEF ConversationInv, CommitReply, WorkSound
<1>2. /\ messages' = messages \cup {new} /\ run' = [run EXCEPT ![q] = "succeeded"]
      /\ EmitRun(q, <<"run.succeeded", "assistant.message.ready">>)
      /\ UNCHANGED <<session, request, locked, backlog, ready, starts>>
  BY DEF CommitReply, submissions
<1>3. PICK w \in {"none", "failing"} : work' = [work EXCEPT ![q] = w]
  BY DEF CommitReply, Working
<1>4. PICK n \in Nat : Filled(c, n)
  BY <1>1 DEF ConversationInv, RowsSound, NoGaps
<1>5. PICK u \in messages : User(u) /\ u.turn = q /\ u.conv = c /\ u.ordinal = n
  BY <1>1, <1>4, MessageOfActive DEF Active, ActiveStatus
<1>6. k = n + 1
  BY <1>1, <1>5 DEF WorkSound, ConversationInv, RowsSound, OneMessageEach, User
<1>7. k \in Nat \ {0} /\ new \in MessageRow
  BY <1>1, <1>6 DEF MessageRow
<1>8. \A m \in messages : /\ m.turn \in Requests /\ run[m.turn] # "none"
                          /\ m.turn = q => User(m)
  BY <1>1 DEF ConversationInv, TypeOK, RowsSound, RunsOfMessages, RepliesFit
<1>9. /\ run'[q] = "succeeded" /\ \A x \in Requests \ {q} : run'[x] = run[x]
      /\ work'[q] = w /\ \A x \in Requests \ {q} : work'[x] = work[x]
      /\ run' \in [Requests -> RunStatus] /\ work' \in [Requests -> Work]
  BY <1>1, <1>2, <1>3 DEF TypeOK, RunStatus, SettledStatus, Work
<1>10. Grows /\ \A x : Conv(x)' = Conv(x) /\ Author(x)' = Author(x)
  BY <1>2 DEF Grows, BornFixed, Conv, Author
<1>11. new.conv = c /\ new.ordinal = n + 1 /\ new.role = "assistant" /\ new.turn = q
       /\ ~User(new)
  BY <1>6 DEF User
<1>12. \A x \in Requests \ {q} : Active(x) => Conv(x) # c
  BY <1>1 DEF ConversationInv, RowsSound, OneActiveRun, Active, ActiveStatus
<1> HIDE DEF new, c, k
<1>13. OneMessageEach' /\ NoGaps'
  <2>1. \A m \in messages : ~(m.role = new.role /\ m.turn = new.turn)
    BY <1>8, <1>11 DEF User
  <2> QED
    BY <1>2, <1>4, <1>7, <1>11, <2>1, StoreMessage
<1>14. TypeOK'
  <2>1. log' \in [Sessions -> Seq(LogEntry)]
    <3>1. <<"run.succeeded", "assistant.message.ready">> \in Seq(Event)
      BY DEF Event
    <3> QED
      BY <1>2, <3>1, EmitRunTyped
  <2>2. messages' \subseteq MessageRow
    BY <1>1, <1>2, <1>7 DEF TypeOK, MessageRow, Threads
  <2> QED
    BY <1>1, <1>2, <1>9, <2>1, <2>2 DEF TypeOK, LogEntry, MessageRow, Threads
<1>15. RunsOfMessages'
  <2>1. \A m \in messages' : m.conv = Conv(m.turn)'
    BY <1>2, <1>8, <1>10, <1>11 DEF ConversationInv, RowsSound, RunsOfMessages, c
  <2>2. ASSUME NEW x \in Requests
        PROVE  run'[x] # "none" <=> \E m \in messages' : User(m) /\ m.turn = x
    <3>1. CASE x = q
      BY <1>2, <1>5, <1>9, <3>1
    <3>2. CASE x # q
      BY <1>2, <1>9, <1>11, <3>2 DEF ConversationInv, RowsSound, RunsOfMessages
    <3> QED
      BY <3>1, <3>2
  <2> QED
    BY <2>1, <2>2 DEF RunsOfMessages, User
<1>16. RepliesFit'
  <2>1. ASSUME NEW m \in messages', ~User(m)
        PROVE  /\ run'[m.turn] = "succeeded"
               /\ \E v \in messages' : User(v) /\ v.turn = m.turn /\ m.ordinal = v.ordinal + 1
    <3>1. CASE m = new
      BY <1>2, <1>5, <1>9, <1>11, <3>1
    <3>2. CASE m # new
      BY <1>2, <1>8, <1>9, <2>1, <3>2 DEF ConversationInv, RowsSound, RepliesFit
    <3> QED
      BY <3>1, <3>2
  <2>2. ASSUME NEW x \in Requests, run'[x] = "succeeded"
        PROVE  \E m \in messages' : ~User(m) /\ m.turn = x
    BY <1>2, <1>9, <1>11, <2>2 DEF ConversationInv, RowsSound, RepliesFit
  <2> QED
    BY <2>1, <2>2 DEF RepliesFit, User
<1>17. ActiveIsLast'
  <2> SUFFICES ASSUME NEW m \in messages', NEW o \in messages',
                      User(m), run'[m.turn] \in ActiveStatus, o.conv = m.conv
               PROVE  o.ordinal <= m.ordinal
    BY DEF ActiveIsLast, User, Active
  <2>1. m \in messages /\ m.turn # q
    BY <1>2, <1>9, <1>11 DEF ActiveStatus
  <2>2. Active(m.turn) /\ m.conv = Conv(m.turn) /\ m.conv # c
    BY <1>8, <1>9, <1>12, <2>1 DEF Active, ConversationInv, RowsSound, RunsOfMessages
  <2>3. o \in messages
    BY <1>2, <1>11, <2>2
  <2> QED
    BY <2>1, <2>2, <2>3 DEF ConversationInv, RowsSound, ActiveIsLast
<1>18. KeysOnce'
  BY <1>2, <1>10, <1>11 DEF ConversationInv, RowsSound, KeysOnce, User
<1>19. OneActiveRun'
  <2>1. \A x \in Requests : run'[x] \in ActiveStatus => run[x] \in ActiveStatus
    BY <1>9 DEF ActiveStatus
  <2> QED
    BY <1>10, <2>1 DEF ConversationInv, RowsSound, OneActiveRun, ActiveStatus
<1>20. ASSUME NEW x \in Requests PROVE SubmissionSound(x)' /\ WorkSound(x)'
  <2>1. CASE x = q
    <3>1. request'[q] = request[q]
      BY <1>2
    <3>2. SubmissionSound(q)'
      BY <1>1, <1>10, <3>1, SubmissionKept
    <3> QED
      BY <1>1, <1>9, <2>1, <3>1, <3>2 DEF WorkSound
  <2>2. CASE x # q
    <3>1. request'[x] = request[x] /\ run'[x] = run[x] /\ work'[x] = work[x]
      BY <1>2, <1>9, <2>2
    <3>2. SubmissionSound(x)
      BY DEF ConversationInv, RequestsSound
    <3> QED
      BY <1>10, <3>1, <3>2, SubmissionKept, WorkKept DEF SubmissionSound
  <2> QED
    BY <2>1, <2>2
<1>21. BacklogWaits' /\ GateHolds'
  <2>1. w \in Work
    BY DEF Work
  <2> QED
    BY <1>1, <1>2, <1>3, <2>1, BacklogKept DEF GateHolds
<1> QED
  BY <1>13, <1>14, <1>15, <1>16, <1>17, <1>18, <1>19, <1>20, <1>21
     DEF ConversationInv, RowsSound, RequestsSound

-----------------------------------------------------------------------------
(* The executor's queue, the sessions and the process                       *)

LEMMA EnqueueStep ==
  ASSUME ConversationInv, NEW q \in Requests, Enqueue(q)
  PROVE  ConversationInv'
<1> DEFINE r == [request[q] EXCEPT !.phase = "answered", !.answer = "accepted"]
<1>1. /\ TypeOK /\ request[q] \in Submission /\ SubmissionSound(q)
      /\ request[q].phase = "committed" /\ ready
      /\ run[q] \in {"queued", "cancelled"} /\ work[q] = "none"
  BY ThreadOf, UnderWay DEF ConversationInv, RequestsSound, Enqueue, SubmissionSound
<1>2. /\ r \in Submission /\ r.phase = "answered" /\ r.answer = "accepted"
      /\ r.session = request[q].session /\ r.key = request[q].key /\ r.body = request[q].body
  BY <1>1 DEF Submission, Phase, Answer
<1>3. /\ request' = [request EXCEPT ![q] = r] /\ backlog' = Append(backlog, q)
      /\ work' = [work EXCEPT ![q] = "waiting"]
      /\ UNCHANGED <<session, run, messages, log, locked, ready, starts>>
  BY <1>1 DEF Enqueue, TypeOK, rows
<1> HIDE DEF r
<1>4. /\ request'[q] = r /\ \A x \in Requests \ {q} : request'[x] = request[x]
      /\ work'[q] = "waiting" /\ \A x \in Requests \ {q} : work'[x] = work[x]
      /\ request' \in [Requests -> Submission] /\ work' \in [Requests -> Work]
  BY <1>1, <1>2, <1>3 DEF TypeOK, Submission, Work
<1>5. Grows
  BY <1>2, <1>3, <1>4 DEF Grows, BornFixed
<1>6. backlog \in Seq(Requests) /\ backlog' \in Seq(Requests)
  BY <1>1, <1>3 DEF TypeOK
<1>7. TypeOK'
  BY <1>1, <1>3, <1>4, <1>6 DEF TypeOK, Submission
<1>8. RowsSound'
  BY <1>3, <1>5, RowsKept DEF Grows
<1>9. ASSUME NEW x \in Requests PROVE SubmissionSound(x)' /\ WorkSound(x)'
  <2>1. CASE x = q
    BY <1>1, <1>2, <1>3, <1>4, <2>1 DEF SubmissionSound, WorkSound, Unborn
  <2>2. CASE x # q
    <3>1. request'[x] = request[x] /\ run'[x] = run[x] /\ work'[x] = work[x]
      BY <1>3, <1>4, <2>2
    <3>2. SubmissionSound(x)
      BY DEF ConversationInv, RequestsSound
    <3> QED
      BY <1>5, <3>1, <3>2, SubmissionKept, WorkKept DEF SubmissionSound
  <2> QED
    BY <2>1, <2>2
<1>10. BacklogWaits'
  <2>1. \A i \in 1..Len(backlog) : backlog[i] \in Requests /\ backlog[i] # q
    BY <1>1, <1>6 DEF ConversationInv, BacklogWaits
  <2>2. /\ Len(backlog') = Len(backlog) + 1 /\ backlog'[Len(backlog')] = q
        /\ \A i \in 1..Len(backlog) : backlog'[i] = backlog[i]
    BY <1>3, <1>6
  <2>3. \A i \in 1..Len(backlog') : i \in 1..Len(backlog) \/ i = Len(backlog')
    BY <1>6, <2>2
  <2>4. \A i \in 1..Len(backlog') : work'[backlog'[i]] = "waiting"
    BY <1>4, <2>1, <2>2, <2>3 DEF ConversationInv, BacklogWaits
  <2>5. \A i, j \in 1..Len(backlog') : backlog'[i] = backlog'[j] => i = j
    BY <2>1, <2>2, <2>3 DEF ConversationInv, BacklogWaits
  <2> QED
    BY <2>4, <2>5 DEF BacklogWaits
<1>11. GateHolds'
  BY <1>1, <1>3 DEF GateHolds
<1> QED
  BY <1>7, <1>8, <1>9, <1>10, <1>11 DEF ConversationInv, RequestsSound

(* Steps that leave runs, messages, requests and work alone.                *)
LEMMA BystanderStep ==
  ASSUME ConversationInv, TypeOK', ready' => ready \/ work' = work,
         UNCHANGED <<run, messages, request, backlog, work, ready>>
  PROVE  ConversationInv'
<1>1. Grows
  BY DEF Grows, BornFixed
<1>2. RowsSound'
  BY <1>1, RowsKept DEF Grows
<1>3. ASSUME NEW x \in Requests PROVE SubmissionSound(x)' /\ WorkSound(x)'
  <2>1. SubmissionSound(x)
    BY DEF ConversationInv, RequestsSound
  <2> QED
    BY <1>1, <2>1, SubmissionKept, WorkKept DEF SubmissionSound
<1> QED
  BY <1>2, <1>3 DEF ConversationInv, RequestsSound, BacklogWaits, GateHolds

LEMMA SessionSteps ==
  ASSUME ConversationInv, NEW s \in Sessions, CreateSession(s) \/ CloseSession(s)
  PROVE  ConversationInv'
<1>1. TypeOK /\ UNCHANGED <<run, messages, request, locked, backlog, work, ready, starts>>
  BY DEF ConversationInv, CreateSession, CloseSession, submissions, executor
<1>2. session' \in [Sessions -> {"none", "active", "closed"}]
  BY <1>1 DEF CreateSession, CloseSession, TypeOK
<1>3. log' \in [Sessions -> Seq(LogEntry)]
  <2>1. <<"session.ready">> \in Seq(Event) /\ <<"session.closed">> \in Seq(Event)
        /\ NoRequest \in Requests \cup {NoRequest}
    BY DEF Event
  <2> QED
    BY <1>1, <2>1, EmitTyped DEF CreateSession, CloseSession
<1>4. TypeOK'
  BY <1>1, <1>2, <1>3 DEF TypeOK, LogEntry
<1> QED
  BY <1>1, <1>4, BystanderStep

(* A process that stops forgets what was under way, nothing that is stored. *)
LEMMA RestartStep ==
  ASSUME ConversationInv, Restart
  PROVE  ConversationInv'
<1>1. /\ TypeOK /\ UNCHANGED <<session, run, messages, log>> /\ ready' = FALSE
      /\ backlog' = <<>> /\ work' = [q \in Requests |-> "none"]
      /\ locked' = [s \in Sessions |-> NoRequest]
      /\ starts < MaxStarts /\ starts' = starts + 1
  BY DEF ConversationInv, Restart, rows
<1>2. ASSUME NEW q \in Requests
      PROVE  /\ request'[q] \in Submission
             /\ request'[q].session = request[q].session /\ request'[q].key = request[q].key
             /\ request'[q].body = request[q].body /\ request'[q].answer = request[q].answer
             /\ request'[q].phase = IF request[q].phase \in {"idle", "answered"}
                                    THEN request[q].phase ELSE "lost"
             /\ work'[q] = "none"
  <2>1. request[q] \in Submission
    BY <1>1, ThreadOf
  <2>2. request'[q] = IF request[q].phase \in {"idle", "answered"} THEN request[q]
                      ELSE [request[q] EXCEPT !.phase = "lost"]
    BY DEF Restart
  <2> QED
    BY <1>1, <2>1, <2>2 DEF Submission, Phase
<1>3. request' \in [Requests -> Submission]
  <2> DEFINE after(q) == IF request[q].phase \in {"idle", "answered"} THEN request[q]
                         ELSE [request[q] EXCEPT !.phase = "lost"]
  <2>1. request' = [q \in Requests |-> after(q)]
    BY DEF Restart
  <2> HIDE DEF after
  <2> QED
    BY <1>2, <2>1
<1>4. BornFixed /\ Grows
  BY <1>1, <1>2 DEF Grows, BornFixed
<1>5. TypeOK'
  <2>1. starts' \in 0..MaxStarts
    BY <1>1, ConversationConstants DEF TypeOK
  <2>2. backlog' \in Seq(Requests) /\ work' \in [Requests -> Work]
    BY <1>1 DEF Work
  <2> QED
    BY <1>1, <1>3, <2>1, <2>2 DEF TypeOK, Submission
<1>6. RowsSound'
  BY <1>1, <1>4, RowsKept
<1>7. ASSUME NEW x \in Requests PROVE SubmissionSound(x)' /\ WorkSound(x)'
  <2>1. SubmissionSound(x) /\ WorkSound(x)'
    BY <1>2 DEF ConversationInv, RequestsSound, WorkSound
  <2>2. \A q \in Requests : Conv(q)' = Conv(q) /\ Author(q)' = Author(q)
    BY <1>2 DEF Conv, Author
  <2>3. request'[x].answer = "replayed" => \E m \in messages' :
            /\ User(m) /\ m.conv = Conv(x)' /\ m.turn # x
            /\ Author(m.turn)' = Author(x)'
            /\ request'[m.turn].key = request'[x].key
            /\ request'[m.turn].body = request'[x].body
    <3>1. \A m \in messages : m.turn \in Requests
      BY <1>1 DEF TypeOK
    <3> QED
      BY <1>1, <1>2, <2>1, <2>2, <3>1 DEF SubmissionSound
  <2>4. Unborn(x)' => Unborn(x)
    BY <1>2 DEF Unborn
  <2>5. request'[x].phase \notin {"committed", "numbered"}
    BY <1>2
  <2> QED
    BY <1>1, <1>2, <2>1, <2>3, <2>4, <2>5 DEF SubmissionSound, User
<1>8. BacklogWaits' /\ GateHolds'
  BY <1>1, <1>2 DEF BacklogWaits, GateHolds
<1> QED
  BY <1>5, <1>6, <1>7, <1>8 DEF ConversationInv, RequestsSound

(* The gate gives up every unsettled run before any handler is at work.     *)
LEMMA ReconcileStep ==
  ASSUME ConversationInv, Reconcile
  PROVE  ConversationInv'
<1>1. /\ TypeOK /\ ~ready /\ ready' = TRUE
      /\ UNCHANGED <<session, messages, request, locked, backlog, work, starts>>
      /\ run' = [q \in Requests |-> IF Interrupted(q) THEN "failed" ELSE run[q]]
  BY DEF ConversationInv, Reconcile, GateClosed, submissions, executor
<1>2. \A q \in Requests :
        work[q] = "none" /\ request[q].phase \in {"idle", "answered", "lost"}
  BY <1>1 DEF ConversationInv, GateHolds
<1>3. Grows /\ BornFixed
  BY <1>1 DEF Grows, BornFixed
<1>4. \A q \in Requests :
            /\ run'[q] \in RunStatus
            /\ run'[q] = "none" <=> run[q] = "none"
            /\ run'[q] = "succeeded" <=> run[q] = "succeeded"
            /\ run'[q] \notin ActiveStatus
  BY <1>1 DEF TypeOK, Interrupted, ActiveStatus, RunStatus, SettledStatus
<1>5. TypeOK'
  <2>1. log' \in [Sessions -> Seq(LogEntry)]
    <3>1. ASSUME NEW s \in Sessions PROVE log'[s] \in Seq(LogEntry)
      <4> DEFINE lost == {q \in Requests : Interrupted(q) /\ request[q].session = s}
                 entry == [event |-> "run.interrupted", turn |-> CHOOSE q \in lost : TRUE]
      <4>1. log'[s] = IF lost = {} THEN log[s] ELSE Append(log[s], entry)
        BY DEF Reconcile
      <4>2. lost # {} => (CHOOSE q \in lost : TRUE) \in Requests
        OBVIOUS
      <4>3. lost # {} => entry \in LogEntry
        BY <4>2 DEF LogEntry, Event
      <4>4. log[s] \in Seq(LogEntry)
        BY LogTyped
      <4> HIDE DEF lost, entry
      <4> QED
        BY <4>1, <4>3, <4>4
    <3>2. DOMAIN log' = Sessions /\ log' = [s \in Sessions |-> log'[s]]
      BY DEF Reconcile
    <3> QED
      BY <3>1, <3>2
  <2>2. run' \in [Requests -> RunStatus]
    <3>1. run' = [q \in Requests |-> run'[q]]
      BY <1>1
    <3> QED
      BY <1>4, <3>1
  <2> QED
    BY <1>1, <2>1, <2>2 DEF TypeOK, LogEntry
<1>6. RowsSound'
  BY <1>1, <1>3, <1>4, RowsKept
<1>7. ASSUME NEW x \in Requests PROVE SubmissionSound(x)' /\ WorkSound(x)'
  <2>1. request'[x] = request[x] /\ work'[x] = "none"
    BY <1>1, <1>2
  <2>2. SubmissionSound(x)
    BY DEF ConversationInv, RequestsSound
  <2>3. Unborn(x) => run'[x] = "none"
    BY <1>4, <2>2 DEF SubmissionSound
  <2> QED
    BY <1>2, <1>3, <2>1, <2>3, SubmissionKept DEF WorkSound
<1>8. BacklogWaits' /\ GateHolds'
  BY <1>1 DEF ConversationInv, BacklogWaits, GateHolds
<1> QED
  BY <1>5, <1>6, <1>7, <1>8 DEF ConversationInv, RequestsSound

-----------------------------------------------------------------------------
(* The invariant                                                            *)

LEMMA InitConversations == Init => ConversationInv
<1> SUFFICES ASSUME Init PROVE ConversationInv
  OBVIOUS
<1>1. /\ messages = {} /\ ready = FALSE /\ backlog = <<>> /\ starts = 0
      /\ \A q \in Requests : /\ run[q] = "none" /\ work[q] = "none"
                             /\ request[q].phase = "idle" /\ request[q].answer = "none"
  BY DEF Init
<1>2. TypeOK
  <2>1. request \in [Requests -> Submission]
    <3>1. /\ (CHOOSE s \in Sessions : TRUE) \in Sessions
          /\ (CHOOSE k \in Keys : TRUE) \in Keys /\ (CHOOSE b \in Bodies : TRUE) \in Bodies
      BY ConversationConstants
    <3> QED
      BY <3>1 DEF Init, Submission, Phase, Answer
  <2>2. log \in [Sessions -> Seq(LogEntry)]
    BY DEF Init
  <2>3. starts \in 0..MaxStarts
    BY <1>1, ConversationConstants
  <2>4. run \in [Requests -> RunStatus] /\ work \in [Requests -> Work]
    BY DEF Init, RunStatus, Work
  <2>5. session \in [Sessions -> {"none", "active", "closed"}]
    BY DEF Init
  <2>6. locked \in [Sessions -> Requests \cup {NoRequest}]
    BY DEF Init
  <2>7. backlog \in Seq(Requests) /\ ready \in BOOLEAN
    <3>1. <<>> \in Seq(Requests)
      OBVIOUS
    <3>2. ready \in BOOLEAN
      BY DEF Init
    <3> QED
      BY <1>1, <3>1, <3>2
  <2>8. messages \subseteq [conv : {Conversation[s] : s \in Sessions}, ordinal : Nat \ {0},
                             role : {"user", "assistant"}, turn : Requests]
    BY <1>1
  <2>9. request \in [Requests -> [phase : Phase, session : Sessions, key : Keys,
                                   body : Bodies, ordinal : Nat, answer : Answer]]
    BY <2>1 DEF Submission
  <2>10. log \in [Sessions -> Seq([event : Event, turn : Requests \cup {NoRequest}])]
    BY <2>2 DEF LogEntry
  <2> QED
    BY <2>3, <2>4, <2>5, <2>6, <2>7, <2>8, <2>9, <2>10 DEF TypeOK
<1>3. RowsSound
  <2>1. \A c \in Threads : Filled(c, 0)
    BY <1>1 DEF Filled, Taken
  <2> QED
    BY <1>1, <2>1 DEF RowsSound, OneMessageEach, RunsOfMessages, NoGaps, RepliesFit,
                      ActiveIsLast, KeysOnce, OneActiveRun
<1>4. RequestsSound /\ BacklogWaits /\ GateHolds
  BY <1>1 DEF RequestsSound, SubmissionSound, WorkSound, BacklogWaits, GateHolds, Unborn
<1> QED
  BY <1>2, <1>3, <1>4 DEF ConversationInv

LEMMA NextConversations == ConversationInv /\ [Next]_vars => ConversationInv'
<1> SUFFICES ASSUME ConversationInv, [Next]_vars PROVE ConversationInv'
  OBVIOUS
<1>1. ASSUME NEW s \in Sessions, CreateSession(s) \/ CloseSession(s) PROVE ConversationInv'
  BY <1>1, SessionSteps
<1>2. ASSUME NEW q \in Requests, NEW s \in Sessions, NEW k \in Keys, NEW b \in Bodies,
             Arrive(q, s, k, b)
      PROVE  ConversationInv'
  BY <1>2, ArriveStep
<1>3. ASSUME NEW q \in Requests, Submit(q) PROVE ConversationInv'
  BY <1>3, CheckStep, NumberMessageStep, CommitSubmissionStep, ConflictSteps, EnqueueStep
     DEF Submit
<1>4. ASSUME NEW q \in Requests, CancelQueued(q) \/ CancelRunning(q) PROVE ConversationInv'
  BY <1>4, CancelSteps
<1>5. ASSUME NEW q \in Requests, Execute(q) PROVE ConversationInv'
  BY <1>5, WorkerSteps, NumberReplyStep, CommitReplyStep DEF Execute
<1>6. CASE UNCHANGED vars
  <2>1. TypeOK'
    BY <1>6 DEF ConversationInv, TypeOK, vars, rows, submissions, executor
  <2> QED
    BY <1>6, <2>1, BystanderStep DEF vars, rows, submissions, executor
<1> QED
  BY <1>1, <1>2, <1>3, <1>4, <1>5, <1>6, TakeRunStep, RestartStep, ReconcileStep DEF Next

(* Types, the rows and what submissions and workers rely on, in every       *)
(* reachable state.                                                         *)
THEOREM ConversationsSafe == Spec => []ConversationInv
<1> QED
  BY InitConversations, NextConversations, PTL DEF Spec

(* A conversation never has two unsettled runs, although the sessions that  *)
(* submit to it do not lock it.                                             *)
THEOREM OneRunAtATime == Spec => []OneActiveRun
<1>1. ConversationInv => OneActiveRun
  BY DEF ConversationInv, RowsSound
<1> QED
  BY <1>1, ConversationsSafe, PTL

(* A worker's run is unsettled and a waiting one was not started.           *)
THEOREM RunsHaveOneWorker == Spec => []WorkerOwnsRun
<1>1. ConversationInv => WorkerOwnsRun
  BY DEF ConversationInv, RequestsSound, WorkSound, WorkerOwnsRun
<1> QED
  BY <1>1, ConversationsSafe, PTL

(* One client_message_id of a device stores one message, and a replayed     *)
(* answer is given for the content that was stored.                         *)
THEOREM SubmissionsAreIdempotent == Spec => []SubmittedOnce
<1>1. ASSUME ConversationInv PROVE SubmittedOnce
  <2>1. KeysOnce /\ \A q \in Requests : SubmissionSound(q)
    BY <1>1 DEF ConversationInv, RowsSound, RequestsSound
  <2> QED
    BY <2>1 DEF KeysOnce, SubmissionSound, SubmittedOnce, User
<1> QED
  BY <1>1, ConversationsSafe, PTL

(* The ordinal a worker read for its reply stays free until it is stored.   *)
LEMMA RepliesAreNext ==
  ASSUME ConversationInv, NEW q \in Requests, work[q] = "replying",
         NEW m \in messages, m.conv = Conv(q), m.ordinal = request[q].ordinal
  PROVE  FALSE
<1>1. TypeOK /\ RowsSound /\ \A n \in messages : n.turn \in Requests
  BY DEF ConversationInv, TypeOK
<1>2. PICK u \in messages : User(u) /\ u.turn = q /\ request[q].ordinal = u.ordinal + 1
  BY DEF ConversationInv, RequestsSound, WorkSound
<1>3. Active(u.turn) /\ u.conv = Conv(q)
  BY <1>1, <1>2
     DEF ConversationInv, RequestsSound, WorkSound, Active, ActiveStatus,
         RowsSound, RunsOfMessages
<1>4. m.ordinal <= u.ordinal /\ u.ordinal \in Nat /\ m.ordinal \in Nat
  BY <1>1, <1>2, <1>3 DEF RowsSound, ActiveIsLast, TypeOK
<1> QED
  BY <1>2, <1>4

(* The reply of a run is the next message after the one it answers, and no  *)
(* reply is thrown away because another message took its ordinal.           *)
THEOREM RepliesFollow == Spec => []ReplyFollowsItsMessage
<1>1. ASSUME ConversationInv PROVE ReplyFollowsItsMessage
  <2>1. TypeOK /\ RowsSound /\ \A m \in messages : m.turn \in Requests
    BY <1>1 DEF ConversationInv, TypeOK
  <2>2. ASSUME NEW m \in messages, m.role = "assistant"
        PROVE  /\ run[m.turn] = "succeeded"
               /\ \E u \in messages : /\ u.role = "user" /\ u.turn = m.turn
                                      /\ u.conv = m.conv /\ m.ordinal = u.ordinal + 1
    BY <2>1, <2>2 DEF RowsSound, RepliesFit, RunsOfMessages, User
  <2>3. ASSUME NEW q \in Requests, run[q] = "succeeded"
        PROVE  \E m \in messages : m.role = "assistant" /\ m.turn = q
    <3>1. PICK m \in messages : ~User(m) /\ m.turn = q
      BY <2>1, <2>3 DEF RowsSound, RepliesFit
    <3>2. m.role = "assistant"
      BY <2>1, <3>1 DEF TypeOK, User
    <3> QED
      BY <3>1, <3>2
  <2>4. ASSUME NEW q \in Requests, work[q] = "replying",
               NEW m \in messages, m.conv = Conv(q), m.ordinal = request[q].ordinal
        PROVE  FALSE
    BY <1>1, <2>4, RepliesAreNext
  <2> QED
    BY <2>2, <2>3, <2>4 DEF ReplyFollowsItsMessage
<1> QED
  BY <1>1, ConversationsSafe, PTL
-----------------------------------------------------------------------------
(* The events of a run                                                      *)

(* A log tells a legal life of a run, and f is its last event so far.       *)
Lived(entries, q, f) ==
    /\ \E n \in Life(entries, q) :
         entries[n].event = f /\ \A i \in Life(entries, q) : i <= n
    /\ \A i \in Life(entries, q) :
         \/ \E j \in Life(entries, q) : j < i
         \/ entries[i].event = "message.accepted"
    /\ \A i, j \in Life(entries, q) :
         \/ i >= j
         \/ \E k \in Life(entries, q) : i < k /\ k < j
         \/ Follows(entries[i].event, entries[j].event)

(* The events of a run are in the log of its session and in no other one.   *)
RunLogged(q) ==
    /\ \A s \in Sessions :
         Life(log[s], q) # {} => s = request[q].session /\ run[q] # "none"
    /\ run[q] # "none" =>
         \E f \in Event : Reports(f) = run[q] /\ Lived(log[request[q].session], q, f)
LogSound == \A q \in Requests : RunLogged(q)

(* A step adds at most two events to each log, none of them about the run.  *)
Untold(q) ==
    \A s \in Sessions :
        \/ log'[s] = log[s]
        \/ \E e \in LogEntry : e.turn # q /\ log'[s] = Append(log[s], e)
        \/ \E e, d \in LogEntry :
             e.turn # q /\ d.turn # q /\ log'[s] = Append(Append(log[s], e), d)

(* The positions of a run in a log that an event about it extends.          *)
LEMMA LifeGrows ==
  ASSUME NEW entries \in Seq(LogEntry), NEW e \in LogEntry, NEW q, e.turn = q
  PROVE  /\ Life(Append(entries, e), q) = Life(entries, q) \cup {Len(entries) + 1}
         /\ \A i \in Life(entries, q) :
              i \in Nat /\ i <= Len(entries) /\ Append(entries, e)[i] = entries[i]
         /\ Append(entries, e)[Len(entries) + 1] = e
         /\ Len(entries) \in Nat
<1>1. /\ Len(Append(entries, e)) = Len(entries) + 1 /\ Len(entries) \in Nat
      /\ \A i \in 1..Len(entries) : Append(entries, e)[i] = entries[i]
      /\ Append(entries, e)[Len(entries) + 1] = e
  OBVIOUS
<1>2. 1..Len(entries) + 1 = (1..Len(entries)) \cup {Len(entries) + 1}
  BY <1>1
<1>3. ASSUME NEW i
      PROVE  i \in Life(Append(entries, e), q) <=>
               i \in Life(entries, q) \/ i = Len(entries) + 1
  BY <1>1, <1>2 DEF Life
<1> QED
  BY <1>1, <1>3 DEF Life

(* The positions of a run in a log that an event about another one extends. *)
LEMMA LifeStays ==
  ASSUME NEW entries \in Seq(LogEntry), NEW e \in LogEntry, NEW q, e.turn # q
  PROVE  /\ Life(Append(entries, e), q) = Life(entries, q)
         /\ \A i \in Life(entries, q) : Append(entries, e)[i] = entries[i]
<1>1. /\ Len(Append(entries, e)) = Len(entries) + 1 /\ Len(entries) \in Nat
      /\ \A i \in 1..Len(entries) : Append(entries, e)[i] = entries[i]
      /\ Append(entries, e)[Len(entries) + 1] = e
  OBVIOUS
<1>2. 1..Len(entries) + 1 = (1..Len(entries)) \cup {Len(entries) + 1}
  BY <1>1
<1>3. ASSUME NEW i
      PROVE  i \in Life(Append(entries, e), q) <=> i \in Life(entries, q)
  BY <1>1, <1>2 DEF Life
<1> QED
  BY <1>1, <1>3 DEF Life

(* An event about another run tells nothing about this one.                 *)
LEMMA LivedStays ==
  ASSUME NEW entries \in Seq(LogEntry), NEW e \in LogEntry, NEW q, e.turn # q,
         NEW f, Lived(entries, q, f)
  PROVE  Lived(Append(entries, e), q, f)
<1>1. /\ Life(Append(entries, e), q) = Life(entries, q)
      /\ \A i \in Life(entries, q) : Append(entries, e)[i] = entries[i]
  BY LifeStays
<1> QED
  BY <1>1 DEF Lived

(* The first event.                                                         *)
LEMMA LivedStarts ==
  ASSUME NEW entries \in Seq(LogEntry), NEW e \in LogEntry, NEW q, e.turn = q,
         Life(entries, q) = {}, e.event = "message.accepted"
  PROVE  Lived(Append(entries, e), q, "message.accepted")
<1>1. /\ Life(Append(entries, e), q) = {Len(entries) + 1}
      /\ Append(entries, e)[Len(entries) + 1] = e /\ Len(entries) \in Nat
  BY LifeGrows
<1> QED
  BY <1>1 DEF Lived

(* An event that may follow the last one becomes the last one.              *)
LEMMA LivedGrows ==
  ASSUME NEW entries \in Seq(LogEntry), NEW e \in LogEntry, NEW q, e.turn = q,
         NEW f, Lived(entries, q, f), Follows(f, e.event)
  PROVE  Lived(Append(entries, e), q, e.event)
<1> DEFINE after == Append(entries, e)
<1>1. /\ Life(after, q) = Life(entries, q) \cup {Len(entries) + 1}
      /\ \A i \in Life(entries, q) : i \in Nat /\ i <= Len(entries) /\ after[i] = entries[i]
      /\ after[Len(entries) + 1] = e /\ Len(entries) \in Nat
  <2>1. Life(after, q) = Life(entries, q) \cup {Len(entries) + 1}
    BY LifeGrows
  <2>2. \A i \in Life(entries, q) : i \in Nat /\ i <= Len(entries) /\ after[i] = entries[i]
    BY DEF Life
  <2>3. after[Len(entries) + 1] = e /\ Len(entries) \in Nat
    BY LifeGrows
  <2> QED
    BY <2>1, <2>2, <2>3
<1>2. PICK n \in Life(entries, q) :
        entries[n].event = f /\ \A i \in Life(entries, q) : i <= n
  BY DEF Lived
<1>3. PICK z \in Nat : z = Len(entries) + 1
  BY <1>1
<1> HIDE DEF after
<1>4. ASSUME NEW i \in Life(after, q)
      PROVE  (\E j \in Life(after, q) : j < i) \/ after[i].event = "message.accepted"
  <2>1. CASE i = z
    <3>1. n \in Life(after, q) /\ n < i
      BY <1>1, <1>2, <1>3, <2>1
    <3> QED
      BY <3>1
  <2>2. CASE i \in Life(entries, q)
    BY <1>1, <2>2 DEF Lived
  <2> QED
    BY <1>1, <1>3, <2>1, <2>2
<1>5. ASSUME NEW i \in Life(after, q), NEW j \in Life(after, q)
      PROVE  \/ i >= j
             \/ \E k \in Life(after, q) : i < k /\ k < j
             \/ Follows(after[i].event, after[j].event)
  <2>1. CASE i \in Life(entries, q) /\ j \in Life(entries, q)
    BY <1>1, <2>1 DEF Lived
  <2>2. CASE i = z
    BY <1>1, <1>3, <2>2
  <2>3. CASE i = n /\ j = z
    BY <1>1, <1>2, <1>3, <2>3
  <2>4. CASE i \in Life(entries, q) /\ i # n /\ j = z
    <3>1. n \in Life(after, q) /\ i < n /\ n < j
      BY <1>1, <1>2, <1>3, <2>4
    <3> QED
      BY <3>1
  <2> QED
    BY <1>1, <1>3, <2>1, <2>2, <2>3, <2>4
<1>6. \E m \in Life(after, q) : after[m].event = e.event /\ \A i \in Life(after, q) : i <= m
  <2>1. z \in Life(after, q) /\ after[z].event = e.event
    BY <1>1, <1>3
  <2>2. \A i \in Life(after, q) : i <= z
    BY <1>1, <1>3
  <2> QED
    BY <2>1, <2>2
<1> QED
  BY <1>4, <1>5, <1>6 DEF Lived, after

LEMMA EmitOne ==
  ASSUME ConversationInv, NEW s \in Sessions, NEW q \in Requests \cup {NoRequest},
         NEW f \in Event, Emit(s, <<f>>, q)
  PROVE  /\ [event |-> f, turn |-> q] \in LogEntry
         /\ log'[s] = Append(log[s], [event |-> f, turn |-> q])
         /\ \A x \in Sessions \ {s} : log'[x] = log[x]
<1>1. log \in [Sessions -> Seq(LogEntry)]
  BY LogTyped
<1>2. [event |-> f, turn |-> q] \in LogEntry
  BY DEF LogEntry
<1>3. [i \in 1..Len(<<f>>) |-> [event |-> <<f>>[i], turn |-> q]]
        = <<[event |-> f, turn |-> q]>>
  OBVIOUS
<1>4. PICK e \in LogEntry : e = [event |-> f, turn |-> q]
  BY <1>2
<1>5. log' = [log EXCEPT ![s] = @ \o <<e>>]
  BY <1>3, <1>4 DEF Emit
<1>6. log[s] \o <<e>> = Append(log[s], e)
  BY <1>1
<1> QED
  BY <1>1, <1>2, <1>4, <1>5, <1>6

LEMMA EmitTwo ==
  ASSUME ConversationInv, NEW s \in Sessions, NEW q \in Requests \cup {NoRequest},
         NEW f \in Event, NEW g \in Event, Emit(s, <<f, g>>, q)
  PROVE  /\ [event |-> f, turn |-> q] \in LogEntry /\ [event |-> g, turn |-> q] \in LogEntry
         /\ log'[s] = Append(Append(log[s], [event |-> f, turn |-> q]),
                             [event |-> g, turn |-> q])
         /\ \A x \in Sessions \ {s} : log'[x] = log[x]
<1>1. log \in [Sessions -> Seq(LogEntry)]
  BY LogTyped
<1>2. [event |-> f, turn |-> q] \in LogEntry /\ [event |-> g, turn |-> q] \in LogEntry
  BY DEF LogEntry
<1>3. [i \in 1..Len(<<f, g>>) |-> [event |-> <<f, g>>[i], turn |-> q]]
        = <<[event |-> f, turn |-> q], [event |-> g, turn |-> q]>>
  OBVIOUS
<1>4. PICK e \in LogEntry : e = [event |-> f, turn |-> q]
  BY <1>2
<1>5. PICK d \in LogEntry : d = [event |-> g, turn |-> q]
  BY <1>2
<1>6. log' = [log EXCEPT ![s] = @ \o <<e, d>>]
  BY <1>3, <1>4, <1>5 DEF Emit
<1>7. log[s] \o <<e, d>> = Append(Append(log[s], e), d)
  BY <1>1
<1> QED
  BY <1>1, <1>2, <1>4, <1>5, <1>6, <1>7

(* The last event of a run tells its status, so the status decides what may *)
(* follow it.                                                               *)
LEMMA LastEvent ==
  ASSUME NEW g \in Event
  PROVE  /\ Reports(g) = "queued" => g = "run.queued"
         /\ Reports(g) = "running" => g = "run.started"
         /\ Reports(g) = "cancel_requested" => g = "run.cancel_requested"
  BY DEF Event, Reports

LEMMA NextEvent ==
  ASSUME NEW g \in Event
  PROVE  /\ Reports(g) = "queued" =>
              /\ Follows(g, "run.started") /\ Follows(g, "run.cancelled")
              /\ Follows(g, "run.failed") /\ Follows(g, "run.interrupted")
         /\ Reports(g) = "running" =>
              /\ Follows(g, "run.succeeded") /\ Follows(g, "run.failed")
              /\ Follows(g, "run.cancel_requested") /\ Follows(g, "run.interrupted")
         /\ Reports(g) = "cancel_requested" =>
              Follows(g, "run.cancelled") /\ Follows(g, "run.interrupted")
<1>1. CASE Reports(g) = "queued"
  BY <1>1, LastEvent DEF Follows
<1>2. CASE Reports(g) = "running"
  BY <1>2, LastEvent DEF Follows
<1>3. CASE Reports(g) = "cancel_requested"
  BY <1>3, LastEvent DEF Follows
<1> QED
  BY <1>1, <1>2, <1>3

LEMMA Reported ==
  /\ Reports("run.queued") = "queued" /\ Reports("run.started") = "running"
  /\ Reports("run.cancel_requested") = "cancel_requested"
  /\ Reports("run.cancelled") = "cancelled" /\ Reports("run.failed") = "failed"
  /\ Reports("run.interrupted") = "failed"
  /\ Reports("assistant.message.ready") = "succeeded"
  /\ Follows("message.accepted", "run.queued")
  /\ Follows("run.succeeded", "assistant.message.ready")
  /\ {"message.accepted", "run.queued", "run.started", "run.cancel_requested",
      "run.cancelled", "run.failed", "run.interrupted", "run.succeeded",
      "assistant.message.ready", "session.ready", "session.closed"} \subseteq Event
  BY DEF Reports, Follows, Event

(* A run keeps its life through a step that tells nothing about it.         *)
LEMMA BystanderLogged ==
  ASSUME ConversationInv, NEW x \in Requests, RunLogged(x), run'[x] = run[x],
         run[x] # "none" => request'[x].session = request[x].session, Untold(x)
  PROVE  RunLogged(x)'
<1>1. ASSUME NEW s \in Sessions
      PROVE  /\ Life(log'[s], x) = Life(log[s], x)
             /\ \A f : Lived(log[s], x, f) => Lived(log'[s], x, f)
  <2>1. log[s] \in Seq(LogEntry)
    BY LogTyped
  <2>2. CASE log'[s] = log[s]
    BY <2>2
  <2>3. ASSUME NEW e \in LogEntry, e.turn # x, log'[s] = Append(log[s], e)
        PROVE  /\ Life(log'[s], x) = Life(log[s], x)
               /\ \A f : Lived(log[s], x, f) => Lived(log'[s], x, f)
    <3>1. Life(log'[s], x) = Life(log[s], x)
      BY <2>1, <2>3, LifeStays
    <3>2. ASSUME NEW f, Lived(log[s], x, f) PROVE Lived(log'[s], x, f)
      BY <2>1, <2>3, <3>2, LivedStays
    <3> QED
      BY <3>1, <3>2
  <2>4. ASSUME NEW e \in LogEntry, NEW d \in LogEntry, e.turn # x, d.turn # x,
               log'[s] = Append(Append(log[s], e), d)
        PROVE  /\ Life(log'[s], x) = Life(log[s], x)
               /\ \A f : Lived(log[s], x, f) => Lived(log'[s], x, f)
    <3>0. Append(log[s], e) \in Seq(LogEntry)
      BY <2>1
    <3>1. PICK between \in Seq(LogEntry) : between = Append(log[s], e)
      BY <3>0
    <3>2. Life(between, x) = Life(log[s], x) /\ Life(log'[s], x) = Life(between, x)
      <4>1. Life(between, x) = Life(log[s], x)
        BY <2>1, <2>4, <3>1, LifeStays
      <4>2. Life(Append(between, d), x) = Life(between, x)
        BY <2>4, LifeStays
      <4> QED
        BY <2>4, <3>1, <4>1, <4>2
    <3>3. ASSUME NEW f, Lived(log[s], x, f) PROVE Lived(log'[s], x, f)
      <4>1. Lived(between, x, f)
        BY <2>1, <2>4, <3>1, <3>3, LivedStays
      <4> QED
        BY <2>4, <3>1, <4>1, LivedStays
    <3> QED
      BY <3>2, <3>3
  <2> QED
    BY <2>2, <2>3, <2>4 DEF Untold
<1>2. CASE run[x] = "none"
  BY <1>1, <1>2 DEF RunLogged
<1>3. CASE run[x] # "none"
  <2>1. request[x].session \in Sessions /\ request'[x].session = request[x].session
    BY <1>3, ThreadOf DEF ConversationInv, Submission
  <2>2. PICK f \in Event : Reports(f) = run[x] /\ Lived(log[request[x].session], x, f)
    BY <1>3 DEF RunLogged
  <2>3. Lived(log'[request'[x].session], x, f)
    BY <1>1, <2>1, <2>2
  <2>4. \A s \in Sessions :
          Life(log'[s], x) # {} => s = request'[x].session /\ run'[x] # "none"
    BY <1>1, <2>1 DEF RunLogged
  <2> QED
    BY <2>2, <2>3, <2>4 DEF RunLogged
<1> QED
  BY <1>2, <1>3

(* A step that stores nothing tells nothing.                                *)
LEMMA SilentStep ==
  ASSUME ConversationInv, LogSound, UNCHANGED <<run, log>>, BornFixed
  PROVE  LogSound'
<1>1. ASSUME NEW x \in Requests PROVE RunLogged(x)'
  <2>1. RunLogged(x) /\ Untold(x)
    BY DEF LogSound, Untold
  <2> QED
    BY <2>1, BystanderLogged DEF BornFixed
<1> QED
  BY <1>1 DEF LogSound

(* One event about q, or about no run, leaves every other run untold.       *)
LEMMA OneUntold ==
  ASSUME ConversationInv, NEW s \in Sessions, NEW q \in Requests \cup {NoRequest},
         NEW f \in Event, Emit(s, <<f>>, q), NEW x \in Requests, x # q
  PROVE  Untold(x)
<1>1. PICK e \in LogEntry : e = [event |-> f, turn |-> q]
  BY EmitOne
<1>2. log'[s] = Append(log[s], e) /\ \A z \in Sessions \ {s} : log'[z] = log[z]
  BY <1>1, EmitOne
<1>3. e.turn # x
  BY <1>1
<1> QED
  BY <1>2, <1>3 DEF Untold

LEMMA TwoUntold ==
  ASSUME ConversationInv, NEW s \in Sessions, NEW q \in Requests,
         NEW f \in Event, NEW g \in Event, Emit(s, <<f, g>>, q), NEW x \in Requests, x # q
  PROVE  Untold(x)
<1>1. PICK e \in LogEntry : e = [event |-> f, turn |-> q]
  BY EmitTwo
<1>2. PICK d \in LogEntry : d = [event |-> g, turn |-> q]
  BY EmitTwo
<1>3. log'[s] = Append(Append(log[s], e), d) /\ \A z \in Sessions \ {s} : log'[z] = log[z]
  BY <1>1, <1>2, EmitTwo
<1>4. e.turn # x /\ d.turn # x
  BY <1>1, <1>2
<1> QED
  BY <1>3, <1>4 DEF Untold

(* The run of q stands where its new last event says.                       *)
LEMMA ToldSo ==
  ASSUME NEW q \in Requests, NEW s \in Sessions, request'[q].session = s,
         \A z \in Sessions \ {s} : Life(log'[z], q) = {},
         NEW f \in Event, run'[q] = Reports(f), Reports(f) # "none", Lived(log'[s], q, f)
  PROVE  RunLogged(q)'
  BY DEF RunLogged

(* A transition of a run that emits one event, which may follow its last.   *)
LEMMA RunTold ==
  ASSUME ConversationInv, LogSound, NEW q \in Requests, run[q] # "none",
         NEW f \in Event, EmitRun(q, <<f>>), Reports(f) # "none",
         run' = [run EXCEPT ![q] = Reports(f)], UNCHANGED request,
         \A g \in Event : Reports(g) = run[q] => Follows(g, f)
  PROVE  LogSound'
<1>1. PICK s \in Sessions : s = request[q].session
  BY ThreadOf DEF ConversationInv, Submission
<1>2. Emit(s, <<f>>, q) /\ run \in [Requests -> RunStatus] /\ log[s] \in Seq(LogEntry)
  BY <1>1, LogTyped DEF EmitRun, ConversationInv, TypeOK
<1>3. RunLogged(q)'
  <2>1. PICK g \in Event : Reports(g) = run[q] /\ Lived(log[s], q, g)
    BY <1>1 DEF LogSound, RunLogged
  <2>2. PICK e \in LogEntry : e = [event |-> f, turn |-> q]
    BY <1>2, EmitOne
  <2>3. log'[s] = Append(log[s], e) /\ \A z \in Sessions \ {s} : log'[z] = log[z]
    BY <1>2, <2>2, EmitOne
  <2>4. Lived(log'[s], q, f)
    BY <1>2, <2>1, <2>2, <2>3, LivedGrows
  <2>5. \A z \in Sessions \ {s} : Life(log'[z], q) = {}
    BY <1>1, <2>3 DEF LogSound, RunLogged
  <2> QED
    BY <1>1, <1>2, <2>4, <2>5, ToldSo
<1>4. ASSUME NEW x \in Requests \ {q} PROVE RunLogged(x)'
  <2>1. Untold(x) /\ RunLogged(x) /\ run'[x] = run[x]
    BY <1>2, OneUntold DEF LogSound
  <2> QED
    BY <2>1, BystanderLogged
<1> QED
  BY <1>3, <1>4 DEF LogSound

(* The reply of a run is stored with the two events that report it.         *)
LEMMA ReplyTold ==
  ASSUME ConversationInv, LogSound, NEW q \in Requests, CommitReply(q)
  PROVE  LogSound'
<1>1. PICK s \in Sessions : s = request[q].session
  BY ThreadOf DEF ConversationInv, Submission
<1>2. PICK f \in Event : f = "run.succeeded"
  BY Reported
<1>3. PICK g \in Event : g = "assistant.message.ready"
  BY Reported
<1>4. /\ Emit(s, <<f, g>>, q) /\ run \in [Requests -> RunStatus]
      /\ log[s] \in Seq(LogEntry) /\ UNCHANGED request
      /\ run' = [run EXCEPT ![q] = "succeeded"] /\ run[q] = "running"
  BY <1>1, <1>2, <1>3, LogTyped
     DEF CommitReply, EmitRun, ConversationInv, TypeOK, RequestsSound, WorkSound, submissions
<1>5. RunLogged(q)'
  <2>1. PICK h \in Event : Reports(h) = "running" /\ Lived(log[s], q, h)
    BY <1>1, <1>4 DEF LogSound, RunLogged
  <2>2. PICK e \in LogEntry : e = [event |-> f, turn |-> q]
    BY <1>4, EmitTwo
  <2>3. PICK d \in LogEntry : d = [event |-> g, turn |-> q]
    BY <1>4, EmitTwo
  <2>4. log'[s] = Append(Append(log[s], e), d) /\ \A z \in Sessions \ {s} : log'[z] = log[z]
    BY <1>4, <2>2, <2>3, EmitTwo
  <2>5. Append(log[s], e) \in Seq(LogEntry)
    BY <1>4
  <2>6. PICK between \in Seq(LogEntry) : between = Append(log[s], e)
    BY <2>5
  <2>7. Lived(between, q, f)
    BY <1>2, <1>4, <2>1, <2>2, <2>6, NextEvent, LivedGrows
  <2>8. Lived(log'[s], q, g)
    BY <1>2, <1>3, <2>3, <2>4, <2>6, <2>7, Reported, LivedGrows
  <2>9. \A z \in Sessions \ {s} : Life(log'[z], q) = {}
    BY <1>1, <2>4 DEF LogSound, RunLogged
  <2>10. run'[q] = Reports(g) /\ Reports(g) # "none"
    BY <1>3, <1>4, Reported
  <2> QED
    BY <1>1, <1>4, <2>8, <2>9, <2>10, ToldSo
<1>6. ASSUME NEW x \in Requests \ {q} PROVE RunLogged(x)'
  <2>1. Untold(x) /\ RunLogged(x) /\ run'[x] = run[x]
    BY <1>4, TwoUntold DEF LogSound
  <2> QED
    BY <1>4, <2>1, BystanderLogged
<1> QED
  BY <1>5, <1>6 DEF LogSound

(* A submission starts the life of its run.                                 *)
LEMMA SubmissionTold ==
  ASSUME ConversationInv, LogSound, NEW q \in Requests, CommitSubmission(q)
  PROVE  LogSound'
<1>1. PICK s \in Sessions : s = request[q].session
  BY ThreadOf DEF ConversationInv, Submission
<1>2. PICK f \in Event : f = "message.accepted"
  BY Reported
<1>3. PICK g \in Event : g = "run.queued"
  BY Reported
<1>4. /\ Emit(s, <<f, g>>, q) /\ run \in [Requests -> RunStatus]
      /\ log[s] \in Seq(LogEntry)
      /\ run' = [run EXCEPT ![q] = "queued"] /\ request[q].phase = "numbered"
  BY <1>1, <1>2, <1>3, LogTyped DEF CommitSubmission, ConversationInv, TypeOK
<1>5. \A x \in Requests : request'[x].session = request[x].session
  <2>1. PICK p : request' = [request EXCEPT ![q].phase = p]
    BY DEF CommitSubmission
  <2>2. request \in [Requests -> Submission]
    BY DEF ConversationInv, TypeOK, Submission
  <2> QED
    BY <2>1, <2>2 DEF Submission
<1>6. run[q] = "none"
  BY <1>4 DEF ConversationInv, RequestsSound, SubmissionSound, Unborn
<1>7. RunLogged(q)'
  <2>1. \A z \in Sessions : Life(log[z], q) = {}
    BY <1>6 DEF LogSound, RunLogged
  <2>2. PICK e \in LogEntry : e = [event |-> f, turn |-> q]
    BY <1>4, EmitTwo
  <2>3. PICK d \in LogEntry : d = [event |-> g, turn |-> q]
    BY <1>4, EmitTwo
  <2>4. log'[s] = Append(Append(log[s], e), d) /\ \A z \in Sessions \ {s} : log'[z] = log[z]
    BY <1>4, <2>2, <2>3, EmitTwo
  <2>5. Append(log[s], e) \in Seq(LogEntry)
    BY <1>4
  <2>6. PICK between \in Seq(LogEntry) : between = Append(log[s], e)
    BY <2>5
  <2>7. Lived(between, q, f)
    BY <1>2, <1>4, <2>1, <2>2, <2>6, LivedStarts
  <2>8. Lived(log'[s], q, g)
    BY <1>2, <1>3, <2>3, <2>4, <2>6, <2>7, Reported, LivedGrows
  <2>9. \A z \in Sessions \ {s} : Life(log'[z], q) = {}
    BY <2>1, <2>4
  <2>10. run'[q] = Reports(g) /\ Reports(g) # "none"
    BY <1>3, <1>4, Reported
  <2> QED
    BY <1>1, <1>5, <2>8, <2>9, <2>10, ToldSo
<1>8. ASSUME NEW x \in Requests \ {q} PROVE RunLogged(x)'
  <2>1. Untold(x) /\ RunLogged(x) /\ run'[x] = run[x]
    BY <1>4, TwoUntold DEF LogSound
  <2> QED
    BY <1>5, <2>1, BystanderLogged
<1> QED
  BY <1>7, <1>8 DEF LogSound

(* Sessions tell nothing about a run.                                       *)
LEMMA SessionTold ==
  ASSUME ConversationInv, LogSound, NEW s \in Sessions, CreateSession(s) \/ CloseSession(s)
  PROVE  LogSound'
<1>1. PICK f \in Event : Emit(s, <<f>>, NoRequest)
  <2>1. "session.ready" \in Event /\ "session.closed" \in Event
    BY DEF Event
  <2> QED
    BY <2>1 DEF CreateSession, CloseSession
<1>2. UNCHANGED <<run, request>>
  BY DEF CreateSession, CloseSession, submissions
<1>3. ASSUME NEW x \in Requests PROVE RunLogged(x)'
  <2>1. Untold(x) /\ RunLogged(x)
    BY <1>1, OneUntold, ConversationConstants DEF LogSound
  <2> QED
    BY <1>2, <2>1, BystanderLogged
<1> QED
  BY <1>3 DEF LogSound

(* The gate tells of every run it gives up: a session has at most one.      *)
LEMMA ReconcileTold ==
  ASSUME ConversationInv, LogSound, Reconcile
  PROVE  LogSound'
<1>1. /\ run' = [q \in Requests |-> IF Interrupted(q) THEN "failed" ELSE run[q]]
      /\ UNCHANGED request
  BY DEF Reconcile, submissions
<1>2. PICK f \in Event : f = "run.interrupted"
  BY Reported
<1> DEFINE lost(s) == {q \in Requests : Interrupted(q) /\ request[q].session = s}
<1>3. ASSUME NEW s \in Sessions
      PROVE  log'[s] = IF lost(s) = {} THEN log[s]
                       ELSE Append(log[s], [event |-> f, turn |-> CHOOSE q \in lost(s) : TRUE])
  BY <1>2 DEF Reconcile
<1>4. ASSUME NEW s \in Sessions, NEW q \in lost(s), NEW x \in lost(s) PROVE q = x
  BY DEF ConversationInv, RowsSound, OneActiveRun, Interrupted, ActiveStatus, Conv
<1>5. ASSUME NEW s \in Sessions, NEW q \in lost(s)
      PROVE  log'[s] = Append(log[s], [event |-> f, turn |-> q])
  <2>1. (CHOOSE x \in lost(s) : TRUE) \in lost(s)
    OBVIOUS
  <2>2. (CHOOSE x \in lost(s) : TRUE) = q
    BY <1>4, <2>1
  <2> QED
    BY <1>3, <2>2
<1>6. ASSUME NEW q \in Requests PROVE RunLogged(q)'
  <2>1. PICK s \in Sessions : s = request[q].session
    BY ThreadOf DEF ConversationInv, Submission
  <2>2. CASE Interrupted(q)
    <3>1. q \in lost(s) /\ run'[q] = "failed" /\ run[q] \in ActiveStatus
      BY <1>1, <2>1, <2>2 DEF Interrupted
    <3>2. PICK g \in Event : Reports(g) = run[q] /\ Lived(log[s], q, g)
      BY <2>1, <3>1 DEF LogSound, RunLogged, ActiveStatus
    <3>3. Follows(g, f)
      BY <1>2, <3>1, <3>2, NextEvent DEF ActiveStatus
    <3>4. [event |-> f, turn |-> q] \in LogEntry
      BY DEF LogEntry
    <3>5. PICK e \in LogEntry : e = [event |-> f, turn |-> q]
      BY <3>4
    <3>6. log'[s] = Append(log[s], e) /\ log[s] \in Seq(LogEntry)
      BY <1>5, <3>1, <3>5, LogTyped
    <3>7. Lived(log'[s], q, f)
      BY <3>2, <3>3, <3>5, <3>6, LivedGrows
    <3>8. ASSUME NEW z \in Sessions \ {s} PROVE Life(log'[z], q) = {}
      <4>1. Life(log[z], q) = {} /\ log[z] \in Seq(LogEntry)
        BY <2>1, LogTyped DEF LogSound, RunLogged
      <4>2. CASE lost(z) = {}
        BY <1>3, <4>1, <4>2
      <4>3. ASSUME NEW x \in lost(z) PROVE Life(log'[z], q) = {}
        <5>1. x # q
          BY <2>1
        <5>2. [event |-> f, turn |-> x] \in LogEntry
          BY DEF LogEntry
        <5>3. PICK d \in LogEntry : d = [event |-> f, turn |-> x]
          BY <5>2
        <5>4. log'[z] = Append(log[z], d) /\ d.turn # q
          BY <1>5, <5>1, <5>3
        <5> QED
          BY <4>1, <5>4, LifeStays
      <4> QED
        BY <4>2, <4>3
    <3>9. run'[q] = Reports(f) /\ Reports(f) # "none"
      BY <1>2, <3>1, Reported
    <3> QED
      BY <1>1, <2>1, <3>7, <3>8, <3>9, ToldSo
  <2>3. CASE ~Interrupted(q)
    <3>1. run'[q] = run[q] /\ RunLogged(q)
      BY <1>1, <2>3 DEF LogSound
    <3>2. ASSUME NEW z \in Sessions, NEW x \in lost(z)
          PROVE  \E e \in LogEntry : e.turn # q /\ log'[z] = Append(log[z], e)
      <4>1. x # q
        BY <2>3
      <4>2. [event |-> f, turn |-> x] \in LogEntry
        BY DEF LogEntry
      <4>3. PICK d \in LogEntry : d = [event |-> f, turn |-> x]
        BY <4>2
      <4>4. log'[z] = Append(log[z], d) /\ d.turn # q
        BY <1>5, <4>1, <4>3
      <4> WITNESS d \in LogEntry
      <4> QED
        BY <4>4
    <3> HIDE DEF lost
    <3>3. ASSUME NEW z \in Sessions
          PROVE  \/ log'[z] = log[z]
                 \/ \E e \in LogEntry : e.turn # q /\ log'[z] = Append(log[z], e)
      <4>1. CASE lost(z) = {}
        BY <1>3, <4>1
      <4>2. ASSUME NEW x \in lost(z)
            PROVE  \E e \in LogEntry : e.turn # q /\ log'[z] = Append(log[z], e)
        BY <3>2
      <4> QED
        BY <4>1, <4>2
    <3>4. Untold(q)
      BY <3>3 DEF Untold
    <3> QED
      BY <1>1, <3>1, <3>4, BystanderLogged
  <2> QED
    BY <2>2, <2>3
<1> QED
  BY <1>6 DEF LogSound

(* Steps that tell nothing leave what a stored message refers to.           *)
LEMMA SilentSteps ==
  ASSUME ConversationInv, LogSound, NEW q \in Requests,
         \/ \E s \in Sessions, k \in Keys, b \in Bodies : Arrive(q, s, k, b)
         \/ CheckSubmission(q) \/ NumberMessage(q) \/ SubmissionConflicts(q)
         \/ ResolveConflict(q) \/ SubmissionFails(q) \/ Enqueue(q) \/ NumberReply(q)
  PROVE  LogSound'
<1>1. request \in [Requests -> Submission]
  BY DEF ConversationInv, TypeOK, Submission
<1>2. BornFixed
  <2>1. ASSUME NEW s \in Sessions, NEW k \in Keys, NEW b \in Bodies, Arrive(q, s, k, b)
        PROVE  BornFixed
    <3>1. run[q] = "none"
      BY <2>1 DEF Arrive, ConversationInv, RequestsSound, SubmissionSound, Unborn
    <3>2. \A x \in Requests \ {q} : request'[x] = request[x]
      BY <1>1, <2>1 DEF Arrive
    <3> QED
      BY <3>1, <3>2 DEF BornFixed
  <2>2. CASE CheckSubmission(q) \/ ResolveConflict(q) \/ Enqueue(q)
    <3>1. \E p, a : request' = [request EXCEPT ![q].phase = p, ![q].answer = a]
                    \/ request' = [request EXCEPT ![q].phase = p]
      BY <2>2 DEF CheckSubmission, ResolveConflict, Enqueue
    <3> QED
      BY <1>1, <3>1 DEF BornFixed, Submission
  <2>3. CASE NumberMessage(q) \/ SubmissionConflicts(q) \/ SubmissionFails(q) \/ NumberReply(q)
    <3>1. \E p, n : \/ request' = [request EXCEPT ![q].phase = p, ![q].ordinal = n]
                    \/ request' = [request EXCEPT ![q].phase = p]
                    \/ request' = [request EXCEPT ![q].ordinal = n]
      BY <2>3 DEF NumberMessage, SubmissionConflicts, SubmissionFails, NumberReply
    <3> QED
      BY <1>1, <3>1 DEF BornFixed, Submission
  <2> QED
    BY <2>1, <2>2, <2>3
<1>3. UNCHANGED <<run, log>>
  BY DEF Arrive, CheckSubmission, NumberMessage, SubmissionConflicts, ResolveConflict,
         SubmissionFails, Enqueue, NumberReply, rows
<1> QED
  BY <1>2, <1>3, SilentStep

LEMMA RestartTold ==
  ASSUME ConversationInv, LogSound, Restart
  PROVE  LogSound'
<1>1. ASSUME NEW q \in Requests
      PROVE  /\ request'[q].session = request[q].session /\ request'[q].key = request[q].key
             /\ request'[q].body = request[q].body
  <2>1. request[q] \in Submission
    BY ThreadOf DEF ConversationInv
  <2>2. request'[q] = IF request[q].phase \in {"idle", "answered"} THEN request[q]
                      ELSE [request[q] EXCEPT !.phase = "lost"]
    BY DEF Restart
  <2> QED
    BY <2>1, <2>2 DEF Submission
<1>2. BornFixed /\ UNCHANGED <<run, log>>
  BY <1>1 DEF BornFixed, Restart, rows
<1> QED
  BY <1>2, SilentStep

(* Every transition of a run outside its submission and its reply.          *)
LEMMA TransitionTold ==
  ASSUME ConversationInv, LogSound, NEW q \in Requests,
         \/ CancelQueued(q) \/ CancelRunning(q) \/ StartRun(q) \/ FailRun(q)
         \/ FinishCancelled(q) \/ RecordFailure(q)
  PROVE  LogSound'
<1>1. UNCHANGED request
  BY DEF CancelQueued, CancelRunning, StartRun, FailRun, FinishCancelled, RecordFailure,
         submissions
<1>2. PICK f \in Event :
        /\ EmitRun(q, <<f>>) /\ run' = [run EXCEPT ![q] = Reports(f)]
        /\ Reports(f) # "none" /\ run[q] # "none"
        /\ \A g \in Event : Reports(g) = run[q] => Follows(g, f)
  <2>1. CASE CancelQueued(q)
    BY <2>1, Reported, NextEvent DEF CancelQueued
  <2>2. CASE CancelRunning(q)
    BY <2>2, Reported, NextEvent DEF CancelRunning
  <2>3. CASE StartRun(q)
    BY <2>3, Reported, NextEvent DEF StartRun, Startable
  <2>4. CASE FailRun(q)
    BY <2>4, Reported, NextEvent DEF FailRun
  <2>5. CASE FinishCancelled(q)
    BY <2>5, Reported, NextEvent DEF FinishCancelled
  <2>6. CASE RecordFailure(q) /\ run[q] = "cancel_requested"
    BY <2>6, Reported, NextEvent DEF RecordFailure
  <2>7. CASE RecordFailure(q) /\ run[q] # "cancel_requested"
    BY <2>7, Reported, NextEvent DEF RecordFailure, Unsettled, ActiveStatus
  <2> QED
    BY <2>1, <2>2, <2>3, <2>4, <2>5, <2>6, <2>7
<1> QED
  BY <1>1, <1>2, RunTold

LEMMA InitTold == Init => LogSound
<1> SUFFICES ASSUME Init, NEW q \in Requests PROVE RunLogged(q)
  BY DEF LogSound
<1>1. run[q] = "none" /\ \A s \in Sessions : log[s] = <<>>
  BY DEF Init
<1>2. \A s \in Sessions : Life(log[s], q) = {}
  BY <1>1 DEF Life
<1> QED
  BY <1>1, <1>2 DEF RunLogged

LEMMA NextTold == ConversationInv /\ LogSound /\ [Next]_vars => LogSound'
<1> SUFFICES ASSUME ConversationInv, LogSound, [Next]_vars PROVE LogSound'
  OBVIOUS
<1>1. ASSUME NEW s \in Sessions, CreateSession(s) \/ CloseSession(s) PROVE LogSound'
  BY <1>1, SessionTold
<1>2. ASSUME NEW q \in Requests, NEW s \in Sessions, NEW k \in Keys, NEW b \in Bodies,
             Arrive(q, s, k, b)
      PROVE  LogSound'
  BY <1>2, SilentSteps
<1>3. ASSUME NEW q \in Requests, Submit(q) PROVE LogSound'
  BY <1>3, SilentSteps, SubmissionTold DEF Submit
<1>4. ASSUME NEW q \in Requests, CancelQueued(q) \/ CancelRunning(q) PROVE LogSound'
  BY <1>4, TransitionTold
<1>5. ASSUME NEW q \in Requests, Execute(q) PROVE LogSound'
  <2>1. CASE SkipRun(q) \/ WorkerFails(q) \/ DropRun(q)
    BY <2>1, SilentStep DEF SkipRun, WorkerFails, DropRun, rows, submissions, BornFixed
  <2>2. CASE NumberReply(q)
    BY <2>2, SilentSteps
  <2>3. CASE CommitReply(q)
    BY <2>3, ReplyTold
  <2> QED
    BY <1>5, <2>1, <2>2, <2>3, TransitionTold DEF Execute
<1>6. CASE TakeRun \/ UNCHANGED vars
  BY <1>6, SilentStep DEF TakeRun, vars, rows, submissions, BornFixed
<1> QED
  BY <1>1, <1>2, <1>3, <1>4, <1>5, <1>6, RestartTold, ReconcileTold DEF Next

(* The events of a run in the log of its session are one legal life of a    *)
(* run that ends in the status of its row, whatever races, fails, is        *)
(* cancelled or restarts: the stream and the row agree.                     *)
THEOREM EventsTellTheRun == Spec => []EventsTrackRun
<1>1. ASSUME ConversationInv, LogSound PROVE EventsTrackRun
  <2>1. ASSUME NEW q \in Requests
        PROVE  LET entries == log[request[q].session]
                   life == Life(entries, q)
               IN  /\ run[q] = "none" <=> life = {}
                   /\ \A i \in life :
                        /\ \/ \E j \in life : j < i
                           \/ entries[i].event = "message.accepted"
                        /\ \/ \E j \in life : i < j
                           \/ Reports(entries[i].event) = run[q]
                   /\ \A i, j \in life :
                        \/ i >= j
                        \/ \E k \in life : i < k /\ k < j
                        \/ Follows(entries[i].event, entries[j].event)
    <3>1. PICK s \in Sessions : s = request[q].session
      BY <1>1, ThreadOf DEF ConversationInv, Submission
    <3>2. PICK entries \in Seq(LogEntry) : entries = log[s]
      BY <1>1, LogTyped
    <3>3. RunLogged(q)
      BY <1>1 DEF LogSound
    <3>4. CASE run[q] = "none"
      <4>1. Life(entries, q) = {}
        BY <3>1, <3>2, <3>3, <3>4 DEF RunLogged
      <4> QED
        BY <3>1, <3>2, <3>4, <4>1
    <3>5. CASE run[q] # "none"
      <4>1. PICK f \in Event : Reports(f) = run[q] /\ Lived(entries, q, f)
        BY <3>1, <3>2, <3>3, <3>5 DEF RunLogged
      <4>2. PICK n \in Life(entries, q) :
              entries[n].event = f /\ \A i \in Life(entries, q) : i <= n
        BY <4>1 DEF Lived
      <4>3. \A i \in Life(entries, q) : i \in Nat
        BY <3>2 DEF Life
      <4>4. ASSUME NEW i \in Life(entries, q)
            PROVE  /\ \/ \E j \in Life(entries, q) : j < i
                      \/ entries[i].event = "message.accepted"
                   /\ \/ \E j \in Life(entries, q) : i < j
                      \/ Reports(entries[i].event) = run[q]
        <5>1. CASE i = n
          BY <4>1, <4>2, <5>1 DEF Lived
        <5>2. CASE i # n
          <6>1. i < n
            BY <4>2, <4>3, <5>2
          <6> QED
            BY <4>1, <6>1 DEF Lived
        <5> QED
          BY <5>1, <5>2
      <4>5. \A i, j \in Life(entries, q) :
              \/ i >= j
              \/ \E k \in Life(entries, q) : i < k /\ k < j
              \/ Follows(entries[i].event, entries[j].event)
        BY <4>1 DEF Lived
      <4> QED
        BY <3>1, <3>2, <3>5, <4>2, <4>4, <4>5
    <3> QED
      BY <3>4, <3>5
  <2> QED
    BY <2>1 DEF EventsTrackRun
<1> QED
  BY <1>1, InitTold, NextTold, ConversationsSafe, InitConversations, NextConversations, PTL DEF Spec

-----------------------------------------------------------------------------
(* Conversations implements ConversationHistory for every instance: a       *)
(* stored submission asks, a stored reply answers, and every other step     *)
(* at most gives up what is open.                                           *)

(* The ordinals of a conversation are 1 to n, each once.                    *)
Numbered(M, c, n) ==
    /\ \A m \in M : m.ordinal \in Nat \ {0}
    /\ \A m, k \in M : m.conv = k.conv /\ m.ordinal = k.ordinal => m = k
    /\ \A k \in Nat \ {0} : (\E m \in M : m.conv = c /\ m.ordinal = k) <=> k <= n

-----------------------------------------------------------------------------
(* Histories of sets of messages                                            *)

LEMMA CountPart ==
  ASSUME NEW M, NEW c, NEW n \in Nat, Numbered(M, c, n)
  PROVE  /\ Cardinality(Part(M, c)) = n
         /\ \A i \in 1..n : At(M, c, i) \in Part(M, c) /\ At(M, c, i).ordinal = i
<1>1. \A i \in 1..n : At(M, c, i) \in Part(M, c) /\ At(M, c, i).ordinal = i
  <2> SUFFICES ASSUME NEW i \in 1..n
               PROVE  At(M, c, i) \in Part(M, c) /\ At(M, c, i).ordinal = i
    OBVIOUS
  <2>1. i \in Nat \ {0} /\ i <= n
    OBVIOUS
  <2>2. \E m \in Part(M, c) : m.ordinal = i
    BY <2>1 DEF Numbered, Part
  <2> QED
    BY <2>2 DEF At
<1> DEFINE f == [i \in 1..n |-> At(M, c, i)]
<1>2. f \in Injection(1..n, Part(M, c))
  BY <1>1 DEF Injection, IsInjective
<1>3. ASSUME NEW m \in Part(M, c) PROVE \E i \in 1..n : f[i] = m
  <2>1. m \in M /\ m.conv = c /\ m.ordinal \in Nat \ {0}
    BY DEF Part, Numbered
  <2>2. m.ordinal <= n
    BY <2>1 DEF Numbered
  <2>3. m.ordinal \in 1..n
    BY <2>1, <2>2
  <2>4. At(M, c, m.ordinal) \in M /\ At(M, c, m.ordinal).conv = c
        /\ At(M, c, m.ordinal).ordinal = m.ordinal
    BY <1>1, <2>3 DEF Part
  <2>5. At(M, c, m.ordinal) = m
    BY <2>1, <2>4 DEF Numbered
  <2> QED
    BY <2>3, <2>5
<1>4. f \in Bijection(1..n, Part(M, c))
  BY <1>2, <1>3 DEF Bijection, Surjection, Injection
<1>5. IsFiniteSet(1..n) /\ Cardinality(1..n) = n
  BY FS_Interval
<1>6. Cardinality(Part(M, c)) = Cardinality(1..n)
  BY <1>4, <1>5, FS_Bijection DEF ExistsBijection
<1> QED
  BY <1>1, <1>5, <1>6

LEMMA AppendPart ==
  ASSUME NEW M, NEW new, NEW n \in Nat, Numbered(M, new.conv, n),
         new.ordinal = n + 1
  PROVE  Told(M \cup {new}, new.conv)
           = Append(Told(M, new.conv), [role |-> new.role, turn |-> new.turn])
<1> DEFINE c == new.conv
           N == M \cup {new}
           entry == [role |-> new.role, turn |-> new.turn]
<1>0. n + 1 \in Nat \ {0}
  OBVIOUS
<1>1. Numbered(N, c, n + 1)
  <2>1. \A m \in N : m.ordinal \in Nat \ {0}
    BY <1>0 DEF Numbered
  <2>2. \A m, k \in N : m.conv = k.conv /\ m.ordinal = k.ordinal => m = k
    <3>1. \A m \in M : m.conv = c => m.ordinal # n + 1
      BY <1>0 DEF Numbered
    <3> QED
      BY <3>1 DEF Numbered
  <2>3. \A k \in Nat \ {0} : (\E m \in N : m.conv = c /\ m.ordinal = k) <=> k <= n + 1
    <3> SUFFICES ASSUME NEW k \in Nat \ {0}
                 PROVE  (\E m \in N : m.conv = c /\ m.ordinal = k) <=> k <= n + 1
      OBVIOUS
    <3>1. (\E m \in N : m.conv = c /\ m.ordinal = k)
            <=> (\E m \in M : m.conv = c /\ m.ordinal = k) \/ k = n + 1
      OBVIOUS
    <3>2. (\E m \in M : m.conv = c /\ m.ordinal = k) <=> k <= n
      BY DEF Numbered
    <3> QED
      BY <3>1, <3>2
  <2> QED
    BY <2>1, <2>2, <2>3 DEF Numbered
<1>2. /\ Cardinality(Part(M, c)) = n
      /\ \A i \in 1..n : At(M, c, i) \in Part(M, c) /\ At(M, c, i).ordinal = i
  BY CountPart
<1>3. /\ Cardinality(Part(N, c)) = n + 1
      /\ \A i \in 1..n + 1 : At(N, c, i) \in Part(N, c) /\ At(N, c, i).ordinal = i
  BY <1>0, <1>1, CountPart
<1>4. ASSUME NEW i \in 1..n PROVE At(N, c, i) = At(M, c, i)
  <2>1. At(M, c, i) \in N /\ At(M, c, i).conv = c /\ At(M, c, i).ordinal = i
    BY <1>2 DEF Part
  <2>2. i \in 1..n + 1
    OBVIOUS
  <2>3. At(N, c, i) \in N /\ At(N, c, i).conv = c /\ At(N, c, i).ordinal = i
    BY <1>3, <2>2 DEF Part
  <2> QED
    BY <1>1, <2>1, <2>3 DEF Numbered
<1>5. At(N, c, n + 1) = new
  <2>1. n + 1 \in 1..n + 1
    OBVIOUS
  <2>2. At(N, c, n + 1) \in N /\ At(N, c, n + 1).conv = c
        /\ At(N, c, n + 1).ordinal = n + 1
    BY <1>3, <2>1 DEF Part
  <2> QED
    BY <1>1, <2>2 DEF Numbered
<1> DEFINE say(m) == [role |-> m.role, turn |-> m.turn]
<1>6. Told(M, c) = [i \in 1..n |-> say(At(M, c, i))]
  BY <1>2 DEF Told
<1>7. Told(N, c) = [i \in 1..n + 1 |-> say(At(N, c, i))]
  BY <1>3 DEF Told
<1>8. \A i \in 1..n : say(At(N, c, i)) = say(At(M, c, i))
  BY <1>4
<1>9. say(At(N, c, n + 1)) = entry
  BY <1>5
<1> HIDE DEF say, entry, N, c
<1> DEFINE old == [i \in 1..n |-> say(At(M, c, i))]
           now == [i \in 1..n + 1 |-> say(At(N, c, i))]
<1>10. now = Append(old, entry)
  <2>1. \A i \in 1..n + 1 : now[i] = IF i <= n THEN old[i] ELSE entry
    BY <1>8, <1>9
  <2>2. Len(old) = n /\ old \in Seq({say(At(M, c, i)) : i \in 1..n})
    OBVIOUS
  <2> QED
    BY <2>1, <2>2
<1> QED
  BY <1>6, <1>7, <1>10 DEF N, c, entry

-----------------------------------------------------------------------------
(* The mapping                                                              *)

LEMMA Numbering ==
  ASSUME ConversationInv, NEW c, NEW n \in Nat, Filled(c, n)
  PROVE  Numbered(messages, c, n)
<1>1. \A m \in messages : m.ordinal \in Nat \ {0}
  BY DEF ConversationInv, TypeOK
<1>2. \A m, k \in messages : m.conv = k.conv /\ m.ordinal = k.ordinal => m = k
  BY DEF ConversationInv, RowsSound, OneMessageEach
<1>3. \A k \in Nat \ {0} : (\E m \in messages : m.conv = c /\ m.ordinal = k) <=> k <= n
  BY DEF Filled, Taken
<1> QED
  BY <1>1, <1>2, <1>3 DEF Numbered

(* The active runs of a conversation are those whose request is of it, and  *)
(* there is at most one.                                                    *)
LEMMA OpenRuns ==
  ASSUME ConversationInv, NEW c
  PROVE  /\ \A q : q \in ActiveRuns(c) <=> q \in Requests /\ Active(q) /\ Conv(q) = c
         /\ \A q, x \in ActiveRuns(c) : q = x
<1>1. /\ \A m \in messages : m.turn \in Requests /\ m.conv = Conv(m.turn)
      /\ \A q \in Requests : run[q] # "none" => \E m \in messages : User(m) /\ m.turn = q
  BY DEF ConversationInv, TypeOK, RowsSound, RunsOfMessages
<1>2. \A q : q \in ActiveRuns(c)
             <=> \E m \in messages : m.conv = c /\ User(m) /\ Active(m.turn) /\ q = m.turn
  BY DEF ActiveRuns, UserMessages, User, Active
<1>3. \A q : q \in ActiveRuns(c) <=> q \in Requests /\ Active(q) /\ Conv(q) = c
  BY <1>1, <1>2 DEF Active, ActiveStatus
<1>4. \A q, x \in ActiveRuns(c) : q = x
  BY <1>3 DEF ConversationInv, RowsSound, OneActiveRun, Active, ActiveStatus
<1> QED
  BY <1>3, <1>4

LEMMA OpenRunsNext ==
  ConversationInv' =>
    \A c, q : q \in ActiveRuns(c)' <=> q \in Requests /\ Active(q)' /\ Conv(q)' = c
<1>1. ConversationInv =>
        \A c, q : q \in ActiveRuns(c) <=> q \in Requests /\ Active(q) /\ Conv(q) = c
  BY OpenRuns
<1>2. (ConversationInv =>
        \A c, q : q \in ActiveRuns(c) <=> q \in Requests /\ Active(q) /\ Conv(q) = c)'
  BY <1>1, PTL
<1> QED
  BY <1>2

(* Whom the mapping calls the open question.                                *)
LEMMA OpenQuestion ==
  ASSUME ConversationInv, NEW c \in Thread
  PROVE  /\ open[c] = NoRequest <=> ActiveRuns(c) = {}
         /\ \A q \in ActiveRuns(c) : open[c] = q
<1>1. \A q, x \in ActiveRuns(c) : q \in Requests /\ q = x
  BY OpenRuns
<1>2. NoRequest \notin Requests
  BY ConversationConstants
<1>3. open[c] = IF ActiveRuns(c) = {} THEN NoRequest ELSE CHOOSE q \in ActiveRuns(c) : TRUE
  BY DEF open, Question
<1> QED
  BY <1>1, <1>2, <1>3

-----------------------------------------------------------------------------
(* Steps that at most settle runs                                           *)

LEMMA QuietStep ==
  ASSUME ConversationInv, ConversationInv', UNCHANGED messages,
         \A q \in Requests : run'[q] \in ActiveStatus => run[q] \in ActiveStatus
  PROVE  \E C \in SUBSET Thread :
           /\ open' = [c \in Thread |-> IF c \in C THEN NoRequest ELSE open[c]]
           /\ UNCHANGED history
<1>1. UNCHANGED history
  BY DEF history
<1>2. \A c \in Thread : ActiveRuns(c)' \subseteq ActiveRuns(c)
  <2>1. \A m \in messages : m.turn \in Requests
    BY DEF ConversationInv, TypeOK
  <2> QED
    BY <2>1 DEF ActiveRuns, UserMessages
<1> DEFINE C == {c \in Thread : ActiveRuns(c)' = {}}
<1>3. ASSUME NEW c \in Thread
      PROVE  open'[c] = IF c \in C THEN NoRequest ELSE open[c]
  <2>1. open'[c] = Question(ActiveRuns(c)')
    BY DEF open
  <2>2. CASE ActiveRuns(c)' = {}
    BY <2>1, <2>2 DEF Question
  <2>3. CASE ActiveRuns(c)' # {}
    <3>1. PICK q \in ActiveRuns(c)' : open'[c] = q
      BY <2>1, <2>3 DEF Question
    <3>2. open[c] = q
      BY <1>2, <3>1, OpenQuestion
    <3> QED
      BY <2>3, <3>1, <3>2
  <2> QED
    BY <2>2, <2>3
<1>4. open' = [c \in Thread |-> IF c \in C THEN NoRequest ELSE open[c]]
  <2>1. open' = [c \in Thread |-> open'[c]]
    BY DEF open
  <2> QED
    BY <1>3, <2>1
<1> QED
  BY <1>1, <1>4

LEMMA OtherSteps ==
  ASSUME ConversationInv, [Next]_vars,
         \A q \in Requests : ~CommitSubmission(q) /\ ~CommitReply(q)
  PROVE  /\ UNCHANGED messages
         /\ \A q \in Requests : run'[q] \in ActiveStatus => run[q] \in ActiveStatus
<1> DEFINE Goal == /\ UNCHANGED messages
                   /\ \A q \in Requests : run'[q] \in ActiveStatus => run[q] \in ActiveStatus
<1>0. run \in [Requests -> RunStatus]
  BY DEF ConversationInv, TypeOK
<1>1. ASSUME UNCHANGED <<run, messages>> PROVE Goal
  BY <1>1
<1>2. ASSUME NEW s \in Sessions, CreateSession(s) \/ CloseSession(s) PROVE Goal
  BY <1>2 DEF CreateSession, CloseSession
<1>3. ASSUME NEW q \in Requests, NEW s \in Sessions, NEW k \in Keys, NEW b \in Bodies,
             Arrive(q, s, k, b)
      PROVE  Goal
  BY <1>3 DEF Arrive, rows
<1>4. ASSUME NEW q \in Requests, Submit(q) PROVE Goal
  BY <1>4 DEF Submit, CheckSubmission, NumberMessage, SubmissionConflicts, ResolveConflict,
              SubmissionFails, Enqueue, rows
<1>5. ASSUME NEW q \in Requests, CancelQueued(q) \/ CancelRunning(q) PROVE Goal
  BY <1>0, <1>5 DEF CancelQueued, CancelRunning, ActiveStatus
<1>6. ASSUME TakeRun PROVE Goal
  BY <1>6 DEF TakeRun, rows
<1>7. ASSUME NEW q \in Requests, Execute(q) PROVE Goal
  <2>1. CASE StartRun(q)
    BY <1>0, <2>1 DEF StartRun, Startable, ActiveStatus
  <2>2. CASE SkipRun(q) \/ NumberReply(q) \/ WorkerFails(q) \/ DropRun(q)
    BY <2>2 DEF SkipRun, NumberReply, WorkerFails, DropRun, rows
  <2>3. CASE FailRun(q) \/ FinishCancelled(q)
    BY <1>0, <2>3 DEF FailRun, FinishCancelled, ActiveStatus
  <2>4. CASE RecordFailure(q)
    BY <1>0, <2>4 DEF RecordFailure, Unsettled, ActiveStatus
  <2> QED
    BY <1>7, <2>1, <2>2, <2>3, <2>4 DEF Execute
<1>8. ASSUME Restart PROVE Goal
  BY <1>8 DEF Restart, rows
<1>9. ASSUME Reconcile PROVE Goal
  BY <1>9 DEF Reconcile, Interrupted, ActiveStatus
<1>10. ASSUME UNCHANGED vars PROVE Goal
  BY <1>10 DEF vars, rows
<1> QED
  BY <1>2, <1>3, <1>4, <1>5, <1>6, <1>7, <1>8, <1>9, <1>10 DEF Next

-----------------------------------------------------------------------------
(* The steps that store a message                                           *)

LEMMA StoredMessage ==
  ASSUME ConversationInv, NEW new, NEW n \in Nat, new.conv \in Thread,
         Filled(new.conv, n), new.ordinal = n + 1, messages' = messages \cup {new}
  PROVE  history' = [history EXCEPT ![new.conv] =
                          Append(@, [role |-> new.role, turn |-> new.turn])]
<1> DEFINE c == new.conv
           entry == [role |-> new.role, turn |-> new.turn]
<1>1. Told(messages', c) = Append(Told(messages, c), entry)
  BY Numbering, AppendPart
<1>2. ASSUME NEW d \in Thread, d # c PROVE Told(messages', d) = Told(messages, d)
  <2>1. Part(messages', d) = Part(messages, d)
    BY <1>2 DEF Part
  <2> QED
    BY <2>1 DEF Told, At
<1>3. history = [d \in Thread |-> Told(messages, d)]
      /\ history' = [d \in Thread |-> Told(messages', d)]
  BY DEF history
<1> HIDE DEF c, entry
<1>4. c \in Thread
  BY DEF c
<1>5. history' = [history EXCEPT ![c] = Append(@, entry)]
  BY <1>1, <1>2, <1>3, <1>4
<1> QED
  BY <1>5 DEF c, entry

(* What the mapping becomes when the active runs of one conversation change. *)
LEMMA OpenAt ==
  ASSUME NEW c \in Thread, \A d \in Thread \ {c} : ActiveRuns(d)' = ActiveRuns(d)
  PROVE  open' = [open EXCEPT ![c] = Question(ActiveRuns(c)')]
<1>1. open' = [d \in Thread |-> Question(ActiveRuns(d)')]
  BY DEF open
<1>2. open = [d \in Thread |-> Question(ActiveRuns(d))]
  BY DEF open
<1> QED
  BY <1>1, <1>2

LEMMA SubmissionAsks ==
  ASSUME ConversationInv, ConversationInv', NEW q \in Requests, CommitSubmission(q)
  PROVE  LET c == Conv(q) IN
         /\ c \in Thread
         /\ open[c] = NoRequest
         /\ \A d \in Thread : \A i \in DOMAIN history[d] : history[d][i].turn # q
         /\ history' = [history EXCEPT ![c] =
                             Append(@, [role |-> "user", turn |-> q])]
         /\ open' = [open EXCEPT ![c] = q]
<1>0. PICK c \in Thread : c = Conv(q)
  BY ThreadOf DEF ConversationInv, Threads, Thread
<1> DEFINE k == request[q].ordinal
           new == [conv |-> c, ordinal |-> k, role |-> "user", turn |-> q]
<1>1. /\ TypeOK /\ request[q] \in Submission /\ SubmissionSound(q)
      /\ request[q].phase = "numbered"
  BY ThreadOf DEF ConversationInv, RequestsSound, CommitSubmission
<1>2. run[q] = "none"
  BY <1>1 DEF SubmissionSound, Unborn
<1>3. /\ ActiveRuns(c) = {} /\ ~Taken(c, k)
      /\ messages' = messages \cup {new} /\ run' = [run EXCEPT ![q] = "queued"]
  BY <1>0 DEF CommitSubmission, OneActiveRunUnique, OrdinalUnique
<1>4. PICK p \in {"committed", "lost"} : request' = [request EXCEPT ![q].phase = p]
  BY DEF CommitSubmission
<1>5. k \in Nat \ {0} /\ \A j \in 1..k - 1 : Taken(c, j)
  BY <1>0, <1>1 DEF SubmissionSound, Submission
<1>6. PICK n \in Nat : Filled(c, n)
  BY DEF ConversationInv, RowsSound, NoGaps, Threads, Thread
<1>7. k = n + 1
  BY <1>1, <1>3, <1>5, <1>6, FillNext
<1>8. \A m \in messages : m.turn # q
  BY <1>2 DEF ConversationInv, TypeOK, RowsSound, RunsOfMessages, RepliesFit
<1>9. open[c] = NoRequest
  BY <1>1, <1>3, OpenQuestion
<1>10. ASSUME NEW d \in Thread, NEW i \in DOMAIN history[d]
       PROVE  history[d][i].turn # q
  <2>1. PICK j \in Nat : Filled(d, j)
    BY DEF ConversationInv, RowsSound, NoGaps, Threads, Thread
  <2>2. /\ Cardinality(Part(messages, d)) = j
        /\ \A h \in 1..j : At(messages, d, h) \in Part(messages, d)
    BY <2>1, Numbering, CountPart
  <2>3. i \in 1..j /\ history[d][i].turn = At(messages, d, i).turn
    BY <1>10, <2>2 DEF history, Told
  <2> QED
    BY <1>8, <2>2, <2>3 DEF Part
<1>11. history' = [history EXCEPT ![c] = Append(@, [role |-> "user", turn |-> q])]
  <2>1. new.conv = c /\ new.ordinal = n + 1 /\ new.role = "user" /\ new.turn = q
    BY <1>7
  <2> HIDE DEF new
  <2> QED
    BY <1>1, <1>3, <1>6, <2>1, StoredMessage
<1>12. \A x \in Requests : (Active(x) /\ Conv(x) = c => x = q) /\ Conv(x)' = Conv(x)
  <2>1. \A x \in Requests : ~(Active(x) /\ Conv(x) = c)
    BY <1>0, <1>3, OpenRuns
  <2>2. \A x \in Requests : request'[x].session = request[x].session
    BY <1>1, <1>4 DEF TypeOK
  <2> QED
    BY <2>1, <2>2 DEF Conv
<1>13. \A x \in Requests : Active(x)' <=> Active(x) \/ x = q
  BY <1>1, <1>3 DEF TypeOK, Active, ActiveStatus
<1>14. \A d, x : x \in ActiveRuns(d)' <=> x \in Requests /\ Active(x)' /\ Conv(x)' = d
  BY OpenRunsNext
<1>15. ActiveRuns(c)' = {q}
  BY <1>0, <1>12, <1>13, <1>14
<1>16. ASSUME NEW d \in Thread, d # c PROVE ActiveRuns(d)' = ActiveRuns(d)
  <2>1. \A x : x \in ActiveRuns(d) <=> x \in Requests /\ Active(x) /\ Conv(x) = d
    BY OpenRuns
  <2>2. Conv(q) # d
    BY <1>0, <1>16
  <2> QED
    BY <1>12, <1>13, <1>14, <2>1, <2>2
<1>17. open' = [open EXCEPT ![c] = q]
  <2>1. Question({q}) = q
    BY DEF Question
  <2>2. open' = [open EXCEPT ![c] = Question(ActiveRuns(c)')]
    BY <1>1, <1>16, OpenAt
  <2> QED
    BY <1>15, <2>1, <2>2
<1> QED
  BY <1>0, <1>9, <1>10, <1>11, <1>17
LEMMA ReplyAnswers ==
  ASSUME ConversationInv, ConversationInv', NEW q \in Requests, CommitReply(q)
  PROVE  LET c == Conv(q) IN
         /\ c \in Thread
         /\ open[c] = q
         /\ history' = [history EXCEPT ![c] =
                             Append(@, [role |-> "assistant", turn |-> q])]
         /\ open' = [open EXCEPT ![c] = NoRequest]
<1>0. PICK c \in Thread : c = Conv(q)
  BY ThreadOf DEF ConversationInv, Threads, Thread
<1> DEFINE k == request[q].ordinal
           new == [conv |-> c, ordinal |-> k, role |-> "assistant", turn |-> q]
<1>1. /\ TypeOK /\ run[q] = "running" /\ work[q] = "replying" /\ WorkSound(q)
  BY BornOf DEF ConversationInv, CommitReply, WorkSound
<1>2. /\ messages' = messages \cup {new} /\ run' = [run EXCEPT ![q] = "succeeded"]
      /\ UNCHANGED request
  BY <1>0 DEF CommitReply, submissions
<1>3. PICK n \in Nat : Filled(c, n)
  BY DEF ConversationInv, RowsSound, NoGaps, Threads, Thread
<1>4. PICK u \in messages : User(u) /\ u.turn = q /\ u.conv = c /\ u.ordinal = n
  BY <1>0, <1>1, <1>3, MessageOfActive DEF Active, ActiveStatus
<1>5. k = n + 1
  BY <1>1, <1>4 DEF WorkSound, ConversationInv, RowsSound, OneMessageEach, User
<1>6. q \in ActiveRuns(c) /\ \A x \in ActiveRuns(c) : x = q
  BY <1>0, <1>1, OpenRuns DEF Active, ActiveStatus
<1>7. open[c] = q
  BY <1>1, <1>6, OpenQuestion
<1>8. history' = [history EXCEPT ![c] = Append(@, [role |-> "assistant", turn |-> q])]
  <2>1. new.conv = c /\ new.ordinal = n + 1 /\ new.role = "assistant" /\ new.turn = q
    BY <1>5
  <2> HIDE DEF new
  <2> QED
    BY <1>1, <1>2, <1>3, <2>1, StoredMessage
<1>9. \A x \in Requests : (Active(x)' <=> Active(x) /\ x # q) /\ Conv(x)' = Conv(x)
  BY <1>1, <1>2 DEF TypeOK, Active, ActiveStatus, Conv
<1>10. \A d, x : x \in ActiveRuns(d)' <=> x \in Requests /\ Active(x)' /\ Conv(x)' = d
  BY OpenRunsNext
<1>11. ASSUME NEW d PROVE ActiveRuns(d)' = ActiveRuns(d) \ {q}
  <2>1. \A x : x \in ActiveRuns(d) <=> x \in Requests /\ Active(x) /\ Conv(x) = d
    BY OpenRuns
  <2> QED
    BY <1>9, <1>10, <2>1
<1>12. ActiveRuns(c)' = {} /\ \A d \in Thread \ {c} : ActiveRuns(d)' = ActiveRuns(d)
  <2>1. ActiveRuns(c)' = {}
    BY <1>6, <1>11
  <2>2. ASSUME NEW d \in Thread \ {c} PROVE ActiveRuns(d)' = ActiveRuns(d)
    <3>1. q \notin ActiveRuns(d)
      <4>1. \A x : x \in ActiveRuns(d) => Conv(x) = d
        BY OpenRuns
      <4> QED
        BY <1>0, <4>1
    <3> QED
      BY <1>11, <3>1
  <2> QED
    BY <2>1, <2>2
<1>13. open' = [open EXCEPT ![c] = NoRequest]
  <2>1. Question({}) = NoRequest
    BY DEF Question
  <2>2. open' = [open EXCEPT ![c] = Question(ActiveRuns(c)')]
    BY <1>1, <1>12, OpenAt
  <2> QED
    BY <1>12, <2>1, <2>2
<1> QED
  BY <1>0, <1>7, <1>8, <1>13

-----------------------------------------------------------------------------
(* The refinement                                                           *)

LEMMA MappedInit == Init => History!Init
<1> SUFFICES ASSUME Init PROVE History!Init
  OBVIOUS
<1>1. messages = {}
  BY DEF Init
<1>2. \A c : Part({}, c) = {} /\ ActiveRuns(c) = {}
  BY <1>1 DEF Part, ActiveRuns, UserMessages
<1>3. \A c : Told({}, c) = <<>>
  <2>1. Cardinality({}) = 0 /\ 1..0 = {}
    BY FS_EmptySet
  <2>2. \A c : Told({}, c) = [i \in {} |-> [role |-> At({}, c, i).role,
                                            turn |-> At({}, c, i).turn]]
    BY <1>2, <2>1 DEF Told
  <2> QED
    BY <2>2
<1>4. history = [c \in Thread |-> <<>>]
  BY <1>1, <1>3 DEF history
<1>5. Question({}) = NoRequest
  BY DEF Question
<1>6. open = [c \in Thread |-> NoRequest]
  BY <1>2, <1>5 DEF open
<1> QED
  BY <1>4, <1>6 DEF History!Init

LEMMA MappedNext ==
  ConversationInv /\ ConversationInv' /\ [Next]_vars => [History!Next]_(History!vars)
<1> SUFFICES ASSUME ConversationInv, ConversationInv', [Next]_vars PROVE History!Next
  OBVIOUS
<1>1. ASSUME NEW q \in Requests, CommitSubmission(q) PROVE History!Next
  <2>1. History!Ask(Conv(q), q)
    <3>1. q \notin UNION {History!Said(d) : d \in Thread}
      <4>1. \A d \in Thread : \A i \in DOMAIN history[d] : history[d][i].turn # q
        BY <1>1, SubmissionAsks
      <4>2. \A d \in Thread : q \notin History!Said(d)
        BY <4>1 DEF History!Said
      <4> QED
        BY <4>2
    <3> QED
      BY <1>1, <3>1, SubmissionAsks DEF History!Ask, History!Entry
  <2>2. Conv(q) \in Thread
    BY <1>1, SubmissionAsks
  <2> QED
    BY <2>1, <2>2 DEF History!Next
<1>2. ASSUME NEW q \in Requests, CommitReply(q) PROVE History!Next
  <2>1. History!AnswerOpen(Conv(q))
    BY <1>2, ReplyAnswers, ConversationConstants DEF History!AnswerOpen, History!Entry
  <2>2. Conv(q) \in Thread
    BY <1>2, ReplyAnswers
  <2> QED
    BY <2>1, <2>2 DEF History!Next
<1>3. ASSUME \A q \in Requests : ~CommitSubmission(q) /\ ~CommitReply(q) PROVE History!Next
  <2>1. PICK C \in SUBSET Thread :
          /\ open' = [c \in Thread |-> IF c \in C THEN NoRequest ELSE open[c]]
          /\ UNCHANGED history
    BY <1>3, OtherSteps, QuietStep
  <2>2. History!GiveUp(C)
    BY <2>1 DEF History!GiveUp
  <2> QED
    BY <2>2 DEF History!Next
<1> QED
  BY <1>1, <1>2, <1>3

(* Every behaviour of the conversation service, for any number of requests, *)
(* sessions, workers and restarts, is a behaviour of ConversationHistory.   *)
THEOREM HistoryIsImplemented == Spec => ImplementsHistory
<1> QED
  BY MappedInit, MappedNext, ConversationsSafe, PTL
     DEF Spec, ImplementsHistory, History!Spec
-----------------------------------------------------------------------------
(* What the liveness of the runs rests on *)

InBacklog(q) == \E i \in 1..Len(backlog) : backlog[i] = q

(* An unsettled run is in one place, from which one step takes it on: with  *)
(* its handler, in the backlog, or with a worker who has what it needs.     *)
Attended(q) ==
    \/ run[q] = "queued" /\ request[q].phase = "committed"
    \/ run[q] = "queued" /\ work[q] = "waiting" /\ InBacklog(q)
    \/ run[q] = "queued" /\ work[q] = "taken"
    \/ run[q] \in {"running", "cancel_requested"} /\ work[q] = "generating"
    \/ run[q] = "running" /\ work[q] = "replying" /\ ~Taken(Conv(q), request[q].ordinal)
RunsAttended == ready => \A q \in Requests : Active(q) => Attended(q)

(* The places that are still ahead of a run.                                *)
Ahead(q) ==
    CASE request[q].phase = "committed" -> 5
      [] request[q].phase # "committed" /\ work[q] = "waiting" -> 4
      [] request[q].phase # "committed" /\ work[q] = "taken" -> 3
      [] request[q].phase # "committed" /\ work[q] = "generating" -> 2
      [] request[q].phase # "committed" /\ work[q] = "replying" -> 1
      [] OTHER -> 0
Stays(q) == work'[q] = work[q] /\ request'[q].phase = request[q].phase
RunsAdvance ==
    \A q \in Requests : Active(q) /\ ready' => Stays(q) \/ Ahead(q)' < Ahead(q)

AttendInv ==
    /\ \A q \in Requests : work[q] = "waiting" => InBacklog(q)
    /\ \A q \in Requests : work[q] # "failing"
    /\ ready => \A q \in Requests :
         Active(q) => request[q].phase = "committed" \/ work[q] # "none"

LEMMA OneMoves ==
  ASSUME AttendInv, NEW q \in Requests, ready, ready' = ready,
         \A x \in Requests \ {q} :
            /\ run'[x] = run[x] /\ request'[x].phase = request[x].phase
            /\ work'[x] = work[x] /\ (InBacklog(x) => InBacklog(x)'),
         work'[q] = "waiting" => InBacklog(q)', work'[q] # "failing",
         Active(q)' => request'[q].phase = "committed" \/ work'[q] # "none",
         Active(q) => Stays(q) \/ Ahead(q)' < Ahead(q)
  PROVE  AttendInv' /\ RunsAdvance
<1>1. ASSUME NEW x \in Requests
      PROVE  /\ work'[x] = "waiting" => InBacklog(x)'
             /\ work'[x] # "failing"
             /\ Active(x)' => request'[x].phase = "committed" \/ work'[x] # "none"
             /\ Active(x) => Stays(x) \/ Ahead(x)' < Ahead(x)
  <2>1. CASE x = q
    BY <2>1
  <2>2. CASE x # q
    BY <2>2 DEF AttendInv, Stays, Active
  <2> QED
    BY <2>1, <2>2
<1> QED
  BY <1>1 DEF AttendInv, RunsAdvance

LEMMA NobodyMoves ==
  ASSUME AttendInv, UNCHANGED <<run, work, ready, backlog>>,
         \A x \in Requests : Active(x) => request'[x].phase = request[x].phase
  PROVE  AttendInv' /\ RunsAdvance
<1>1. \A x \in Requests : InBacklog(x)' <=> InBacklog(x)
  BY DEF InBacklog
<1>2. \A x \in Requests : Active(x)' <=> Active(x)
  BY DEF Active
<1> QED
  BY <1>1, <1>2 DEF AttendInv, RunsAdvance, Stays

LEMMA SubmitAttends ==
  ASSUME ConversationInv, AttendInv, ~StoreFails, NEW q \in Requests, Submit(q)
  PROVE  AttendInv' /\ RunsAdvance
<1>1. TypeOK /\ SubmissionSound(q) /\ WorkSound(q) /\ work[q] \in Work
  BY DEF ConversationInv, RequestsSound, TypeOK
<1>2. CASE \/ CheckSubmission(q) \/ NumberMessage(q) \/ SubmissionConflicts(q)
           \/ ResolveConflict(q) \/ SubmissionFails(q)
  <2>1. /\ UNCHANGED <<run, work, ready, backlog>> /\ Unborn(q)
        /\ \A x \in Requests \ {q} : request'[x] = request[x]
    BY <1>1, <1>2
       DEF CheckSubmission, NumberMessage, SubmissionConflicts, ResolveConflict, SubmissionFails,
           rows, executor, Unborn, TypeOK
  <2>2. ~Active(q)
    BY <1>1, <2>1 DEF SubmissionSound, Active, ActiveStatus
  <2> QED
    BY <2>1, <2>2, NobodyMoves
<1>3. CASE CommitSubmission(q)
  <2>1. /\ UNCHANGED <<work, ready, backlog>> /\ Unborn(q) /\ ready
        /\ run' = [run EXCEPT ![q] = "queued"]
        /\ request' = [request EXCEPT ![q].phase = "committed"]
    BY <1>3, UnderWay DEF CommitSubmission, executor, Unborn
  <2>2. ~Active(q) /\ work[q] = "none"
    BY <1>1, <2>1 DEF SubmissionSound, Active, ActiveStatus
  <2>3. request'[q].phase = "committed"
    BY <1>1, <2>1 DEF TypeOK
  <2>4. \A x \in Requests \ {q} : /\ run'[x] = run[x] /\ request'[x] = request[x]
                                  /\ work'[x] = work[x] /\ (InBacklog(x) => InBacklog(x)')
    BY <1>1, <2>1 DEF TypeOK, InBacklog
  <2>5. work'[q] = "none"
    BY <2>1, <2>2
  <2> QED
    BY <2>1, <2>2, <2>3, <2>4, <2>5, OneMoves
<1>4. CASE Enqueue(q)
  <2>1. /\ request[q].phase = "committed" /\ ready /\ ready' = ready /\ run' = run
        /\ request' = [request EXCEPT ![q].phase = "answered", ![q].answer = "accepted"]
        /\ backlog' = Append(backlog, q)
        /\ work' = [work EXCEPT ![q] = "waiting"]
    BY <1>4, UnderWay DEF Enqueue, rows
  <2>2. /\ request'[q].phase = "answered" /\ work'[q] = "waiting"
        /\ \A x \in Requests \ {q} : request'[x] = request[x] /\ work'[x] = work[x]
    BY <1>1, <2>1 DEF TypeOK
  <2>3. InBacklog(q)' /\ \A x \in Requests : InBacklog(x) => InBacklog(x)'
    <3>1. backlog \in Seq(Requests)
      BY <1>1 DEF TypeOK
    <3>2. /\ Len(backlog') = Len(backlog) + 1 /\ Len(backlog) \in Nat
          /\ backlog'[Len(backlog) + 1] = q
          /\ \A i \in 1..Len(backlog) : backlog'[i] = backlog[i]
      BY <2>1, <3>1
    <3>3. Len(backlog) + 1 \in 1..Len(backlog') /\ 1..Len(backlog) \subseteq 1..Len(backlog')
      BY <3>2
    <3> QED
      BY <3>2, <3>3 DEF InBacklog
  <2>4. Ahead(q) = 5 /\ Ahead(q)' = 4
    BY <2>1, <2>2 DEF Ahead
  <2>5. Ahead(q)' < Ahead(q)
    BY <2>4
  <2> QED
    BY <2>1, <2>2, <2>3, <2>5, OneMoves
<1> QED
  BY <1>2, <1>3, <1>4 DEF Submit

(* A worker takes the run from one place to the next, or settles it.        *)
Moves(q, w, r) ==
    /\ work' = [work EXCEPT ![q] = w] /\ run' = [run EXCEPT ![q] = r]
    /\ UNCHANGED <<backlog, ready>>
    /\ \A x \in Requests : request'[x].phase = request[x].phase
    /\ \/ w = "none" /\ work[q] \in {"taken", "generating", "replying"}
                      /\ r \notin ActiveStatus
       \/ w = "generating" /\ work[q] = "taken"
       \/ w = "replying" /\ work[q] = "generating"

LEMMA WorkerMoves ==
  ASSUME ConversationInv, AttendInv, NEW q \in Requests, NEW w \in Work, NEW r \in RunStatus,
         Moves(q, w, r)
  PROVE  AttendInv' /\ RunsAdvance
<1>1. TypeOK /\ WorkSound(q)
  BY DEF ConversationInv, RequestsSound
<1>2. ready /\ ready' = ready
  BY UnderWay DEF Moves
<1>3. request[q].phase = "answered" /\ request'[q].phase = "answered"
  BY <1>1 DEF WorkSound, Moves
<1>4. /\ work'[q] = w /\ run'[q] = r
      /\ \A x \in Requests \ {q} : work'[x] = work[x] /\ run'[x] = run[x]
  BY <1>1 DEF TypeOK, Moves
<1>5. \A x \in Requests : InBacklog(x) => InBacklog(x)'
  BY DEF InBacklog, Moves
<1>6. Active(q)' => work'[q] # "none"
  BY <1>4 DEF Active, Moves
<1>7. Ahead(q)' < Ahead(q)
  <2>1. Ahead(q) = IF work[q] = "taken" THEN 3 ELSE IF work[q] = "generating" THEN 2 ELSE 1
    BY <1>3 DEF Ahead, Moves
  <2>2. Ahead(q)' = IF w = "none" THEN 0 ELSE IF w = "generating" THEN 2 ELSE 1
    BY <1>3, <1>4 DEF Ahead, Moves
  <2> QED
    BY <2>1, <2>2 DEF Moves
<1>8. work'[q] \notin {"waiting", "failing"}
  BY <1>4 DEF Moves
<1>9. \A x \in Requests \ {q} : request'[x].phase = request[x].phase
  BY DEF Moves
<1> QED
  BY <1>2, <1>4, <1>5, <1>6, <1>7, <1>8, <1>9, OneMoves

LEMMA ExecuteAttends ==
  ASSUME ConversationInv, AttendInv, ~StoreFails, NEW q \in Requests, Execute(q)
  PROVE  AttendInv' /\ RunsAdvance
<1>1. TypeOK /\ WorkSound(q) /\ work[q] # "failing"
  BY DEF ConversationInv, RequestsSound, AttendInv
<1>2. run[q] \in RunStatus /\ run = [run EXCEPT ![q] = run[q]]
  BY <1>1 DEF TypeOK
<1>3. CASE StartRun(q)
  <2>1. Moves(q, "generating", "running")
    BY <1>3 DEF StartRun, Working, submissions, Moves
  <2> QED
    BY <2>1, WorkerMoves DEF Work, RunStatus, ActiveStatus, SettledStatus
<1>4. CASE SkipRun(q)
  <2>1. run[q] \notin ActiveStatus
    BY <1>1, <1>4 DEF SkipRun, Startable, WorkSound, ActiveStatus
  <2>2. Moves(q, "none", run[q])
    BY <1>2, <1>4, <2>1 DEF SkipRun, Working, rows, submissions, Moves
  <2> QED
    BY <1>2, <2>2, WorkerMoves DEF Work
<1>5. CASE NumberReply(q)
  <2>1. \A x \in Requests : request'[x].phase = request[x].phase
    BY <1>1, <1>5 DEF NumberReply, TypeOK
  <2>2. Moves(q, "replying", run[q])
    BY <1>2, <1>5, <2>1 DEF NumberReply, Working, rows, Moves
  <2> QED
    BY <1>2, <2>2, WorkerMoves DEF Work
<1>6. CASE CommitReply(q)
  <2>1. Moves(q, "none", "succeeded")
    BY <1>6 DEF CommitReply, Working, submissions, Moves, ActiveStatus
  <2> QED
    BY <2>1, WorkerMoves DEF Work, RunStatus, ActiveStatus, SettledStatus
<1>7. CASE FailRun(q) \/ FinishCancelled(q)
  <2>1. Moves(q, "none", "failed") \/ Moves(q, "none", "cancelled")
    BY <1>7 DEF FailRun, FinishCancelled, Working, submissions, Moves, ActiveStatus
  <2> QED
    BY <2>1, WorkerMoves DEF Work, RunStatus, ActiveStatus, SettledStatus
<1>8. ASSUME WorkerFails(q) PROVE FALSE
  BY <1>8, RepliesAreNext DEF WorkerFails, Taken
<1>9. CASE RecordFailure(q) \/ DropRun(q)
  BY <1>1, <1>9 DEF RecordFailure, DropRun
<1> QED
  BY <1>3, <1>4, <1>5, <1>6, <1>7, <1>8, <1>9 DEF Execute

LEMMA CancelAttends ==
  ASSUME ConversationInv, AttendInv, NEW q \in Requests, CancelQueued(q) \/ CancelRunning(q)
  PROVE  AttendInv' /\ RunsAdvance
<1>1. TypeOK
  BY DEF ConversationInv
<1>2. /\ UNCHANGED <<work, backlog>> /\ request' = request /\ ready /\ ready' = ready
      /\ \A x \in Requests \ {q} : run'[x] = run[x]
      /\ Active(q)
  BY <1>1 DEF CancelQueued, CancelRunning, executor, submissions, TypeOK, Active, ActiveStatus
<1>3. \A x \in Requests : InBacklog(x) <=> InBacklog(x)'
  BY <1>2 DEF InBacklog
<1>4. Stays(q)
  BY <1>2 DEF Stays
<1> QED
  BY <1>2, <1>3, <1>4, OneMoves DEF AttendInv

LEMMA TakeRunAttends ==
  ASSUME ConversationInv, AttendInv, TakeRun
  PROVE  AttendInv' /\ RunsAdvance
<1>1. TypeOK /\ backlog \in Seq(Requests) /\ backlog # <<>>
  BY DEF ConversationInv, TypeOK, TakeRun
<1>2. PICK q \in Requests : q = backlog[1] /\ q = Head(backlog)
  BY <1>1
<1>3. work[q] = "waiting" /\ WorkSound(q)
  BY <1>1, <1>2 DEF ConversationInv, BacklogWaits, RequestsSound
<1>4. /\ work' = [work EXCEPT ![q] = "taken"] /\ backlog' = Tail(backlog)
      /\ run' = run /\ request' = request /\ ready' = ready
  BY <1>2 DEF TakeRun, Working, rows, submissions
<1>5. ready /\ request[q].phase = "answered"
  BY <1>2, <1>3, UnderWay DEF WorkSound
<1>6. work'[q] = "taken" /\ \A x \in Requests \ {q} : work'[x] = work[x]
  BY <1>1, <1>2, <1>4 DEF TypeOK
<1>7. ASSUME NEW x \in Requests \ {q}, InBacklog(x) PROVE InBacklog(x)'
  <2>1. PICK i \in 1..Len(backlog) : backlog[i] = x
    BY <1>7 DEF InBacklog
  <2>2. i # 1
    BY <1>2, <2>1
  <2>3. i - 1 \in 1..Len(backlog') /\ backlog'[i - 1] = backlog[i]
    BY <1>1, <1>4, <2>2
  <2> QED
    BY <2>1, <2>3 DEF InBacklog
<1>8. Ahead(q) = 4 /\ Ahead(q)' = 3
  BY <1>3, <1>4, <1>5, <1>6 DEF Ahead
<1>9. Ahead(q)' < Ahead(q)
  BY <1>8
<1> QED
  BY <1>2, <1>4, <1>5, <1>6, <1>7, <1>9, OneMoves

LEMMA RestartAttends ==
  ASSUME ConversationInv, AttendInv, Restart \/ Reconcile
  PROVE  AttendInv' /\ RunsAdvance
<1>1. CASE Restart
  <2>1. ready' = FALSE /\ \A q \in Requests : work'[q] = "none"
    BY <1>1 DEF Restart
  <2> QED
    BY <2>1 DEF AttendInv, RunsAdvance
<1>2. CASE Reconcile
  <2>1. /\ UNCHANGED <<work, backlog>> /\ request' = request
        /\ \A q \in Requests : ~Active(q)'
    BY <1>2 DEF Reconcile, executor, submissions, Active, Interrupted, ActiveStatus
  <2>2. \A q \in Requests : InBacklog(q) <=> InBacklog(q)'
    BY <2>1 DEF InBacklog
  <2> QED
    BY <2>1, <2>2 DEF AttendInv, RunsAdvance, Stays
<1> QED
  BY <1>1, <1>2

LEMMA NextAttends ==
  ASSUME ConversationInv, AttendInv, ~StoreFails, [Next]_vars
  PROVE  AttendInv' /\ RunsAdvance
<1>1. ASSUME NEW s \in Sessions, CreateSession(s) \/ CloseSession(s)
      PROVE  AttendInv' /\ RunsAdvance
  BY <1>1, NobodyMoves DEF CreateSession, CloseSession, submissions, executor
<1>2. ASSUME NEW q \in Requests, NEW s \in Sessions, NEW k \in Keys, NEW b \in Bodies,
             Arrive(q, s, k, b)
      PROVE  AttendInv' /\ RunsAdvance
  <2>1. /\ UNCHANGED <<run, work, ready, backlog>> /\ request[q].phase = "idle"
        /\ \A x \in Requests \ {q} : request'[x] = request[x]
    BY <1>2 DEF Arrive, rows, executor, ConversationInv, TypeOK
  <2>2. ~Active(q)
    BY <2>1 DEF ConversationInv, RequestsSound, SubmissionSound, Unborn, Active, ActiveStatus
  <2> QED
    BY <2>1, <2>2, NobodyMoves
<1>3. CASE UNCHANGED vars
  BY <1>3, NobodyMoves DEF vars, rows, submissions, executor
<1> QED
  BY <1>1, <1>2, <1>3, SubmitAttends, CancelAttends, TakeRunAttends, ExecuteAttends,
     RestartAttends DEF Next

LEMMA AllAttended ==
  ASSUME ConversationInv, AttendInv
  PROVE  RunsAttended
<1> SUFFICES ASSUME ready, NEW q \in Requests, Active(q) PROVE Attended(q)
  BY DEF RunsAttended
<1>1. SubmissionSound(q) /\ WorkSound(q) /\ work[q] \in Work
  BY DEF ConversationInv, RequestsSound, TypeOK
<1>2. request[q].phase = "committed" \/ work[q] # "none"
  BY DEF AttendInv
<1>3. CASE request[q].phase = "committed"
  BY <1>1, <1>3 DEF SubmissionSound, Active, ActiveStatus, Attended
<1>4. CASE work[q] \in {"waiting", "taken"}
  BY <1>1, <1>4 DEF WorkSound, Active, ActiveStatus, Attended, AttendInv
<1>5. CASE work[q] = "generating"
  BY <1>1, <1>5 DEF WorkSound, Attended
<1>6. CASE work[q] = "replying"
  BY <1>1, <1>6, RepliesAreNext DEF WorkSound, Attended, Taken
<1> QED
  BY <1>1, <1>2, <1>3, <1>4, <1>5, <1>6 DEF Work, AttendInv

(* While transactions do not fail, nobody forgets a run: after the          *)
(* reconciliation every unsettled run is with its handler, in the backlog   *)
(* or with a worker that can go on, its reply not in anybody's way          *)
(* (submit_message, execute_run, reconciliation.py).                        *)
THEOREM RunsAreAttended == ~StoreFails /\ Spec => []RunsAttended
<1> SUFFICES ASSUME ~StoreFails PROVE Spec => []RunsAttended
  OBVIOUS
<1>1. Init => AttendInv
  BY DEF Init, AttendInv
<1>2. ConversationInv /\ AttendInv /\ [Next]_vars => AttendInv'
  BY NextAttends
<1>3. ConversationInv /\ AttendInv => RunsAttended
  BY AllAttended
<1> QED
  BY <1>1, <1>2, <1>3, ConversationsSafe, PTL DEF Spec

(* And each of these steps takes it further: a run passes each place once   *)
(* and never goes back, so five steps of its own settle it, whatever is     *)
(* cancelled and whatever the other runs do (service.py, executor.py).      *)
THEOREM RunsOnlyAdvance == ~StoreFails /\ Spec => [][RunsAdvance]_vars
<1> SUFFICES ASSUME ~StoreFails PROVE Spec => [][RunsAdvance]_vars
  OBVIOUS
<1>1. Init => AttendInv
  BY DEF Init, AttendInv
<1>2. ConversationInv /\ AttendInv /\ [Next]_vars => AttendInv' /\ RunsAdvance
  BY NextAttends
<1> QED
  BY <1>1, <1>2, ConversationsSafe, PTL DEF Spec

-----------------------------------------------------------------------------
(* The locks of the sessions *)

(* A session row is locked by the submission that is writing to it, which   *)
(* waits for nobody.                                                        *)
Holding(q) == request[q].phase \in {"checked", "numbered"}
LocksHeld ==
    \A s \in Sessions : \A q \in Requests :
        locked[s] = q <=> Holding(q) /\ request[q].session = s

LEMMA LocksKept ==
  ASSUME TypeOK, LocksHeld, NEW q \in Requests,
         \A x \in Requests \ {q} :
            request'[x].phase = request[x].phase /\ request'[x].session = request[x].session,
         \/ UNCHANGED locked /\ ~Holding(q) /\ ~Holding(q)'
         \/ /\ UNCHANGED locked /\ (Holding(q)' <=> Holding(q))
            /\ request'[q].session = request[q].session
         \/ /\ Free(request[q].session) /\ ~Holding(q) /\ Holding(q)'
            /\ request'[q].session = request[q].session
            /\ locked' = [locked EXCEPT ![request[q].session] = q]
         \/ /\ Holding(q) /\ ~Holding(q)' /\ Unlock(q)
  PROVE  LocksHeld'
<1>1. NoRequest \notin Requests
  BY ConversationConstants
<1>2. SUFFICES ASSUME NEW s \in Sessions, NEW x \in Requests
      PROVE  (locked[s] = x)' <=> Holding(x)' /\ request'[x].session = s
  BY DEF LocksHeld
<1>3. /\ locked[s] = x <=> Holding(x) /\ request[x].session = s
      /\ locked[s] = q <=> Holding(q) /\ request[q].session = s
  BY DEF LocksHeld
<1>4. CASE /\ UNCHANGED locked
           /\ \/ ~Holding(q) /\ ~Holding(q)'
              \/ /\ Holding(q)' <=> Holding(q)
                 /\ request'[q].session = request[q].session
  <2>1. x # q => (Holding(x)' <=> Holding(x)) /\ request'[x].session = request[x].session
    BY DEF Holding
  <2> QED
    BY <1>3, <1>4, <2>1
<1>5. CASE /\ Free(request[q].session) /\ ~Holding(q) /\ Holding(q)'
           /\ request'[q].session = request[q].session
           /\ locked' = [locked EXCEPT ![request[q].session] = q]
  <2>1. x # q => (Holding(x)' <=> Holding(x)) /\ request'[x].session = request[x].session
    BY DEF Holding
  <2>2. locked'[s] = IF s = request[q].session THEN q ELSE locked[s]
    BY <1>5 DEF TypeOK
  <2> QED
    BY <1>1, <1>3, <1>5, <2>1, <2>2 DEF Free
<1>6. CASE Holding(q) /\ ~Holding(q)' /\ Unlock(q)
  <2>1. x # q => (Holding(x)' <=> Holding(x)) /\ request'[x].session = request[x].session
    BY DEF Holding
  <2>2. locked'[s] = IF s = request[q].session THEN NoRequest ELSE locked[s]
    BY <1>6 DEF TypeOK, Unlock
  <2>3. request[q].session \in Sessions
    BY DEF TypeOK
  <2>4. s = request[q].session => locked[s] = q
    BY <1>3, <1>6
  <2> QED
    BY <1>1, <1>3, <1>6, <2>1, <2>2, <2>4
<1> QED
  BY <1>4, <1>5, <1>6

LEMMA NextLocks ==
  ASSUME TypeOK, LocksHeld, [Next]_vars
  PROVE  LocksHeld'
<1>1. ASSUME NEW q \in Requests, Submit(q) PROVE LocksHeld'
  <2>1. \A x \in Requests \ {q} : request'[x] = request[x]
    BY <1>1
       DEF Submit, CheckSubmission, NumberMessage, CommitSubmission, SubmissionConflicts,
           ResolveConflict, SubmissionFails, Enqueue, TypeOK
  <2>2. CASE CheckSubmission(q)
    <3>1. /\ Free(request[q].session) /\ ~Holding(q)
          /\ request'[q].session = request[q].session
          /\ \/ UNCHANGED locked /\ ~Holding(q)'
             \/ Holding(q)' /\ locked' = [locked EXCEPT ![request[q].session] = q]
      BY <2>2 DEF CheckSubmission, Holding, TypeOK
    <3> QED
      BY <2>1, <3>1, LocksKept
  <2>3. CASE NumberMessage(q) \/ ResolveConflict(q) \/ Enqueue(q)
    <3>1. /\ UNCHANGED locked /\ request'[q].session = request[q].session
          /\ Holding(q)' <=> Holding(q)
      BY <2>3 DEF NumberMessage, ResolveConflict, Enqueue, Holding, TypeOK
    <3> QED
      BY <2>1, <3>1, LocksKept
  <2>4. CASE CommitSubmission(q) \/ SubmissionConflicts(q) \/ SubmissionFails(q)
    <3>1. Holding(q) /\ ~Holding(q)' /\ Unlock(q)
      BY <2>4 DEF CommitSubmission, SubmissionConflicts, SubmissionFails, Holding, TypeOK
    <3> QED
      BY <2>1, <3>1, LocksKept
  <2> QED
    BY <1>1, <2>2, <2>3, <2>4 DEF Submit
<1>2. ASSUME NEW q \in Requests, NEW s \in Sessions, NEW k \in Keys, NEW b \in Bodies,
             Arrive(q, s, k, b)
      PROVE  LocksHeld'
  <2>1. /\ UNCHANGED locked /\ ~Holding(q) /\ ~Holding(q)'
        /\ \A x \in Requests \ {q} : request'[x] = request[x]
    BY <1>2 DEF Arrive, Holding, TypeOK
  <2> QED
    BY <2>1, LocksKept
<1>3. ASSUME NEW q \in Requests, NumberReply(q) PROVE LocksHeld'
  <2>1. /\ UNCHANGED locked /\ request'[q].session = request[q].session
        /\ Holding(q)' <=> Holding(q)
        /\ \A x \in Requests \ {q} : request'[x] = request[x]
    BY <1>3 DEF NumberReply, Holding, TypeOK
  <2> QED
    BY <2>1, LocksKept
<1>4. CASE Restart
  <2>1. /\ \A s \in Sessions : locked'[s] = NoRequest
        /\ \A q \in Requests : ~Holding(q)'
    BY <1>4 DEF Restart, Holding, TypeOK, Phase
  <2> QED
    BY <2>1, ConversationConstants DEF LocksHeld
<1>5. CASE UNCHANGED <<request, locked>>
  BY <1>5 DEF LocksHeld, Holding
<1>6. ASSUME NEW q \in Requests, Execute(q), ~NumberReply(q) PROVE UNCHANGED <<request, locked>>
  BY <1>6 DEF Execute, StartRun, SkipRun, CommitReply, FailRun, FinishCancelled, WorkerFails,
     RecordFailure, DropRun, submissions
<1> QED
  BY <1>1, <1>2, <1>3, <1>4, <1>5, <1>6
     DEF Next, CreateSession, CloseSession, CancelQueued, CancelRunning, TakeRun, Reconcile,
         vars, submissions

(* The row of a session is locked by the one submission that is writing to  *)
(* it and by nobody else, also across failed transactions and restarts:     *)
(* two submissions never write through one session at a time, and whoever   *)
(* waits for the row waits for a submission that itself waits for nobody    *)
(* (session_locked of repository.py selects it for update).                 *)
THEOREM LocksHaveHolders == Spec => []LocksHeld
<1>1. Init => LocksHeld
  BY ConversationConstants DEF Init, LocksHeld, Holding
<1>2. ConversationInv /\ LocksHeld /\ [Next]_vars => LocksHeld'
  BY NextLocks DEF ConversationInv
<1> QED
  BY <1>1, <1>2, ConversationsSafe, PTL DEF Spec
=============================================================================
