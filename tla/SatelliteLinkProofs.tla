------------------------- MODULE SatelliteLinkProofs -------------------------
(***************************************************************************)
(* The channel for every set of commands and sockets and every bound:      *)
(* sessions (SessionInv), the journal (JournalSafe), types (LinkTyped),    *)
(* verdicts (TruthInv) and ends of workflows (EndInv).                     *)
(***************************************************************************)
EXTENDS SatelliteLink, FiniteSetTheorems, SequenceTheorems, TLAPS

(* The shape of the Core's tables, and that none but a serving or closing   *)
(* handler is registered.                                                   *)
SessionShape ==
    /\ handler \in [Sockets -> {"done", "hello", "serving", "closing"}]
    /\ registered \in Sockets \cup {NoSocket}
    /\ pending \in [Commands -> Sockets \cup {NoSocket}]

SessionInv == SessionShape /\ SessionServes

LEMMA SessionInit == Init => SessionInv
BY DEF Init, SessionInv, SessionShape, SessionServes

(* Steps that touch the Core's tables.                                      *)
LEMMA DialKeeps == ASSUME SessionInv, NEW s \in Sockets, Dial(s) PROVE SessionInv'
BY DEF SessionInv, SessionShape, SessionServes, Dial

LEMMA RegisterKeeps == ASSUME SessionInv, NEW s \in Sockets, Register(s) PROVE SessionInv'
BY LinkAssumption
   DEF SessionInv, SessionShape, SessionServes, Register, LinkAssumption

LEMMA ClosingKeeps ==
  ASSUME SessionInv, NEW s \in Sockets, Closing(s), UNCHANGED <<registered, pending>>
  PROVE  SessionInv'
BY DEF SessionInv, SessionShape, SessionServes, Closing

(* The commands that waited on the session are exactly those released with  *)
(* it, and a handler that is not registered releases nothing.               *)
LEMMA UnregisterKeeps == ASSUME SessionInv, NEW s \in Sockets, Unregister(s) PROVE SessionInv'
<1>1. SessionShape'
  BY DEF SessionInv, SessionShape, Unregister
<1>2. CASE registered = s
  <2>1. registered' = NoSocket
    BY <1>2 DEF Unregister, Unregisters
  <2>2. ASSUME NEW c \in Commands PROVE pending'[c] = NoSocket
    BY <1>2 DEF SessionInv, SessionServes, Unregister, Orphans, Unregisters
  <2>3. ASSUME NEW t \in Sockets PROVE handler'[t] # "serving"
    BY <1>2 DEF SessionInv, SessionShape, SessionServes, Unregister
  <2> QED BY <1>1, <2>1, <2>2, <2>3 DEF SessionInv, SessionServes
<1>3. CASE registered # s
  <2>1. registered' = registered
    BY <1>3 DEF Unregister, Unregisters
  <2>2. ASSUME NEW c \in Commands PROVE pending'[c] = pending[c]
    BY <1>3 DEF Unregister, Orphans, Unregisters
  <2>3. ASSUME NEW t \in Sockets, handler'[t] = "serving" PROVE handler[t] = "serving"
    BY <2>3 DEF SessionInv, SessionShape, Unregister
  <2> QED BY <1>1, <2>1, <2>2, <2>3 DEF SessionInv, SessionServes
<1> QED BY <1>2, <1>3

LEMMA ConcludeKeeps ==
  ASSUME SessionInv, NEW c, NEW v, Conclude(c, v), UNCHANGED <<handler, registered>>
  PROVE  SessionInv'
BY DEF SessionInv, SessionShape, SessionServes, Conclude

LEMMA DispatchKeeps == ASSUME SessionInv, NEW c \in Commands, Dispatch(c) PROVE SessionInv'
BY DEF SessionInv, SessionShape, SessionServes, Dispatch, Requested

LEMMA ObservationKeeps ==
  ASSUME SessionInv, NEW s \in Sockets, ReceiveObservation(s)
  PROVE  SessionInv'
<1> DEFINE o == Head(up[s])
<1>1. UNCHANGED registered
  BY DEF ReceiveObservation
<1>2. CASE pending[o.command] = s
  BY <1>1, <1>2, ConcludeKeeps DEF ReceiveObservation
<1>3. CASE pending[o.command] # s
  BY <1>1, <1>3, ClosingKeeps DEF ReceiveObservation
<1> QED BY <1>2, <1>3

LEMMA SessionStutter == ASSUME SessionInv, UNCHANGED core PROVE SessionInv'
BY DEF SessionInv, SessionShape, SessionServes, core

LEMMA SessionStep == SessionInv /\ [Next]_vars => SessionInv'
<1> SUFFICES ASSUME SessionInv, [Next]_vars PROVE SessionInv'
  OBVIOUS
<1>1. ASSUME NEW s \in Sockets, Session(s) PROVE SessionInv'
  <2>1. CASE Dial(s)
    BY <2>1, DialKeeps
  <2>2. CASE Register(s)
    BY <2>2, RegisterKeeps
  <2>3. CASE RefuseDuplicate(s)
    BY <2>3, ClosingKeeps DEF RefuseDuplicate
  <2>4. CASE PeerLost(s)
    BY <2>4, ClosingKeeps DEF PeerLost
  <2>5. CASE Unregister(s)
    BY <2>5, UnregisterKeeps
  <2> QED BY <1>1, <2>1, <2>2, <2>3, <2>4, <2>5 DEF Session
<1>2. ASSUME NEW s \in Sockets, RefuseCredential(s) PROVE SessionInv'
  BY <1>2, ClosingKeeps DEF RefuseCredential
<1>3. ASSUME NEW s \in Sockets, ReceiveObservation(s) PROVE SessionInv'
  BY <1>3, ObservationKeeps
<1>4. ASSUME NEW s \in Sockets, Break(s) PROVE SessionInv'
  BY <1>4, SessionStutter DEF Break
<1>5. ASSUME NEW c \in Commands, Dispatch(c) PROVE SessionInv'
  BY <1>5, DispatchKeeps
<1>6. ASSUME NEW c \in Commands, DispatchOffline(c) \/ DispatchRaises(c) \/ Timeout(c)
      PROVE  SessionInv'
  BY <1>6, ConcludeKeeps DEF DispatchOffline, DispatchRaises, Timeout, Requested
<1>7. ASSUME NEW c \in Commands, RequestCancel(c) PROVE SessionInv'
  BY <1>7, SessionStutter DEF RequestCancel
<1>8. ASSUME NEW c \in Commands, NEW n \in Delivery, Handle(c, n) PROVE SessionInv'
  <2>1. UNCHANGED core
    BY <1>8 DEF Handle, AnswerKnown, Begin, Launch, Decline, Report, Finish
  <2> QED BY <2>1, SessionStutter
<1>9. CASE Disconnect \/ ReceiveCommand \/ ReceiveCancel \/ CrashAgent
  BY <1>9, SessionStutter DEF Disconnect, ReceiveCommand, ReceiveCancel, CrashAgent
<1>10. CASE UNCHANGED vars
  BY <1>10, SessionStutter DEF vars
<1> QED
  BY <1>1, <1>2, <1>3, <1>4, <1>5, <1>6, <1>7, <1>8, <1>9, <1>10 DEF Next

(* The one serving handler is the registered session and whoever waits      *)
(* waits on it, for every number of commands, sockets and faults            *)
(* (SatelliteConnectionManager.register, unregister, dispatch).             *)
THEOREM SessionsServe == Spec => []SessionServes
<1>1. SessionInv => SessionServes
  BY DEF SessionInv
<1> QED BY <1>1, SessionInit, SessionStep, PTL DEF Spec

-----------------------------------------------------------------------------
(* The journal.  It never holds a command twice, so as long as it has room  *)
(* for every workflow _trim drops nothing.                                  *)

Distinct(q) == \A i, j \in 1..Len(q) : q[i] = q[j] => i = j
Roomy == Cardinality(Consequential) <= MaxRecords

Begun(c) == {n \in Delivery : task[c][n].phase = "begun"}

(* A workflow is in the journal before its process can exist; its process   *)
(* exists or is about to be started by one delivery, not both.              *)
LaunchedOnce(c) ==
    /\ started[c] # 0 \/ Begun(c) # {} => Contains(durable, c)
    /\ started[c] <= 1
    /\ \A n \in Begun(c) : started[c] = 0 /\ Begun(c) = {n}

JournalShape ==
    /\ durable \in Seq(Consequential) /\ Distinct(durable)
    /\ started \in [Commands -> Nat]
    /\ task \in [Commands -> [Delivery -> Task]]
    /\ link \in Sockets \cup {NoSocket}

JournalSafe == JournalShape /\ \A c \in Consequential : LaunchedOnce(c)
JournalInv == Roomy => JournalSafe

LEMMA DistinctIsShort ==
  ASSUME NEW q \in Seq(Consequential), Distinct(q)
  PROVE  Len(q) <= Cardinality(Consequential)
<1>1. IsFiniteSet(Consequential) /\ Cardinality(Consequential) \in Nat
  BY LinkAssumption, FS_Subset, FS_CardinalityType DEF LinkAssumption
<1>2. /\ Len(q) \in Nat
      /\ q \in [1..Len(q) -> Consequential]
  BY LenProperties
<1>3. IsFiniteSet(1..Len(q)) /\ Cardinality(1..Len(q)) = Len(q)
  BY <1>2, FS_Interval
<1>4. ASSUME Cardinality(Consequential) < Len(q) PROVE FALSE
  <2>1. \E i, j \in 1..Len(q) : i # j /\ q[i] = q[j]
    BY <1>1, <1>2, <1>3, <1>4, FS_PigeonHole
  <2> QED BY <2>1 DEF Distinct
<1> QED BY <1>1, <1>2, <1>4

LEMMA ShortIsKept ==
  ASSUME NEW q \in Seq(Consequential), Len(q) <= MaxRecords
  PROVE  Newest(q) = q
<1>1. MaxRecords \in Nat /\ Len(q) \in Nat
  BY LinkAssumption, LenProperties DEF LinkAssumption
<1>2. ~(Len(q) > MaxRecords)
  BY <1>1
<1>3. Newest(q) = SubSeq(q, 1, Len(q))
  BY <1>2, Zenon DEF Newest
<1>4. SubSeq(q, 1, Len(q)) = q
  BY SubSeqFull
<1> QED BY <1>3, <1>4, Zenon

LEMMA RecordedIsKept ==
  ASSUME Roomy, durable \in Seq(Consequential), Distinct(durable), NEW c \in Consequential
  PROVE  /\ Newest(Recorded(c)) \in Seq(Consequential)
         /\ Distinct(Newest(Recorded(c)))
         /\ \A x \in Consequential :
               Contains(Newest(Recorded(c)), x) <=> Contains(durable, x) \/ x = c
<1> DEFINE q == Recorded(c)
<1>1. /\ q \in Seq(Consequential)
      /\ Distinct(q)
      /\ \A x \in Consequential : Contains(q, x) <=> Contains(durable, x) \/ x = c
  <2>1. CASE Contains(durable, c)
    BY <2>1 DEF Recorded
  <2>2. CASE ~Contains(durable, c)
    <3>1. /\ q = Append(durable, c)
          /\ Len(durable) \in Nat
          /\ Len(q) = Len(durable) + 1
          /\ \A i \in 1..Len(durable) : q[i] = durable[i] /\ durable[i] # c
          /\ q[Len(q)] = c
      BY <2>2 DEF Recorded, Contains
    <3>2. q \in Seq(Consequential)
      BY <3>1
    <3>3. Distinct(q)
      BY <3>1 DEF Distinct
    <3>4. \A x \in Consequential : Contains(q, x) <=> Contains(durable, x) \/ x = c
      BY <3>1 DEF Contains
    <3> QED BY <3>2, <3>3, <3>4
  <2> QED BY <2>1, <2>2
<1>2. Len(q) <= MaxRecords /\ Len(q) \in Nat
  <2>1. Len(q) <= Cardinality(Consequential) /\ Len(q) \in Nat
    BY <1>1, DistinctIsShort
  <2>2. Cardinality(Consequential) \in Nat /\ MaxRecords \in Nat
    BY LinkAssumption, FS_Subset, FS_CardinalityType DEF LinkAssumption
  <2> QED BY <2>1, <2>2 DEF Roomy
<1>3. Newest(q) = q
  <2> HIDE DEF q
  <2> QED BY <1>1, <1>2, ShortIsKept
<1> QED BY <1>1, <1>3

(* Whatever leaves journal and starts alone and begins nothing is harmless. *)
LEMMA JournalStutter ==
  ASSUME JournalSafe, UNCHANGED <<durable, started>>,
         task' \in [Commands -> [Delivery -> Task]],
         link' \in Sockets \cup {NoSocket},
         \A c \in Consequential : Begun(c)' \subseteq Begun(c)
  PROVE  JournalSafe'
<1>1. JournalShape'
  BY DEF JournalSafe, JournalShape
<1>2. ASSUME NEW c \in Consequential PROVE LaunchedOnce(c)'
  <2>1. LaunchedOnce(c) /\ Begun(c)' \subseteq Begun(c)
    BY DEF JournalSafe
  <2>2. \A n \in Begun(c)' : started'[c] = 0 /\ Begun(c)' = {n}
    BY <2>1 DEF LaunchedOnce
  <2> QED BY <2>1, <2>2 DEF LaunchedOnce
<1> QED BY <1>1, <1>2 DEF JournalSafe

(* SetTask writes one delivery of one command.                              *)
LEMMA SetTaskRow ==
  ASSUME task \in [Commands -> [Delivery -> Task]],
         NEW c \in Commands, NEW n \in Delivery, NEW p, NEW r, SetTask(c, n, p, r),
         p \in {"none", "waiting", "begun", "running", "reporting"},
         r \in Result \cup {"none"}
  PROVE  /\ task' \in [Commands -> [Delivery -> Task]]
         /\ task'[c][n].phase = p /\ task'[c][n].result = r
         /\ task'[c][n].socket = task[c][n].socket
         /\ \A d \in Commands : \A m \in Delivery :
               d # c \/ m # n => task'[d][m] = task[d][m]
<1>1. PICK t \in Task : t = task[c][n]
  OBVIOUS
<1>2. PICK new : new = [t EXCEPT !.phase = p, !.result = r]
  OBVIOUS
<1>3. new \in Task /\ new.phase = p /\ new.result = r /\ new.socket = t.socket
  BY <1>2 DEF Task
<1>4. task' = [task EXCEPT ![c] = [task[c] EXCEPT ![n] = new]]
  BY <1>1, <1>2 DEF SetTask, Task
<1> QED
  BY <1>1, <1>3, <1>4

LEMMA SetTaskWrites ==
  ASSUME task \in [Commands -> [Delivery -> Task]],
         NEW c \in Commands, NEW n \in Delivery, NEW p, NEW r, SetTask(c, n, p, r),
         p \in {"none", "waiting", "begun", "running", "reporting"},
         r \in Result \cup {"none"}
  PROVE  /\ task' \in [Commands -> [Delivery -> Task]]
         /\ \A d \in Commands : d # c => Begun(d)' = Begun(d)
         /\ Begun(c)' = IF p = "begun" THEN Begun(c) \cup {n} ELSE Begun(c) \ {n}
<1>1. /\ task' \in [Commands -> [Delivery -> Task]]
      /\ task'[c][n].phase = p
      /\ \A d \in Commands : \A m \in Delivery : d # c \/ m # n => task'[d][m] = task[d][m]
  BY SetTaskRow
<1>2. \A d \in Commands : d # c => Begun(d)' = Begun(d)
  BY <1>1 DEF Begun
<1>3. Begun(c)' = IF p = "begun" THEN Begun(c) \cup {n} ELSE Begun(c) \ {n}
  BY <1>1 DEF Begun
<1> QED BY <1>1, <1>2, <1>3

(* A step that records c, as BeginJournal and FinishJournal do.             *)
LEMMA JournalRecords ==
  ASSUME Roomy, JournalSafe, NEW c \in Consequential, durable' = Newest(Recorded(c))
  PROVE  /\ durable' \in Seq(Consequential) /\ Distinct(durable')
         /\ Contains(durable', c)
         /\ \A d \in Consequential : Contains(durable, d) => Contains(durable', d)
BY RecordedIsKept DEF JournalSafe, JournalShape

(* The record of a workflow is what tells Begin that nothing of it exists.  *)
LEMMA BeginKeeps ==
  ASSUME Roomy, JournalSafe, NEW c \in Commands, NEW n \in Delivery, Begin(c, n)
  PROVE  JournalSafe'
<1>1. /\ task' \in [Commands -> [Delivery -> Task]]
      /\ \A d \in Commands : d # c => Begun(d)' = Begun(d)
      /\ Begun(c)' = Begun(c) \cup {n}
  BY SetTaskWrites DEF Begin, JournalSafe, JournalShape
<1>2. Consequential \subseteq Commands
  BY LinkAssumption DEF LinkAssumption
<1>3. CASE c \notin Consequential
  <2>1. UNCHANGED <<durable, started>> /\ link' \in Sockets \cup {NoSocket}
    BY <1>3 DEF Begin, BeginJournal, JournalSafe, JournalShape
  <2>2. \A d \in Consequential : Begun(d)' \subseteq Begun(d)
    BY <1>1, <1>2, <1>3
  <2> QED BY <1>1, <2>1, <2>2, JournalStutter
<1>4. CASE c \in Consequential
  <2>1. durable' = Newest(Recorded(c)) /\ UNCHANGED <<started, link>>
    BY <1>4 DEF Begin, BeginJournal
  <2>2. ~Contains(durable, c)
    BY <1>4 DEF Begin, Known, Journaled
  <2>3. started[c] = 0 /\ Begun(c) = {}
    BY <1>4, <2>2 DEF JournalSafe, LaunchedOnce
  <2>4. /\ durable' \in Seq(Consequential) /\ Distinct(durable')
        /\ Contains(durable', c)
        /\ \A d \in Consequential : Contains(durable, d) => Contains(durable', d)
    BY <1>4, <2>1, JournalRecords
  <2>5. JournalShape'
    BY <1>1, <2>1, <2>4 DEF JournalSafe, JournalShape
  <2>6. LaunchedOnce(c)'
    <3>1. started'[c] = 0 /\ Begun(c)' = {n}
      BY <1>1, <2>1, <2>3
    <3> QED BY <2>4, <3>1 DEF LaunchedOnce
  <2>7. ASSUME NEW d \in Consequential, d # c PROVE LaunchedOnce(d)'
    <3>1. Begun(d)' = Begun(d) /\ started'[d] = started[d] /\ LaunchedOnce(d)
      BY <1>1, <1>2, <2>1, <2>7 DEF JournalSafe
    <3> QED BY <2>4, <2>7, <3>1 DEF LaunchedOnce
  <2> QED BY <2>5, <2>6, <2>7 DEF JournalSafe
<1> QED BY <1>3, <1>4

(* The one delivery whose record is begun becomes the one process.          *)
LEMMA LaunchKeeps ==
  ASSUME JournalSafe, NEW c \in Commands, NEW n \in Delivery, Launch(c, n)
  PROVE  JournalSafe'
<1>1. /\ task' \in [Commands -> [Delivery -> Task]]
      /\ \A d \in Commands : d # c => Begun(d)' = Begun(d)
      /\ Begun(c)' = Begun(c) \ {n}
  <2>1. /\ task \in [Commands -> [Delivery -> Task]]
        /\ SetTask(c, n, "running", "none")
    BY DEF Launch, JournalSafe, JournalShape
  <2>2. "running" # "begun" /\ "none" \in Result \cup {"none"}
    OBVIOUS
  <2> QED BY <2>1, <2>2, SetTaskWrites
<1>2. Consequential \subseteq Commands
  BY LinkAssumption DEF LinkAssumption
<1>3. /\ UNCHANGED <<durable, link>>
      /\ started \in [Commands -> Nat]
      /\ started' = [started EXCEPT ![c] = started[c] + 1]
      /\ n \in Begun(c)
  BY DEF Launch, Begun, JournalSafe, JournalShape
<1>4. JournalShape'
  BY <1>1, <1>3 DEF JournalSafe, JournalShape
<1>5. ASSUME NEW d \in Consequential PROVE LaunchedOnce(d)'
  <2>1. LaunchedOnce(d) /\ d \in Commands
    BY <1>2 DEF JournalSafe
  <2>2. CASE d = c
    <3>1. started[c] = 0 /\ Begun(c) = {n} /\ Contains(durable, c)
      BY <1>3, <2>1, <2>2 DEF LaunchedOnce
    <3>2. started'[c] = 1 /\ Begun(c)' = {} /\ Contains(durable', c)
      BY <1>1, <1>3, <3>1
    <3> QED BY <2>2, <3>2 DEF LaunchedOnce
  <2>3. CASE d # c
    <3>1. started'[d] = started[d] /\ Begun(d)' = Begun(d)
      BY <1>1, <1>3, <2>1, <2>3
    <3> QED BY <1>3, <2>1, <3>1 DEF LaunchedOnce
  <2> QED BY <2>2, <2>3
<1> QED BY <1>4, <1>5 DEF JournalSafe

(* Decline and Finish record the end of a delivery that leaves "begun".     *)
LEMMA EndKeeps ==
  ASSUME Roomy, JournalSafe, NEW c \in Commands, NEW n \in Delivery, NEW r \in Result,
         SetTask(c, n, "reporting", r), FinishJournal(c, r), UNCHANGED <<started, link>>
  PROVE  JournalSafe'
<1>1. /\ task' \in [Commands -> [Delivery -> Task]]
      /\ \A d \in Commands : d # c => Begun(d)' = Begun(d)
      /\ Begun(c)' = Begun(c) \ {n}
  <2>1. /\ task \in [Commands -> [Delivery -> Task]]
        /\ "reporting" # "begun" /\ r \in Result \cup {"none"}
    BY DEF JournalSafe, JournalShape
  <2> QED BY <2>1, SetTaskWrites
<1>2. \A d \in Consequential : d \in Commands /\ Begun(d)' \subseteq Begun(d)
  BY <1>1, LinkAssumption DEF LinkAssumption
<1>3. CASE c \notin Consequential
  <2>1. UNCHANGED <<durable, started>> /\ link' \in Sockets \cup {NoSocket}
    BY <1>3 DEF FinishJournal, JournalSafe, JournalShape
  <2> QED BY <1>1, <1>2, <2>1, JournalStutter
<1>4. CASE c \in Consequential
  <2>1. /\ durable' \in Seq(Consequential) /\ Distinct(durable')
        /\ \A d \in Consequential : Contains(durable, d) => Contains(durable', d)
    BY <1>4, JournalRecords DEF FinishJournal
  <2>2. JournalShape'
    BY <1>1, <2>1 DEF JournalSafe, JournalShape
  <2>3. ASSUME NEW d \in Consequential PROVE LaunchedOnce(d)'
    <3>1. LaunchedOnce(d) /\ Begun(d)' \subseteq Begun(d)
      BY <1>2 DEF JournalSafe
    <3>2. \A m \in Begun(d)' : started'[d] = 0 /\ Begun(d)' = {m}
      BY <3>1 DEF LaunchedOnce
    <3> QED BY <2>1, <3>1, <3>2 DEF LaunchedOnce
  <2> QED BY <2>2, <2>3 DEF JournalSafe
<1> QED BY <1>3, <1>4

(* What the agent does beside the journal begins nothing.                   *)
LEMMA AnswerKeeps ==
  ASSUME JournalSafe, NEW c \in Commands, NEW n \in Delivery, AnswerKnown(c, n)
  PROVE  JournalSafe'
<1>1. PICK r \in Known(c) : SetTask(c, n, "reporting", r)
  BY DEF AnswerKnown
<1>2. r \in Result \cup {"none"}
  BY DEF Known, Cached, Result
<1>3. /\ task \in [Commands -> [Delivery -> Task]]
      /\ link' \in Sockets \cup {NoSocket}
      /\ UNCHANGED <<durable, started>>
  BY DEF AnswerKnown, JournalSafe, JournalShape
<1>4. /\ task' \in [Commands -> [Delivery -> Task]]
      /\ \A d \in Commands : d # c => Begun(d)' = Begun(d)
      /\ Begun(c)' = Begun(c) \ {n}
  <2>1. "reporting" # "begun"
    OBVIOUS
  <2> QED BY <1>1, <1>2, <1>3, <2>1, SetTaskWrites
<1>5. \A d \in Consequential : Begun(d)' \subseteq Begun(d)
  BY <1>4, LinkAssumption DEF LinkAssumption
<1> QED BY <1>3, <1>4, <1>5, JournalStutter

LEMMA ReportKeeps ==
  ASSUME JournalSafe, NEW c \in Commands, NEW n \in Delivery, Report(c, n)
  PROVE  JournalSafe'
<1>1. /\ task \in [Commands -> [Delivery -> Task]]
      /\ task' = [task EXCEPT ![c][n] = NoTask]
      /\ link' \in Sockets \cup {NoSocket}
      /\ UNCHANGED <<durable, started>>
  BY DEF Report, JournalSafe, JournalShape
<1>2. NoTask \in Task /\ NoTask.phase # "begun"
  BY DEF NoTask, Task
<1> HIDE DEF NoTask
<1>3. task' \in [Commands -> [Delivery -> Task]]
  BY <1>1, <1>2
<1>4. \A d \in Commands : Begun(d)' \subseteq Begun(d)
  BY <1>1, <1>2 DEF Begun
<1> QED BY <1>1, <1>3, <1>4, JournalStutter, LinkAssumption DEF LinkAssumption

LEMMA ReceiveKeeps == ASSUME JournalSafe, ReceiveCommand PROVE JournalSafe'
<1> DEFINE f == Head(down[link])
           new == [phase |-> "waiting", socket |-> link, result |-> "none"]
<1>1. /\ task \in [Commands -> [Delivery -> Task]]
      /\ link \in Sockets /\ link' \in Sockets \cup {NoSocket}
      /\ UNCHANGED <<durable, started>>
      /\ task' = task \/ task' = [task EXCEPT ![f.command][f.delivery] = new]
  BY DEF ReceiveCommand, JournalSafe, JournalShape
<1>2. new \in Task /\ new.phase # "begun"
  BY <1>1 DEF Task
<1> HIDE DEF new, f
<1>3. task' \in [Commands -> [Delivery -> Task]]
  BY <1>1, <1>2
<1>4. \A d \in Commands : Begun(d)' \subseteq Begun(d)
  BY <1>1, <1>2 DEF Begun
<1> QED BY <1>1, <1>3, <1>4, JournalStutter, LinkAssumption DEF LinkAssumption

LEMMA DisconnectKeeps == ASSUME JournalSafe, Disconnect PROVE JournalSafe'
<1> DEFINE left(c, n) == [task[c][n] EXCEPT !.socket = NoSocket]
<1>1. /\ task \in [Commands -> [Delivery -> Task]]
      /\ task' = [c \in Commands |-> [n \in Delivery |-> left(c, n)]]
      /\ link' \in Sockets \cup {NoSocket}
      /\ UNCHANGED <<durable, started>>
  BY DEF Disconnect, JournalSafe, JournalShape
<1>2. ASSUME NEW c \in Commands, NEW n \in Delivery
      PROVE  left(c, n) \in Task /\ left(c, n).phase = task[c][n].phase
  <2>1. task[c][n] \in Task
    BY <1>1
  <2>2. ASSUME NEW t \in Task
        PROVE  [t EXCEPT !.socket = NoSocket] \in Task
               /\ [t EXCEPT !.socket = NoSocket].phase = t.phase
    BY DEF Task
  <2> QED BY <2>1, <2>2, Zenon
<1> HIDE DEF left
<1>3. task' \in [Commands -> [Delivery -> Task]]
  BY <1>1, <1>2
<1>4. \A c \in Commands : Begun(c)' \subseteq Begun(c)
  BY <1>1, <1>2 DEF Begun
<1> QED BY <1>1, <1>3, <1>4, JournalStutter, LinkAssumption DEF LinkAssumption

LEMMA CrashKeeps == ASSUME JournalSafe, CrashAgent PROVE JournalSafe'
<1>1. /\ task' = [c \in Commands |-> [n \in Delivery |-> NoTask]]
      /\ link' \in Sockets \cup {NoSocket}
      /\ UNCHANGED <<durable, started>>
  BY DEF CrashAgent
<1>2. NoTask \in Task /\ NoTask.phase # "begun"
  BY DEF NoTask, Task
<1> HIDE DEF NoTask
<1>3. task' \in [Commands -> [Delivery -> Task]]
  BY <1>1, <1>2
<1>4. \A c \in Commands : Begun(c)' \subseteq Begun(c)
  BY <1>1, <1>2 DEF Begun
<1> QED BY <1>1, <1>3, <1>4, JournalStutter, LinkAssumption DEF LinkAssumption

LEMMA AgentAside ==
  ASSUME JournalSafe, UNCHANGED <<task, durable, started>>,
         link' \in Sockets \cup {NoSocket}
  PROVE  JournalSafe'
<1>1. /\ task' \in [Commands -> [Delivery -> Task]]
      /\ \A c \in Consequential : Begun(c)' \subseteq Begun(c)
  BY DEF JournalSafe, JournalShape, Begun
<1> QED BY <1>1, JournalStutter

LEMMA HandleKeeps ==
  ASSUME Roomy, JournalSafe, NEW c \in Commands, NEW n \in Delivery, Handle(c, n)
  PROVE  JournalSafe'
<1>1. ASSUME NEW r \in Result, Finish(c, n, r) PROVE JournalSafe'
  BY <1>1, EndKeeps DEF Finish
<1>2. CASE Decline(c, n)
  <2>1. "failed" \in Result
    BY DEF Result
  <2> QED BY <1>2, <2>1, EndKeeps DEF Decline
<1> QED
  BY <1>1, <1>2, AnswerKeeps, BeginKeeps, LaunchKeeps, ReportKeeps DEF Handle

LEMMA JournalStep == Roomy /\ JournalSafe /\ [Next]_vars => JournalSafe'
<1> SUFFICES ASSUME Roomy, JournalSafe, [Next]_vars PROVE JournalSafe'
  OBVIOUS
<1>1. link \in Sockets \cup {NoSocket}
  BY DEF JournalSafe, JournalShape
<1>2. ASSUME NEW s \in Sockets, Session(s) PROVE JournalSafe'
  <2>1. UNCHANGED <<task, durable, started>> /\ link' \in Sockets \cup {NoSocket}
    BY <1>1, <1>2
       DEF Session, Dial, Register, RefuseDuplicate, PeerLost, Unregister, agent, memory
  <2> QED BY <2>1, AgentAside
<1>3. ASSUME NEW s \in Sockets, RefuseCredential(s) \/ ReceiveObservation(s) \/ Break(s)
      PROVE  JournalSafe'
  BY <1>1, <1>3, AgentAside DEF RefuseCredential, ReceiveObservation, Break, agent, memory
<1>4. ASSUME NEW c \in Commands,
             Dispatch(c) \/ DispatchOffline(c) \/ DispatchRaises(c) \/ Timeout(c) \/ RequestCancel(c)
      PROVE  JournalSafe'
  BY <1>1, <1>4, AgentAside
     DEF Dispatch, DispatchOffline, DispatchRaises, Timeout, RequestCancel, Requested, agent, memory
<1>5. ASSUME NEW c \in Commands, NEW n \in Delivery, Handle(c, n) PROVE JournalSafe'
  BY <1>5, HandleKeeps
<1>6. CASE ReceiveCancel
  BY <1>1, <1>6, AgentAside DEF ReceiveCancel
<1>7. CASE UNCHANGED vars
  BY <1>1, <1>7, AgentAside DEF vars, agent, memory
<1> QED
  BY <1>2, <1>3, <1>4, <1>5, <1>6, <1>7, DisconnectKeeps, ReceiveKeeps, CrashKeeps DEF Next

LEMMA JournalInit == Init => JournalSafe
<1> SUFFICES ASSUME Init PROVE JournalSafe
  OBVIOUS
<1>1. /\ durable = <<>> /\ started = [c \in Commands |-> 0] /\ link = NoSocket
      /\ task = [c \in Commands |-> [n \in Delivery |-> NoTask]]
  BY DEF Init
<1>2. NoTask \in Task /\ NoTask.phase # "begun"
  BY DEF NoTask, Task
<1> HIDE DEF NoTask
<1>3. JournalShape
  BY <1>1, <1>2 DEF JournalShape, Distinct
<1>4. ASSUME NEW c \in Consequential PROVE started[c] = 0 /\ Begun(c) = {}
  BY <1>1, <1>2, LinkAssumption DEF Begun, LinkAssumption
<1> QED BY <1>3, <1>4 DEF JournalSafe, LaunchedOnce

(* While the journal has room for every workflow, its process is started at *)
(* most once: for every number of commands, deliveries, lost links and      *)
(* restarts of the agent (ReplayJournal.begin before execute).              *)
THEOREM WorkflowStartsOnce == Spec => []ConsequentialRunsOnce
<1>1. JournalInv => ConsequentialRunsOnce
  BY DEF JournalInv, JournalSafe, LaunchedOnce, Roomy, ConsequentialRunsOnce
<1>2. Init => JournalInv
  BY JournalInit DEF JournalInv
<1>3. JournalInv /\ [Next]_vars => JournalInv'
  BY JournalStep DEF JournalInv, Roomy
<1> QED BY <1>1, <1>2, <1>3, PTL DEF Spec
-----------------------------------------------------------------------------
(* Type correctness.                                                        *)

FrameRow == [kind : {"command", "cancel"}, command : Commands, delivery : Delivery \cup {0}]
ReportRow == [command : Commands, result : Result]

CoreTyped ==
    /\ SessionShape
    /\ verdicts \in [Commands -> SUBSET Verdict]
    /\ deliveries \in [Commands -> Delivery \cup {0}]
NetworkTyped ==
    /\ down \in [Sockets -> Seq(FrameRow)]
    /\ up \in [Sockets -> Seq(ReportRow)]
    /\ cut \in [Sockets -> BOOLEAN]
TasksTyped ==
    /\ task \in [Commands -> [Delivery -> Task]]
    /\ \A c \in Commands : \A n \in Delivery :
          task[c][n].phase = "reporting" => task[c][n].result \in Result
TableTyped ==
    /\ table \in [Commands -> Delivery \cup {0}]
    /\ Cardinality(InFlight) <= MaxInFlight
FlagsTyped ==
    /\ link \in Sockets \cup {NoSocket}
    /\ cancelled \subseteq Commands
    /\ owned \in [Consequential -> {"none", "running", "cancelled"}]
    /\ started \in [Commands -> Nat]
RecordsTyped ==
    /\ terminal \in Seq(ReportRow)
    /\ durable \in Seq(Consequential) /\ Len(durable) <= MaxRecords
BoundsTyped == cancels \in 0..MaxCancels /\ faults \in 0..MaxFaults
AgentTyped == TasksTyped /\ TableTyped /\ FlagsTyped /\ RecordsTyped
LinkTyped == CoreTyped /\ NetworkTyped /\ AgentTyped /\ BoundsTyped

LEMMA LinkConstants ==
  /\ IsFiniteSet(Commands) /\ Consequential \subseteq Commands /\ NoSocket \notin Sockets
  /\ MaxInFlight \in Nat \ {0} /\ MaxRecords \in Nat \ {0}
  /\ MaxCancels \in Nat /\ MaxFaults \in Nat
  /\ Delivery \subseteq Nat \ {0} /\ \A n \in Delivery \cup {0} : n \in Nat
  /\ \A c \in Commands : MaxDeliveries[c] \in Nat /\ 1..MaxDeliveries[c] \subseteq Delivery
BY LinkAssumption DEF LinkAssumption, Delivery

LEMMA LinkTypedIsTypeOK == LinkTyped => TypeOK
<1> SUFFICES ASSUME LinkTyped PROVE TypeOK
  OBVIOUS
<1>1. CoreTyped /\ NetworkTyped /\ TasksTyped /\ TableTyped /\ FlagsTyped /\ RecordsTyped
      /\ BoundsTyped
  BY DEF LinkTyped, AgentTyped
<1>2. ASSUME NEW s \in Sockets
      PROVE  /\ \A i \in DOMAIN down[s] : down[s][i] \in FrameRow
             /\ \A i \in DOMAIN up[s] : up[s][i] \in ReportRow
  <2>1. down[s] \in Seq(FrameRow) /\ up[s] \in Seq(ReportRow)
    BY <1>1 DEF NetworkTyped
  <2> QED
    BY <2>1
<1>3. /\ \A i \in DOMAIN terminal : terminal[i] \in ReportRow
      /\ \A i \in DOMAIN durable : durable[i] \in Consequential
      /\ Len(durable) <= MaxRecords
  BY <1>1 DEF RecordsTyped
<1>4. Cardinality({c \in Commands : table[c] # 0}) <= MaxInFlight
  BY <1>1 DEF TableTyped, InFlight
<1> QED
  BY <1>1, <1>2, <1>3, <1>4
     DEF TypeOK, CoreTyped, SessionShape, NetworkTyped, TasksTyped, TableTyped, FlagsTyped,
         BoundsTyped, FrameRow, ReportRow

LEMMA LinkTypedInit == Init => LinkTyped
<1> SUFFICES ASSUME Init PROVE LinkTyped
  OBVIOUS
<1>1. CoreTyped /\ NetworkTyped /\ BoundsTyped
  BY LinkConstants DEF Init, CoreTyped, SessionShape, NetworkTyped, BoundsTyped
<1>2. TasksTyped
  <2>1. NoTask \in Task /\ NoTask.phase = "none"
    BY DEF NoTask, Task
  <2> HIDE DEF NoTask
  <2> QED
    BY <2>1 DEF Init, TasksTyped
<1>3. TableTyped
  <2>1. InFlight = {}
    BY DEF Init, InFlight
  <2> QED
    BY <2>1, LinkConstants, FS_EmptySet DEF Init, TableTyped
<1>4. FlagsTyped /\ RecordsTyped
  BY LinkConstants DEF Init, FlagsTyped, RecordsTyped
<1> QED
  BY <1>1, <1>2, <1>3, <1>4 DEF LinkTyped, AgentTyped

LEMMA CoreSame == CoreTyped /\ UNCHANGED core => CoreTyped'
BY DEF CoreTyped, SessionShape, core

LEMMA NetworkSame == NetworkTyped /\ UNCHANGED network => NetworkTyped'
BY DEF NetworkTyped, network

LEMMA TasksSame == TasksTyped /\ UNCHANGED task => TasksTyped'
BY DEF TasksTyped

LEMMA TableSame == TableTyped /\ UNCHANGED table => TableTyped'
BY DEF TableTyped, InFlight

LEMMA RecordsSame == RecordsTyped /\ UNCHANGED <<terminal, durable>> => RecordsTyped'
BY DEF RecordsTyped

LEMMA AgentSame == AgentTyped /\ UNCHANGED agent => AgentTyped'
BY TasksSame, TableSame, RecordsSame DEF AgentTyped, FlagsTyped, agent, memory

LEMMA BoundsSame == BoundsTyped /\ UNCHANGED bounds => BoundsTyped'
BY DEF BoundsTyped, bounds

(* A frame or an observation that is sent is appended, or lost.             *)
LEMMA SendDownAppends ==
  ASSUME NetworkTyped, NEW s \in Sockets, NEW f \in FrameRow, SendDown(s, f)
  PROVE  /\ down' \in [Sockets -> Seq(FrameRow)]
         /\ \A t \in Sockets : t # s => down'[t] = down[t]
         /\ down'[s] = down[s] \/ down'[s] = Append(down[s], f)
<1>1. down \in [Sockets -> Seq(FrameRow)] /\ Append(down[s], f) \in Seq(FrameRow)
  BY DEF NetworkTyped
<1>2. down' = down \/ down' = [down EXCEPT ![s] = Append(down[s], f)]
  BY DEF SendDown
<1> QED
  BY <1>1, <1>2

LEMMA SendUpAppends ==
  ASSUME NetworkTyped, NEW s, NEW o \in ReportRow, SendUp(s, o), s \in Sockets \cup {NoSocket}
  PROVE  /\ up' \in [Sockets -> Seq(ReportRow)]
         /\ \A t \in Sockets : t # s => up'[t] = up[t]
         /\ s \in Sockets => up'[s] = up[s] \/ up'[s] = Append(up[s], o)
<1>1. up \in [Sockets -> Seq(ReportRow)]
  BY DEF NetworkTyped
<1>2. CASE ~Usable(s)
  BY <1>1, <1>2 DEF SendUp
<1>3. CASE Usable(s)
  <2>1. s \in Sockets
    BY <1>3 DEF Usable
  <2>2. Append(up[s], o) \in Seq(ReportRow)
    BY <1>1, <2>1
  <2>3. up' = [up EXCEPT ![s] = Append(up[s], o)]
    BY <1>3 DEF SendUp
  <2> QED
    BY <1>1, <2>1, <2>2, <2>3
<1> QED
  BY <1>2, <1>3

LEMMA SessionTyped ==
  ASSUME LinkTyped, NEW s \in Sockets, Session(s) \/ RefuseCredential(s) \/ Break(s)
  PROVE  LinkTyped'
<1>1. /\ CoreTyped /\ NetworkTyped /\ AgentTyped /\ BoundsTyped
      /\ faults \in Nat
  BY LinkConstants DEF LinkTyped, BoundsTyped
<1>2. CoreTyped'
  <2>1. CASE Dial(s) \/ Register(s) \/ RefuseDuplicate(s) \/ PeerLost(s) \/ RefuseCredential(s)
    BY <1>1, <2>1 DEF CoreTyped, SessionShape, Dial, Register, RefuseDuplicate, PeerLost,
                      RefuseCredential, Closing
  <2>2. CASE Unregister(s)
    <3>1. "uncertain" \in Verdict
      BY DEF Verdict, Result
    <3> QED
      BY <1>1, <2>2, <3>1 DEF CoreTyped, SessionShape, Unregister
  <2>3. CASE Break(s)
    BY <1>1, <2>3, CoreSame DEF Break
  <2> QED
    BY <2>1, <2>2, <2>3 DEF Session
<1>3. NetworkTyped'
  <2>1. CASE Dial(s) \/ Unregister(s) \/ Break(s)
    <3>1. <<>> \in Seq(FrameRow) /\ <<>> \in Seq(ReportRow)
      OBVIOUS
    <3>2. CASE Dial(s)
      BY <1>1, <3>2 DEF NetworkTyped, Dial
    <3>3. CASE Unregister(s)
      BY <1>1, <3>1, <3>3 DEF NetworkTyped, Unregister
    <3>4. CASE Break(s)
      BY <1>1, <3>1, <3>4 DEF NetworkTyped, Break
    <3> QED
      BY <2>1, <3>2, <3>3, <3>4
  <2>2. CASE Register(s) \/ RefuseDuplicate(s) \/ PeerLost(s) \/ RefuseCredential(s)
    BY <1>1, <2>2, NetworkSame DEF Register, RefuseDuplicate, PeerLost, RefuseCredential
  <2> QED
    BY <2>1, <2>2 DEF Session
<1>4. AgentTyped'
  <2>1. CASE Dial(s)
    BY <1>1, <2>1, TasksSame, TableSame, RecordsSame DEF AgentTyped, FlagsTyped, Dial, memory
  <2>2. CASE ~Dial(s)
    BY <1>1, <2>2, AgentSame
       DEF Session, Register, RefuseDuplicate, PeerLost, Unregister, RefuseCredential, Break
  <2> QED
    BY <2>1, <2>2
<1>5. BoundsTyped'
  <2>1. CASE RefuseCredential(s) \/ Break(s)
    BY <1>1, <2>1, LinkConstants DEF RefuseCredential, Break, BoundsTyped
  <2>2. CASE Session(s)
    BY <1>1, <2>2, BoundsSame
       DEF Session, Dial, Register, RefuseDuplicate, PeerLost, Unregister
  <2> QED
    BY <2>1, <2>2
<1> QED
  BY <1>2, <1>3, <1>4, <1>5 DEF LinkTyped

LEMMA ConcludeTyped ==
  ASSUME CoreTyped, NEW c \in Commands, NEW v \in Verdict, Conclude(c, v),
         UNCHANGED <<handler, registered>>, deliveries' \in [Commands -> Delivery \cup {0}]
  PROVE  CoreTyped'
BY DEF CoreTyped, SessionShape, Conclude

LEMMA RequestedTyped ==
  ASSUME LinkTyped, NEW c \in Commands, Requested(c)
  PROVE  /\ deliveries' \in [Commands -> Delivery \cup {0}]
         /\ CommandFrame(c, deliveries[c] + 1) \in FrameRow
         /\ AgentTyped' /\ BoundsTyped'
<1>1. deliveries[c] + 1 \in Delivery
  <2>1. deliveries[c] \in Nat /\ deliveries[c] < MaxDeliveries[c]
    <3>1. deliveries[c] \in Delivery \cup {0}
      BY DEF LinkTyped, CoreTyped
    <3>2. deliveries[c] \in Nat
      BY <3>1, LinkConstants
    <3> QED
      BY <3>2 DEF Requested
  <2>2. deliveries[c] + 1 \in 1..MaxDeliveries[c]
    BY <2>1, LinkConstants
  <2> QED
    BY <2>2, LinkConstants
<1>2. deliveries' \in [Commands -> Delivery \cup {0}]
  BY <1>1 DEF LinkTyped, CoreTyped, Requested
<1> QED
  BY <1>1, <1>2, AgentSame, BoundsSame DEF LinkTyped, Requested, CommandFrame, FrameRow

LEMMA CommandTyped ==
  ASSUME LinkTyped, NEW c \in Commands,
         Dispatch(c) \/ DispatchOffline(c) \/ DispatchRaises(c) \/ Timeout(c) \/ RequestCancel(c)
  PROVE  LinkTyped'
<1>1. CoreTyped /\ NetworkTyped /\ AgentTyped /\ BoundsTyped
  BY DEF LinkTyped
<1>2. CASE Dispatch(c)
  <2>1. registered \in Sockets /\ Requested(c)
    BY <1>1, <1>2 DEF CoreTyped, SessionShape, Dispatch
  <2>2. CoreTyped'
    BY <1>1, <1>2, <2>1, RequestedTyped DEF CoreTyped, SessionShape, Dispatch, Requested
  <2>3. down' \in [Sockets -> Seq(FrameRow)]
    BY <1>1, <1>2, <2>1, RequestedTyped, SendDownAppends DEF Dispatch
  <2> QED
    BY <1>1, <2>1, <2>2, <2>3, RequestedTyped DEF LinkTyped, NetworkTyped, Requested
<1>3. CASE DispatchOffline(c) \/ DispatchRaises(c)
  <2>1. "offline" \in Verdict /\ "raised" \in Verdict
    BY DEF Verdict
  <2>2. Requested(c) /\ UNCHANGED network /\ (Conclude(c, "offline") \/ Conclude(c, "raised"))
    BY <1>3 DEF DispatchOffline, DispatchRaises, Requested, network
  <2>3. CoreTyped'
    BY <1>1, <2>1, <2>2, RequestedTyped, ConcludeTyped DEF Requested
  <2> QED
    BY <1>1, <2>2, <2>3, RequestedTyped, NetworkSame DEF LinkTyped
<1>4. CASE Timeout(c)
  <2>1. TimeoutVerdict(c) \in Verdict
    BY DEF TimeoutVerdict, Verdict, Result
  <2>2. CoreTyped'
    BY <1>1, <1>4, <2>1, ConcludeTyped DEF Timeout, CoreTyped
  <2> QED
    BY <1>1, <1>4, <2>2, NetworkSame, AgentSame, BoundsSame DEF LinkTyped, Timeout
<1>5. CASE RequestCancel(c)
  <2>1. pending[c] \in Sockets /\ CancelFrame(c) \in FrameRow
    BY <1>1, <1>5 DEF CoreTyped, SessionShape, RequestCancel, CancelFrame, FrameRow
  <2>2. down' \in [Sockets -> Seq(FrameRow)]
    BY <1>1, <1>5, <2>1, SendDownAppends DEF RequestCancel
  <2>3. BoundsTyped'
    BY <1>1, <1>5, LinkConstants DEF BoundsTyped, RequestCancel
  <2> QED
    BY <1>1, <1>5, <2>2, <2>3, CoreSame, AgentSame DEF LinkTyped, NetworkTyped, RequestCancel
<1> QED
  BY <1>2, <1>3, <1>4, <1>5

LEMMA HeadRow ==
  ASSUME NEW S, NEW q \in Seq(S), q # <<>>
  PROVE  Head(q) \in S /\ Tail(q) \in Seq(S)
BY HeadTailProperties

LEMMA ReceiveObservationTyped ==
  ASSUME LinkTyped, NEW s \in Sockets, ReceiveObservation(s)
  PROVE  LinkTyped' /\ Head(up[s]) \in ReportRow
<1>1. CoreTyped /\ NetworkTyped /\ AgentTyped /\ BoundsTyped
  BY DEF LinkTyped
<1>2. Head(up[s]) \in ReportRow /\ Tail(up[s]) \in Seq(ReportRow)
  BY <1>1, HeadRow DEF NetworkTyped, ReceiveObservation
<1>3. PICK o \in ReportRow : o = Head(up[s])
  BY <1>2
<1>4. o.command \in Commands /\ o.result \in Verdict
  BY DEF ReportRow, Verdict
<1>5. CoreTyped'
  <2>1. CASE pending[o.command] = s
    BY <1>1, <1>3, <1>4, <2>1, ConcludeTyped DEF ReceiveObservation, CoreTyped
  <2>2. CASE pending[o.command] # s
    BY <1>1, <1>3, <2>2 DEF ReceiveObservation, CoreTyped, SessionShape, Closing
  <2> QED
    BY <2>1, <2>2
<1>6. NetworkTyped'
  BY <1>1, <1>2 DEF ReceiveObservation, NetworkTyped
<1> QED
  BY <1>1, <1>2, <1>5, <1>6, AgentSame, BoundsSame DEF LinkTyped, ReceiveObservation

(* The head of what the agent reads.                                        *)
LEMMA ReadFrame ==
  ASSUME LinkTyped, link # NoSocket, down[link] # <<>>,
         down' = [down EXCEPT ![link] = Tail(@)]
  PROVE  /\ link \in Sockets
         /\ Head(down[link]) \in FrameRow
         /\ down' \in [Sockets -> Seq(FrameRow)]
         /\ down'[link] = Tail(down[link])
         /\ \A t \in Sockets : t # link => down'[t] = down[t]
<1>1. link \in Sockets /\ down \in [Sockets -> Seq(FrameRow)]
  BY DEF LinkTyped, AgentTyped, FlagsTyped, NetworkTyped
<1>2. Head(down[link]) \in FrameRow /\ Tail(down[link]) \in Seq(FrameRow)
  BY <1>1, HeadRow
<1> QED
  BY <1>1, <1>2

LEMMA DisconnectTyped == ASSUME LinkTyped, Disconnect PROVE LinkTyped'
<1>1. CoreTyped /\ NetworkTyped /\ AgentTyped /\ BoundsTyped
  BY DEF LinkTyped
<1>2. link \in Sockets /\ NetworkTyped'
  <2>1. link \in Sockets /\ <<>> \in Seq(FrameRow)
    BY <1>1 DEF AgentTyped, FlagsTyped, Disconnect
  <2> QED
    BY <1>1, <2>1 DEF NetworkTyped, Disconnect
<1>3. TasksTyped'
  <2>1. ASSUME NEW t \in Task
        PROVE  /\ [t EXCEPT !.socket = NoSocket] \in Task
               /\ [t EXCEPT !.socket = NoSocket].phase = t.phase
               /\ [t EXCEPT !.socket = NoSocket].result = t.result
    BY DEF Task
  <2>2. \A c \in Commands : \A n \in Delivery :
          /\ task[c][n] \in Task
          /\ task'[c][n] = [task[c][n] EXCEPT !.socket = NoSocket]
    BY <1>1 DEF AgentTyped, TasksTyped, Disconnect
  <2>3. ASSUME NEW c \in Commands, NEW n \in Delivery
        PROVE  /\ task'[c][n] \in Task
               /\ task'[c][n].phase = task[c][n].phase
               /\ task'[c][n].result = task[c][n].result
    <3>1. PICK t \in Task : t = task[c][n]
      BY <2>2
    <3>2. task'[c][n] = [t EXCEPT !.socket = NoSocket]
      BY <2>2, <3>1
    <3> QED
      BY <2>1, <3>1, <3>2
  <2>4. task' \in [Commands -> [Delivery -> Task]]
    <3>1. task' = [c \in Commands |-> [n \in Delivery |-> task'[c][n]]]
      BY DEF Disconnect
    <3> QED
      BY <2>3, <3>1
  <2> QED
    BY <1>1, <2>3, <2>4 DEF AgentTyped, TasksTyped
<1>4. AgentTyped'
  BY <1>1, <1>3, TableSame, RecordsSame DEF AgentTyped, FlagsTyped, Disconnect
<1> QED
  BY <1>1, <1>2, <1>4, CoreSame, BoundsSame DEF LinkTyped, Disconnect

LEMMA CrashTyped == ASSUME LinkTyped, CrashAgent PROVE LinkTyped'
<1>1. CoreTyped /\ NetworkTyped /\ AgentTyped /\ BoundsTyped
  BY DEF LinkTyped
<1>2. NetworkTyped'
  BY <1>1 DEF NetworkTyped, CrashAgent
<1>3. TasksTyped'
  <2>1. NoTask \in Task /\ NoTask.phase = "none"
    BY DEF NoTask, Task
  <2> HIDE DEF NoTask
  <2> QED
    BY <2>1 DEF TasksTyped, CrashAgent
<1>4. TableTyped'
  <2>1. InFlight' = {} /\ table' \in [Commands -> Delivery \cup {0}]
    BY DEF CrashAgent, InFlight
  <2> QED
    BY <2>1, LinkConstants, FS_EmptySet DEF TableTyped
<1>5. FlagsTyped' /\ RecordsTyped' /\ BoundsTyped'
  BY <1>1, LinkConstants DEF AgentTyped, FlagsTyped, RecordsTyped, BoundsTyped, CrashAgent
<1> QED
  BY <1>1, <1>2, <1>3, <1>4, <1>5, CoreSame DEF LinkTyped, AgentTyped, CrashAgent

(* A command that is accepted makes room for itself under the limit.        *)
LEMMA TableGrows ==
  ASSUME TableTyped, NEW c \in Commands, NEW n \in Delivery \cup {0}, Accepts(c),
         table' = [table EXCEPT ![c] = n]
  PROVE  TableTyped'
<1>1. table' \in [Commands -> Delivery \cup {0}]
  BY DEF TableTyped
<1>2. InFlight' \subseteq InFlight \cup {c}
  BY DEF TableTyped, InFlight
<1>3. IsFiniteSet(InFlight) /\ Cardinality(InFlight) \in Nat
  BY LinkConstants, FS_Subset, FS_CardinalityType DEF InFlight
<1>4. IsFiniteSet(InFlight \cup {c}) /\ Cardinality(InFlight \cup {c}) <= MaxInFlight
  <2>1. Cardinality(InFlight) < MaxInFlight
    BY DEF Accepts
  <2>2. /\ IsFiniteSet(InFlight \cup {c})
        /\ Cardinality(InFlight \cup {c}) \in {Cardinality(InFlight), Cardinality(InFlight) + 1}
    BY <1>3, FS_AddElement
  <2>3. MaxInFlight \in Nat
    BY LinkConstants
  <2> QED
    BY <1>3, <2>1, <2>2, <2>3
<1>5. Cardinality(InFlight') <= Cardinality(InFlight \cup {c})
      /\ Cardinality(InFlight') \in Nat /\ Cardinality(InFlight \cup {c}) \in Nat
  BY <1>2, <1>4, FS_Subset, FS_CardinalityType
<1> QED
  BY <1>1, <1>4, <1>5, LinkConstants DEF TableTyped

LEMMA TableShrinks ==
  ASSUME TableTyped, NEW c \in Commands, table' = [table EXCEPT ![c] = 0]
  PROVE  TableTyped'
<1>1. table' \in [Commands -> Delivery \cup {0}] /\ InFlight' \subseteq InFlight
  BY DEF TableTyped, InFlight
<1>2. IsFiniteSet(InFlight) /\ Cardinality(InFlight) \in Nat
  BY LinkConstants, FS_Subset, FS_CardinalityType DEF InFlight
<1>3. Cardinality(InFlight') <= Cardinality(InFlight) /\ Cardinality(InFlight') \in Nat
  BY <1>1, <1>2, FS_Subset, FS_CardinalityType
<1> QED
  BY <1>1, <1>2, <1>3, LinkConstants DEF TableTyped

LEMMA ReceiveCommandTyped == ASSUME LinkTyped, ReceiveCommand PROVE LinkTyped'
<1>1. CoreTyped /\ NetworkTyped /\ AgentTyped /\ BoundsTyped
  BY DEF LinkTyped
<1>2. /\ link \in Sockets
      /\ Head(down[link]) \in FrameRow
      /\ down' \in [Sockets -> Seq(FrameRow)]
  BY ReadFrame DEF ReceiveCommand
<1>3. PICK f \in FrameRow : f = Head(down[link])
  BY <1>2
<1>4. f.command \in Commands /\ f.delivery \in Delivery \cup {0}
  BY DEF FrameRow
<1>5. UNCHANGED <<core, cut, link, cancelled, owned, terminal, durable, started, bounds>>
  BY DEF ReceiveCommand
<1>6. CASE Accepts(f.command)
  <2>1. /\ table' = [table EXCEPT ![f.command] = f.delivery]
        /\ task' = [task EXCEPT ![f.command][f.delivery] =
                        [phase |-> "waiting", socket |-> link, result |-> "none"]]
        /\ UNCHANGED up
    BY <1>3, <1>6 DEF ReceiveCommand
  <2>2. TableTyped'
    BY <1>1, <1>4, <1>6, <2>1, TableGrows DEF AgentTyped
  <2>3. PICK t : t = [phase |-> "waiting", socket |-> link, result |-> "none"]
    OBVIOUS
  <2>4. t \in Task /\ t.phase = "waiting"
    BY <1>2, <2>3 DEF Task
  <2>5. TasksTyped'
    BY <1>1, <2>1, <2>3, <2>4 DEF AgentTyped, TasksTyped
  <2> QED
    BY <1>1, <1>2, <1>5, <2>1, <2>2, <2>5, CoreSame, BoundsSame, RecordsSame
       DEF LinkTyped, NetworkTyped, AgentTyped, FlagsTyped
<1>7. CASE ~Accepts(f.command)
  <2>1. SendUp(link, Observation(f.command, "busy")) /\ UNCHANGED <<table, task>>
    BY <1>3, <1>7 DEF ReceiveCommand
  <2>2. Observation(f.command, "busy") \in ReportRow
    BY <1>4 DEF Observation, ReportRow, Result
  <2>3. up' \in [Sockets -> Seq(ReportRow)]
    BY <1>1, <1>2, <2>1, <2>2, SendUpAppends
  <2> QED
    BY <1>1, <1>2, <1>5, <2>1, <2>3, CoreSame, BoundsSame, RecordsSame, TasksSame, TableSame
       DEF LinkTyped, NetworkTyped, AgentTyped, FlagsTyped
<1> QED
  BY <1>6, <1>7

LEMMA ReceiveCancelTyped == ASSUME LinkTyped, ReceiveCancel PROVE LinkTyped'
<1>1. CoreTyped /\ NetworkTyped /\ AgentTyped /\ BoundsTyped
  BY DEF LinkTyped
<1>2. down' \in [Sockets -> Seq(FrameRow)]
  BY ReadFrame DEF ReceiveCancel
<1>3. FlagsTyped'
  BY <1>1 DEF AgentTyped, FlagsTyped, ReceiveCancel, InFlight, Owned
<1> QED
  BY <1>1, <1>2, <1>3, CoreSame, BoundsSame, RecordsSame, TasksSame, TableSame
     DEF LinkTyped, NetworkTyped, AgentTyped, ReceiveCancel

LEMMA NewestKeeps ==
  ASSUME NEW S, NEW q \in Seq(S)
  PROVE  /\ Newest(q) \in Seq(S) /\ Len(Newest(q)) <= MaxRecords
         /\ \A x : Contains(Newest(q), x) => Contains(q, x)
<1>1. MaxRecords \in Nat \ {0} /\ Len(q) \in Nat
  BY LinkConstants, LenProperties
<1>2. PICK m \in Nat : m = IF Len(q) > MaxRecords THEN Len(q) - MaxRecords + 1 ELSE 1
  <2>1. CASE Len(q) > MaxRecords
    BY <1>1, <2>1
  <2>2. CASE ~(Len(q) > MaxRecords)
    BY <2>2
  <2> QED
    BY <2>1, <2>2
<1>3. m \in 1..Len(q) + 1 /\ Len(q) - m + 1 \in 0..MaxRecords
  BY <1>1, <1>2
<1>4. Newest(q) = SubSeq(q, m, Len(q))
  BY <1>2 DEF Newest
<1>5. /\ SubSeq(q, m, Len(q)) \in Seq(S)
      /\ Len(SubSeq(q, m, Len(q))) = Len(q) - m + 1
      /\ \A i \in 1..Len(q) - m + 1 : SubSeq(q, m, Len(q))[i] = q[m + i - 1]
  BY <1>1, <1>3, SubSeqProperties
<1>6. ASSUME NEW x, Contains(Newest(q), x) PROVE Contains(q, x)
  <2>1. PICK i \in 1..Len(q) - m + 1 : q[m + i - 1] = x
    BY <1>4, <1>5, <1>6 DEF Contains
  <2>2. m + i - 1 \in 1..Len(q)
    BY <1>1, <1>3, <2>1
  <2> QED
    BY <2>1, <2>2 DEF Contains
<1> QED
  BY <1>3, <1>4, <1>5, <1>6

LEMMA AppendContains ==
  ASSUME NEW S, NEW q \in Seq(S), NEW e \in S
  PROVE  /\ Append(q, e) \in Seq(S)
         /\ \A x : Contains(Append(q, e), x) <=> Contains(q, x) \/ x = e
<1>1. /\ Append(q, e) \in Seq(S) /\ Len(q) \in Nat /\ Len(Append(q, e)) = Len(q) + 1
      /\ \A i \in 1..Len(q) : Append(q, e)[i] = q[i]
      /\ Append(q, e)[Len(q) + 1] = e
  OBVIOUS
<1> QED
  BY <1>1 DEF Contains

LEMMA RecordedTyped ==
  ASSUME RecordsTyped, NEW c \in Consequential
  PROVE  Newest(Recorded(c)) \in Seq(Consequential) /\ Len(Newest(Recorded(c))) <= MaxRecords
<1>1. Recorded(c) \in Seq(Consequential)
  BY AppendContains DEF RecordsTyped, Recorded
<1> QED
  BY <1>1, NewestKeeps

(* What the table of results says once the end of a command is remembered:  *)
(* of the command nothing else, of the others nothing new.                  *)
LEMMA RememberedIsLast ==
  ASSUME RecordsTyped, NEW c \in Commands, NEW r \in Result
  PROVE  /\ Remembered(c, r) \in Seq(ReportRow)
         /\ \A x : Contains(Remembered(c, r), x) =>
               x = Observation(c, r) \/ (Contains(terminal, x) /\ x.command # c)
<1> DEFINE o == Observation(c, r)
<1>1. /\ terminal \in Seq(ReportRow) /\ o \in ReportRow
      /\ \A i \in 1..Len(terminal) : terminal[i] \in ReportRow
  <2>1. terminal \in Seq(ReportRow)
    BY DEF RecordsTyped
  <2>2. \A i \in 1..Len(terminal) : terminal[i] \in ReportRow
    BY <2>1, ElementOfSeq
  <2>3. o \in ReportRow
    BY DEF Observation, ReportRow
  <2> QED
    BY <2>1, <2>2, <2>3
<1>2. CASE Cached(c) = {}
  <2>1. \A i \in 1..Len(terminal) : terminal[i].command # c
    <3>1. ASSUME NEW i \in 1..Len(terminal), terminal[i].command = c PROVE FALSE
      <4>1. terminal[i] = Observation(c, terminal[i].result) /\ terminal[i].result \in Result
        BY <1>1, <3>1 DEF ReportRow, Observation
      <4>2. Contains(terminal, Observation(c, terminal[i].result))
        BY <4>1 DEF Contains
      <4> QED
        BY <1>2, <4>1, <4>2 DEF Cached
    <3> QED
      BY <3>1
  <2>2. \A x : Contains(terminal, x) => x.command # c
    BY <2>1 DEF Contains
  <2>3. Remembered(c, r) = Append(terminal, o)
    BY <1>2 DEF Remembered
  <2> QED
    BY <1>1, <2>2, <2>3, AppendContains
<1>3. CASE Cached(c) # {}
  <2> DEFINE q == [i \in DOMAIN terminal |-> IF terminal[i].command = c THEN o ELSE terminal[i]]
  <2>1. Remembered(c, r) = q
    BY <1>3 DEF Remembered
  <2>2. Len(terminal) \in Nat /\ DOMAIN terminal = 1..Len(terminal)
    BY <1>1
  <2>3. \A i \in 1..Len(terminal) :
          q[i] \in ReportRow
          /\ (q[i] = o \/ (q[i] = terminal[i] /\ terminal[i].command # c))
    BY <1>1, <2>2
  <2>4. q \in [1..Len(terminal) -> ReportRow]
    BY <2>2, <2>3
  <2> HIDE DEF q
  <2>5. q \in Seq(ReportRow) /\ Len(q) = Len(terminal)
    BY <2>2, <2>4, SeqDef, LenProperties
  <2>6. ASSUME NEW x, Contains(q, x)
        PROVE  x = o \/ (Contains(terminal, x) /\ x.command # c)
    BY <2>3, <2>5, <2>6 DEF Contains
  <2> QED
    BY <2>1, <2>5, <2>6
<1> QED
  BY <1>2, <1>3

LEMMA SetTaskTyped ==
  ASSUME TasksTyped, NEW c \in Commands, NEW n \in Delivery, NEW p, NEW r, SetTask(c, n, p, r),
         p \in {"none", "waiting", "begun", "running", "reporting"},
         r \in Result \cup {"none"}, p = "reporting" => r \in Result
  PROVE  TasksTyped'
<1>1. /\ task' \in [Commands -> [Delivery -> Task]]
      /\ task'[c][n].phase = p /\ task'[c][n].result = r
      /\ \A d \in Commands : \A m \in Delivery : d # c \/ m # n => task'[d][m] = task[d][m]
  BY SetTaskRow DEF TasksTyped
<1> QED
  BY <1>1 DEF TasksTyped

LEMMA FinishJournalTyped ==
  ASSUME RecordsTyped, NEW c \in Commands, NEW r \in Result, FinishJournal(c, r)
  PROVE  /\ RecordsTyped'
         /\ \A x : Contains(terminal', x) =>
               x = Observation(c, r) \/ (Contains(terminal, x) /\ x.command # c)
<1>1. /\ Remembered(c, r) \in Seq(ReportRow)
      /\ \A x : Contains(Remembered(c, r), x) =>
            x = Observation(c, r) \/ (Contains(terminal, x) /\ x.command # c)
  BY RememberedIsLast
<1>2. CASE c \in Consequential
  <2>1. durable' = Newest(Recorded(c)) /\ terminal' = Newest(Remembered(c, r))
    BY <1>2 DEF FinishJournal
  <2>2. durable' \in Seq(Consequential) /\ Len(durable') <= MaxRecords
    BY <1>2, <2>1, RecordedTyped
  <2>3. terminal' \in Seq(ReportRow)
        /\ \A x : Contains(terminal', x) => Contains(Remembered(c, r), x)
    BY <1>1, <2>1, NewestKeeps
  <2> QED
    BY <1>1, <2>2, <2>3 DEF RecordsTyped
<1>3. CASE c \notin Consequential
  <2>1. durable' = durable /\ terminal' = Remembered(c, r)
    BY <1>3 DEF FinishJournal
  <2> QED
    BY <1>1, <2>1 DEF RecordsTyped
<1> QED
  BY <1>2, <1>3

LEMMA BeginJournalTyped ==
  ASSUME RecordsTyped, NEW c \in Commands, BeginJournal(c)
  PROVE  RecordsTyped' /\ \A x : Contains(terminal', x) => Contains(terminal, x)
<1>1. CASE c \in Consequential
  <2>1. durable' = Newest(Recorded(c)) /\ terminal' = Newest(terminal)
    BY <1>1 DEF BeginJournal
  <2>2. durable' \in Seq(Consequential) /\ Len(durable') <= MaxRecords
    BY <1>1, <2>1, RecordedTyped
  <2>3. terminal' \in Seq(ReportRow) /\ \A x : Contains(terminal', x) => Contains(terminal, x)
    BY <2>1, NewestKeeps DEF RecordsTyped
  <2> QED
    BY <2>2, <2>3 DEF RecordsTyped
<1>2. CASE c \notin Consequential
  BY <1>2, RecordsSame DEF BeginJournal
<1> QED
  BY <1>1, <1>2

LEMMA KnownIsResult == \A c : Known(c) \subseteq Result
BY DEF Known, Cached, Result

LEMMA HandleTyped ==
  ASSUME LinkTyped, NEW c \in Commands, NEW n \in Delivery, Handle(c, n)
  PROVE  LinkTyped'
<1>1. CoreTyped /\ NetworkTyped /\ AgentTyped /\ BoundsTyped
      /\ TasksTyped /\ TableTyped /\ FlagsTyped /\ RecordsTyped
  BY DEF LinkTyped, AgentTyped
<1>2. CoreTyped' /\ BoundsTyped'
  <2>1. UNCHANGED <<core, bounds>>
    BY DEF Handle, AnswerKnown, Begin, Launch, Decline, Report, Finish
  <2> QED
    BY <1>1, <2>1, CoreSame, BoundsSame
<1>3. CASE Report(c, n)
  <2>1. TasksTyped'
    <3>1. PICK t : t = NoTask
      OBVIOUS
    <3>2. t \in Task /\ t.phase = "none"
      BY <3>1 DEF NoTask, Task
    <3> QED
      BY <1>1, <1>3, <3>1, <3>2 DEF TasksTyped, Report
  <2>2. NetworkTyped'
    <3>1. task[c][n].socket \in Sockets \cup {NoSocket} /\ task[c][n].result \in Result
      BY <1>1, <1>3 DEF TasksTyped, Task, Report
    <3>2. Observation(c, task[c][n].result) \in ReportRow
      BY <3>1 DEF Observation, ReportRow
    <3>3. up' \in [Sockets -> Seq(ReportRow)]
      BY <1>1, <1>3, <3>1, <3>2, SendUpAppends DEF Report, NetworkTyped
    <3> QED
      BY <1>1, <1>3, <3>3 DEF NetworkTyped, Report
  <2>3. TableTyped' /\ FlagsTyped' /\ RecordsTyped'
    BY <1>1, <1>3, TableShrinks, RecordsSame DEF FlagsTyped, Report
  <2> QED
    BY <1>2, <2>1, <2>2, <2>3 DEF LinkTyped, AgentTyped
<1>4. CASE ~Report(c, n)
  <2>1. NetworkTyped' /\ TableTyped'
    BY <1>1, <1>4, NetworkSame, TableSame
       DEF Handle, AnswerKnown, Begin, Launch, Decline, Finish
  <2>2. FlagsTyped'
    BY <1>1, <1>4 DEF Handle, AnswerKnown, Begin, Launch, Decline, Finish, FlagsTyped
  <2>3. TasksTyped' /\ RecordsTyped'
    <3>1. CASE AnswerKnown(c, n)
      BY <1>1, <3>1, KnownIsResult, SetTaskTyped, RecordsSame DEF AnswerKnown
    <3>2. CASE Begin(c, n)
      BY <1>1, <3>2, SetTaskTyped, BeginJournalTyped DEF Begin
    <3>3. CASE Launch(c, n)
      BY <1>1, <3>3, SetTaskTyped, RecordsSame DEF Launch
    <3>4. CASE Decline(c, n)
      <4>1. "failed" \in Result
        BY DEF Result
      <4> QED
        BY <1>1, <3>4, <4>1, SetTaskTyped, FinishJournalTyped DEF Decline
    <3>5. ASSUME NEW r \in Result, Finish(c, n, r) PROVE TasksTyped' /\ RecordsTyped'
      BY <1>1, <3>5, SetTaskTyped, FinishJournalTyped DEF Finish
    <3> QED
      BY <1>4, <3>1, <3>2, <3>3, <3>4, <3>5 DEF Handle
  <2> QED
    BY <1>2, <2>1, <2>2, <2>3 DEF LinkTyped, AgentTyped
<1> QED
  BY <1>3, <1>4

LEMMA LinkTypedStep == LinkTyped /\ [Next]_vars => LinkTyped'
<1> SUFFICES ASSUME LinkTyped, [Next]_vars PROVE LinkTyped'
  OBVIOUS
<1>1. CASE UNCHANGED vars
  BY <1>1, CoreSame, NetworkSame, AgentSame, BoundsSame DEF vars, LinkTyped
<1> QED
  BY <1>1, SessionTyped, CommandTyped, ReceiveObservationTyped, HandleTyped, DisconnectTyped,
     ReceiveCommandTyped, ReceiveCancelTyped, CrashTyped
     DEF Next

(* Every table, frame and record of the channel keeps its form, the agent   *)
(* never holds more tasks than its limit and the journal never more records *)
(* (satellite_busy in agent.py, _trim in replay.py).                        *)
THEOREM LinkTypeCorrect == Spec => []TypeOK
<1> QED BY LinkTypedInit, LinkTypedStep, LinkTypedIsTypeOK, PTL DEF Spec

-----------------------------------------------------------------------------
(* Verdicts.  While none of a command's deliveries was given up on, the one *)
(* the Core waits for is in one place: a frame, a task or an observation,   *)
(* and what it says of the command is true there already.                   *)

CommandsOf(c) == {f \in FrameRow : f.kind = "command" /\ f.command = c}
ReportsOf(c) == {o \in ReportRow : o.command = c}
Denials(c) == {o \in ReportsOf(c) : o.result \in NeverRan}

Has(q, S) == \E i \in 1..Len(q) : q[i] \in S
HasOne(q, S) == \A i, j \in 1..Len(q) : q[i] \in S /\ q[j] \in S => i = j

Unbroken(c) == verdicts[c] \cap {"timeout", "uncertain", "raised"} = {}
Handled(c) == {n \in Delivery : task[c][n].phase # "none"}
OnItsSocket(c) ==
    /\ \A s \in Sockets :
          Has(down[s], CommandsOf(c)) \/ Has(up[s], ReportsOf(c)) => s = pending[c]
    /\ \A n \in Handled(c) : /\ pending[c] # NoSocket
                             /\ task[c][n].socket \in {NoSocket, pending[c]}
OnePlace(c) ==
    /\ \A n, m \in Handled(c) : n = m
    /\ \A s \in Sockets :
          /\ HasOne(down[s], CommandsOf(c)) /\ HasOne(up[s], ReportsOf(c))
          /\ Has(down[s], CommandsOf(c)) => ~Has(up[s], ReportsOf(c))
          /\ Has(down[s], CommandsOf(c)) \/ Has(up[s], ReportsOf(c)) => Handled(c) = {}
Tracked(c) == Unbroken(c) => OnItsSocket(c) /\ OnePlace(c)

(* Where a command is that may still be told it never ran.                  *)
Denying(t) == t.phase \in {"waiting", "begun"} \/ (t.phase = "reporting" /\ t.result \in NeverRan)
MayDeny(c) ==
    \/ pending[c] = NoSocket
    \/ \E s \in Sockets : Has(down[s], CommandsOf(c)) \/ Has(up[s], Denials(c))
    \/ \E n \in Delivery : Denying(task[c][n])
DenialsHold(c) == verdicts[c] \subseteq NeverRan /\ MayDeny(c) => started[c] = 0

Traced(c) == Tracked(c) /\ DenialsHold(c)

(* A queue that gained nothing of a set.                                    *)
Thinner(p, q, S) == (Has(p, S) => Has(q, S)) /\ (HasOne(q, S) => HasOne(p, S))

LEMMA AppendHas ==
  ASSUME NEW T, NEW q \in Seq(T), NEW e, NEW S
  PROVE  /\ Has(Append(q, e), S) <=> Has(q, S) \/ e \in S
         /\ HasOne(q, S) /\ ~Has(q, S) => HasOne(Append(q, e), S)
         /\ e \notin S => Thinner(Append(q, e), q, S)
<1>1. /\ Len(q) \in Nat /\ Len(Append(q, e)) = Len(q) + 1
      /\ \A i \in 1..Len(q) : Append(q, e)[i] = q[i]
      /\ Append(q, e)[Len(q) + 1] = e
  OBVIOUS
<1>2. PICK p : p = Append(q, e)
  OBVIOUS
<1>3. PICK n \in Nat : n = Len(q)
  BY <1>1
<1>4. /\ Len(p) = n + 1 /\ p[n + 1] = e
      /\ \A i \in 1..n : p[i] = q[i]
      /\ \A i \in 1..n + 1 : i \in 1..n \/ i = n + 1
      /\ n + 1 \in 1..n + 1 /\ \A i \in 1..n : i \in 1..n + 1
  BY <1>1, <1>2, <1>3
<1>5. Has(p, S) <=> Has(q, S) \/ e \in S
  BY <1>3, <1>4 DEF Has
<1>6. HasOne(q, S) /\ ~Has(q, S) => HasOne(p, S)
  BY <1>3, <1>4 DEF Has, HasOne
<1>7. HasOne(q, S) /\ e \notin S => HasOne(p, S)
  BY <1>3, <1>4 DEF HasOne
<1> QED
  BY <1>2, <1>5, <1>6, <1>7 DEF Thinner

LEMMA TailHas ==
  ASSUME NEW T, NEW q \in Seq(T), q # <<>>, NEW S
  PROVE  /\ Head(q) \in S => Has(q, S)
         /\ Thinner(Tail(q), q, S)
         /\ HasOne(q, S) /\ Head(q) \in S => ~Has(Tail(q), S)
<1>1. /\ Len(q) \in Nat \ {0} /\ Len(Tail(q)) = Len(q) - 1 /\ Head(q) = q[1]
      /\ \A i \in 1..Len(q) - 1 : Tail(q)[i] = q[i + 1]
  BY HeadTailProperties
<1>2. PICK p : p = Tail(q)
  OBVIOUS
<1>3. PICK n \in Nat : n = Len(q) - 1
  <2>1. Len(q) - 1 \in Nat
    BY <1>1
  <2> QED
    BY <2>1
<1>4. /\ Len(p) = n /\ Len(q) = n + 1 /\ Head(q) = q[1] /\ 1 \in 1..n + 1
      /\ \A i \in 1..n : p[i] = q[i + 1] /\ i + 1 \in 1..n + 1 /\ i + 1 # 1
      /\ \A i, j \in 1..n : i + 1 = j + 1 => i = j
  BY <1>1, <1>2, <1>3
<1>5. Has(p, S) => Has(q, S)
  BY <1>4 DEF Has
<1>6. HasOne(q, S) => HasOne(p, S)
  BY <1>4 DEF HasOne
<1>7. HasOne(q, S) /\ q[1] \in S => ~Has(p, S)
  BY <1>4 DEF Has, HasOne
<1>8. q[1] \in S => Has(q, S)
  BY <1>4 DEF Has
<1> QED
  BY <1>2, <1>4, <1>5, <1>6, <1>7, <1>8 DEF Thinner

LEMMA EmptyHas == \A S : ~Has(<<>>, S) /\ HasOne(<<>>, S)
BY DEF Has, HasOne

LEMMA SubsetHas ==
  ASSUME NEW q, NEW R, NEW S, R \subseteq S, Has(q, R)
  PROVE  Has(q, S)
BY DEF Has

(* A step that puts nothing of c anywhere.                                  *)
Lighter(c) ==
    /\ verdicts[c] \subseteq verdicts'[c]
    /\ Unbroken(c)' => pending'[c] = pending[c]
    /\ \A s \in Sockets :
          /\ Thinner(down'[s], down[s], CommandsOf(c))
          /\ Thinner(up'[s], up[s], ReportsOf(c))
          /\ Thinner(up'[s], up[s], Denials(c))
    /\ \A n \in Delivery :
          /\ task'[c][n].phase # "none" =>
                /\ task[c][n].phase # "none"
                /\ task'[c][n].socket \in {NoSocket, task[c][n].socket}
          /\ Denying(task'[c][n]) => Denying(task[c][n])
    /\ started'[c] = started[c]

LEMMA LighterKeeps ==
  ASSUME NEW c \in Commands, Traced(c), Lighter(c)
  PROVE  Traced(c)'
<1>1. Tracked(c)'
  <2> SUFFICES ASSUME Unbroken(c)' PROVE OnItsSocket(c)' /\ OnePlace(c)'
    BY DEF Tracked
  <2>1. Unbroken(c) /\ pending'[c] = pending[c]
    BY DEF Lighter, Unbroken
  <2>2. OnItsSocket(c) /\ OnePlace(c)
    BY <2>1 DEF Traced, Tracked
  <2>3. \A n \in Handled(c)' :
          n \in Handled(c) /\ task'[c][n].socket \in {NoSocket, task[c][n].socket}
    BY DEF Lighter, Handled
  <2>4. \A s \in Sockets :
          /\ Has(down'[s], CommandsOf(c)) => Has(down[s], CommandsOf(c))
          /\ Has(up'[s], ReportsOf(c)) => Has(up[s], ReportsOf(c))
          /\ HasOne(down[s], CommandsOf(c)) => HasOne(down'[s], CommandsOf(c))
          /\ HasOne(up[s], ReportsOf(c)) => HasOne(up'[s], ReportsOf(c))
    BY DEF Lighter, Thinner
  <2>5. OnItsSocket(c)'
    BY <2>1, <2>2, <2>3, <2>4 DEF OnItsSocket
  <2>6. OnePlace(c)'
    BY <2>2, <2>3, <2>4 DEF OnePlace
  <2> QED
    BY <2>5, <2>6
<1>2. DenialsHold(c)'
  <2> SUFFICES ASSUME verdicts'[c] \subseteq NeverRan, MayDeny(c)' PROVE started'[c] = 0
    BY DEF DenialsHold
  <2>1. verdicts[c] \subseteq NeverRan /\ pending'[c] = pending[c]
    BY DEF Lighter, Unbroken, NeverRan
  <2>2. MayDeny(c)
    BY <2>1 DEF MayDeny, Lighter, Thinner
  <2> QED
    BY <2>1, <2>2 DEF Traced, DenialsHold, Lighter
<1> QED
  BY <1>1, <1>2 DEF Traced

LEMMA SameIsThinner == \A q, S : Thinner(q, q, S) /\ Thinner(<<>>, q, S)
BY EmptyHas DEF Thinner

LEMMA QueueThinner ==
  ASSUME NEW T, NEW q \in Seq(T), NEW S, NEW p,
         \/ p = q \/ p = <<>> \/ (q # <<>> /\ p = Tail(q))
         \/ \E e : e \notin S /\ p = Append(q, e)
  PROVE  Thinner(p, q, S)
<1>1. CASE p = q \/ p = <<>>
  BY <1>1, SameIsThinner
<1>2. CASE q # <<>> /\ p = Tail(q)
  BY <1>2, TailHas
<1>3. ASSUME NEW e, e \notin S, p = Append(q, e) PROVE Thinner(p, q, S)
  BY <1>3, AppendHas
<1> QED
  BY <1>1, <1>2, <1>3

(* Frames of one command and observations of another have nothing in common. *)
LEMMA RowsOfOthers ==
  /\ \A c, n : CancelFrame(n) \notin CommandsOf(c)
  /\ \A c, d, n : d # c => CommandFrame(d, n) \notin CommandsOf(c)
  /\ \A c, d, r : d # c => /\ Observation(d, r) \notin ReportsOf(c)
                           /\ Observation(d, r) \notin Denials(c)
  /\ \A c : Denials(c) \subseteq ReportsOf(c)
BY DEF CancelFrame, CommandFrame, Observation, CommandsOf, ReportsOf, Denials

(* Nothing happens to the tasks and starts, and queues are emptied at most. *)
LEMMA ClearedIsLighter ==
  ASSUME NEW c \in Commands, verdicts[c] \subseteq verdicts'[c],
         Unbroken(c)' => pending'[c] = pending[c],
         UNCHANGED <<task, started>>,
         \A s \in Sockets : /\ down'[s] = down[s] \/ down'[s] = <<>>
                            /\ up'[s] = up[s] \/ up'[s] = <<>>
  PROVE  Lighter(c)
BY SameIsThinner DEF Lighter

LEMMA SessionTraced ==
  ASSUME LinkTyped, NEW c \in Commands, Traced(c), NEW s \in Sockets,
         Session(s) \/ RefuseCredential(s) \/ Break(s)
  PROVE  Traced(c)'
<1>1. UNCHANGED <<task, started>>
  BY DEF Session, Dial, Register, RefuseDuplicate, PeerLost, Unregister, RefuseCredential, Break,
         agent, memory
<1>2. down \in [Sockets -> Seq(FrameRow)] /\ up \in [Sockets -> Seq(ReportRow)]
  BY DEF LinkTyped, NetworkTyped
<1>3. \A t \in Sockets : /\ down'[t] = down[t] \/ down'[t] = <<>>
                         /\ up'[t] = up[t] \/ up'[t] = <<>>
  <2>1. CASE Break(s)
    BY <1>2, <2>1 DEF Break
  <2>2. CASE Unregister(s)
    BY <1>2, <2>2 DEF Unregister
  <2>3. CASE ~Break(s) /\ ~Unregister(s)
    BY <2>3 DEF Session, Dial, Register, RefuseDuplicate, PeerLost, RefuseCredential, network
  <2> QED
    BY <2>1, <2>2, <2>3
<1>4. verdicts[c] \subseteq verdicts'[c] /\ (Unbroken(c)' => pending'[c] = pending[c])
  <2>1. CASE Unregister(s)
    <3>1. CASE c \in Orphans(s)
      <4>1. verdicts'[c] = verdicts[c] \cup {"uncertain"}
        BY <2>1, <3>1 DEF Unregister
      <4> QED
        BY <4>1 DEF Unbroken
    <3>2. CASE c \notin Orphans(s)
      BY <2>1, <3>2 DEF Unregister
    <3> QED
      BY <3>1, <3>2
  <2>2. CASE ~Unregister(s)
    BY <2>2 DEF Session, Dial, Register, RefuseDuplicate, PeerLost, RefuseCredential, Break, core
  <2> QED
    BY <2>1, <2>2
<1> QED
  BY <1>1, <1>3, <1>4, ClearedIsLighter, LighterKeeps

(* A new delivery finds no earlier one underway.                            *)
LEMMA DispatchTraced ==
  ASSUME LinkTyped, NEW c \in Commands, Traced(c), NEW d \in Commands, Dispatch(d)
  PROVE  Traced(c)'
<1>1. /\ registered \in Sockets /\ UNCHANGED <<up, task, started, verdicts>>
      /\ pending[d] = NoSocket
      /\ pending \in [Commands -> Sockets \cup {NoSocket}]
      /\ pending' = [pending EXCEPT ![d] = registered]
  BY DEF LinkTyped, CoreTyped, SessionShape, Dispatch, Requested, agent, memory
<1>2. PICK k \in FrameRow : k = CommandFrame(d, deliveries[d] + 1)
  BY RequestedTyped DEF Dispatch
<1>3. /\ \A t \in Sockets : t # registered => down'[t] = down[t]
      /\ down'[registered] = down[registered] \/ down'[registered] = Append(down[registered], k)
      /\ down[registered] \in Seq(FrameRow)
  BY <1>1, <1>2, SendDownAppends DEF Dispatch, LinkTyped, NetworkTyped
<1>4. CASE d # c
  <2>1. k \notin CommandsOf(c)
    BY <1>2, <1>4, RowsOfOthers
  <2>2. \A t \in Sockets : Thinner(down'[t], down[t], CommandsOf(c))
    <3> SUFFICES ASSUME NEW t \in Sockets PROVE Thinner(down'[t], down[t], CommandsOf(c))
      OBVIOUS
    <3>1. down[t] \in Seq(FrameRow)
      BY DEF LinkTyped, NetworkTyped
    <3>2. down'[t] = down[t] \/ down'[t] = Append(down[t], k)
      BY <1>3
    <3> QED
      BY <2>1, <3>1, <3>2, QueueThinner
  <2>3. Lighter(c)
    BY <1>1, <1>4, <2>2, SameIsThinner DEF Lighter
  <2> QED
    BY <2>3, LighterKeeps
<1>5. CASE d = c
  <2>1. Tracked(c)'
    <3> SUFFICES ASSUME Unbroken(c)' PROVE OnItsSocket(c)' /\ OnePlace(c)'
      BY DEF Tracked
    <3>1. OnItsSocket(c) /\ OnePlace(c)
      BY <1>1 DEF Traced, Tracked, Unbroken
    <3>2. /\ \A s \in Sockets : ~Has(down[s], CommandsOf(c)) /\ ~Has(up[s], ReportsOf(c))
          /\ Handled(c) = {}
      BY <1>1, <1>5, <3>1, LinkConstants DEF OnItsSocket
    <3>3. Handled(c)' = {}
      BY <1>1, <3>2 DEF Handled
    <3>4. \A s \in Sockets : HasOne(down[s], CommandsOf(c)) /\ HasOne(up[s], ReportsOf(c))
      BY <3>1 DEF OnePlace
    <3>5. \A s \in Sockets : /\ HasOne(down'[s], CommandsOf(c)) /\ HasOne(up'[s], ReportsOf(c))
                             /\ ~Has(up'[s], ReportsOf(c))
                             /\ Has(down'[s], CommandsOf(c)) => s = registered
      <4>1. ASSUME NEW s \in Sockets, s # registered
            PROVE  HasOne(down'[s], CommandsOf(c)) /\ ~Has(down'[s], CommandsOf(c))
        BY <1>3, <3>2, <3>4, <4>1
      <4>2. HasOne(down'[registered], CommandsOf(c))
        <5>1. CASE down'[registered] = down[registered]
          BY <1>1, <3>4, <5>1
        <5>2. CASE down'[registered] = Append(down[registered], k)
          <6>1. HasOne(down[registered], CommandsOf(c)) /\ ~Has(down[registered], CommandsOf(c))
            BY <1>1, <3>2, <3>4
          <6> QED
            BY <1>3, <5>2, <6>1, AppendHas
        <5> QED
          BY <1>3, <5>1, <5>2
      <4> QED
        BY <1>1, <3>2, <3>4, <4>1, <4>2
    <3>6. pending'[c] = registered
      BY <1>1, <1>5
    <3> QED
      BY <3>3, <3>5, <3>6 DEF OnItsSocket, OnePlace
  <2>2. DenialsHold(c)'
    BY <1>1, <1>5 DEF Traced, DenialsHold, MayDeny
  <2> QED
    BY <2>1, <2>2 DEF Traced
<1> QED
  BY <1>4, <1>5

LEMMA CommandTraced ==
  ASSUME LinkTyped, NEW c \in Commands, Traced(c), NEW d \in Commands,
         DispatchOffline(d) \/ DispatchRaises(d) \/ Timeout(d) \/ RequestCancel(d)
  PROVE  Traced(c)'
<1>1. /\ UNCHANGED <<up, task, started>>
      /\ pending \in [Commands -> Sockets \cup {NoSocket}]
      /\ verdicts \in [Commands -> SUBSET Verdict]
      /\ down \in [Sockets -> Seq(FrameRow)]
  BY DEF LinkTyped, CoreTyped, SessionShape, NetworkTyped,
         DispatchOffline, DispatchRaises, Timeout, RequestCancel, Requested, network, agent, memory
<1>2. CASE DispatchOffline(d) \/ DispatchRaises(d) \/ Timeout(d)
  <2>1. PICK v : Conclude(d, v) /\ UNCHANGED down
                 /\ (pending[d] = NoSocket \/ v \in {"timeout", "uncertain"})
    BY <1>2 DEF DispatchOffline, DispatchRaises, Timeout, TimeoutVerdict, Requested, network
  <2>2. verdicts[c] \subseteq verdicts'[c]
    BY <1>1, <2>1 DEF Conclude
  <2>3. Unbroken(c)' => pending'[c] = pending[c]
    <3>1. CASE d # c
      BY <1>1, <2>1, <3>1 DEF Conclude
    <3>2. CASE d = c
      <4>1. verdicts'[c] = verdicts[c] \cup {v} /\ pending'[c] = NoSocket
        BY <1>1, <2>1, <3>2 DEF Conclude
      <4> QED
        BY <2>1, <3>2, <4>1 DEF Unbroken
    <3> QED
      BY <3>1, <3>2
  <2> QED
    BY <1>1, <2>1, <2>2, <2>3, ClearedIsLighter, LighterKeeps
<1>3. CASE RequestCancel(d)
  <2>1. PICK s \in Sockets : s = pending[d]
    BY <1>1, <1>3 DEF RequestCancel
  <2>2. PICK k \in FrameRow : k = CancelFrame(d)
    BY DEF CancelFrame, FrameRow
  <2>3. /\ \A t \in Sockets : t # s => down'[t] = down[t]
        /\ down'[s] = down[s] \/ down'[s] = Append(down[s], k)
    BY <1>3, <2>1, <2>2, SendDownAppends DEF RequestCancel, LinkTyped
  <2>4. \A t \in Sockets : Thinner(down'[t], down[t], CommandsOf(c))
    <3> SUFFICES ASSUME NEW t \in Sockets PROVE Thinner(down'[t], down[t], CommandsOf(c))
      OBVIOUS
    <3>1. down[t] \in Seq(FrameRow) /\ k \notin CommandsOf(c)
      BY <1>1, <2>2, RowsOfOthers
    <3>2. down'[t] = down[t] \/ down'[t] = Append(down[t], k)
      BY <2>3
    <3> QED
      BY <3>1, <3>2, QueueThinner
  <2>5. Lighter(c)
    BY <1>1, <1>3, <2>4, SameIsThinner DEF Lighter, RequestCancel, core
  <2> QED
    BY <2>5, LighterKeeps
<1> QED
  BY <1>2, <1>3

(* The observation the Core reads was the one place of its command.         *)
LEMMA ObservationTraced ==
  ASSUME LinkTyped, NEW c \in Commands, Traced(c), NEW s \in Sockets, ReceiveObservation(s)
  PROVE  Traced(c)'
<1>1. /\ UNCHANGED <<down, task, started>>
      /\ pending \in [Commands -> Sockets \cup {NoSocket}]
      /\ verdicts \in [Commands -> SUBSET Verdict]
      /\ up \in [Sockets -> Seq(ReportRow)]
  BY DEF LinkTyped, CoreTyped, SessionShape, NetworkTyped, ReceiveObservation, agent, memory
<1>2. PICK o \in ReportRow : o = Head(up[s])
  BY ReceiveObservationTyped
<1>3. /\ up[s] # <<>> /\ up'[s] = Tail(up[s])
      /\ \A t \in Sockets : t # s => up'[t] = up[t]
  BY <1>1 DEF ReceiveObservation
<1>4. /\ \A t \in Sockets : Thinner(up'[t], up[t], ReportsOf(c))
      /\ \A t \in Sockets : Thinner(up'[t], up[t], Denials(c))
  <2> SUFFICES ASSUME NEW t \in Sockets, NEW S PROVE Thinner(up'[t], up[t], S)
    OBVIOUS
  <2>1. up[t] \in Seq(ReportRow)
    BY <1>1
  <2>2. up'[t] = up[t] \/ (up[t] # <<>> /\ up'[t] = Tail(up[t]))
    BY <1>3
  <2> QED
    BY <2>1, <2>2, QueueThinner
<1>5. CASE o.command # c \/ pending[c] # s
  <2>1. verdicts'[c] = verdicts[c] /\ pending'[c] = pending[c]
    BY <1>1, <1>2, <1>5 DEF ReceiveObservation, Conclude
  <2>2. Lighter(c)
    BY <1>1, <1>4, <2>1, SameIsThinner DEF Lighter
  <2> QED
    BY <2>2, LighterKeeps
<1>6. CASE o.command = c /\ pending[c] = s
  <2>1. verdicts'[c] = verdicts[c] \cup {o.result} /\ pending'[c] = NoSocket
    BY <1>1, <1>2, <1>6 DEF ReceiveObservation, Conclude
  <2>2. o \in ReportsOf(c) /\ Has(up[s], ReportsOf(c))
    <3>1. o \in ReportsOf(c)
      BY <1>6 DEF ReportsOf
    <3> QED
      BY <1>1, <1>2, <1>3, <3>1, TailHas
  <2>3. Tracked(c)'
    <3> SUFFICES ASSUME Unbroken(c)' PROVE OnItsSocket(c)' /\ OnePlace(c)'
      BY DEF Tracked
    <3>1. OnItsSocket(c) /\ OnePlace(c)
      BY <2>1 DEF Traced, Tracked, Unbroken
    <3>2. Handled(c)' = {}
      BY <1>1, <2>2, <3>1 DEF OnePlace, Handled
    <3>3. \A t \in Sockets : /\ ~Has(down'[t], CommandsOf(c))
                             /\ HasOne(down'[t], CommandsOf(c)) /\ HasOne(up'[t], ReportsOf(c))
      BY <1>1, <1>4, <1>6, <2>2, <3>1 DEF OnItsSocket, OnePlace, Thinner
    <3>4. ~Has(up'[s], ReportsOf(c))
      BY <1>1, <1>2, <1>3, <2>2, <3>1, TailHas DEF OnePlace
    <3>5. \A t \in Sockets : ~Has(up'[t], ReportsOf(c))
      BY <1>3, <1>6, <3>1, <3>4 DEF OnItsSocket
    <3> QED
      BY <3>2, <3>3, <3>5 DEF OnItsSocket, OnePlace
  <2>4. DenialsHold(c)'
    <3> SUFFICES ASSUME verdicts'[c] \subseteq NeverRan PROVE started[c] = 0
      BY <1>1 DEF DenialsHold
    <3>1. o \in Denials(c) /\ verdicts[c] \subseteq NeverRan
      BY <2>1, <2>2 DEF Denials
    <3>2. Has(up[s], Denials(c))
      BY <1>1, <1>2, <1>3, <3>1, TailHas
    <3> QED
      BY <3>1, <3>2 DEF Traced, DenialsHold, MayDeny
  <2> QED
    BY <2>3, <2>4 DEF Traced
<1> QED
  BY <1>5, <1>6

(* The frame the agent reads was the one place of its command, and becomes  *)
(* a task on the same socket or a refusal there.                            *)
LEMMA ReceiveCommandTraced ==
  ASSUME LinkTyped, NEW c \in Commands, Traced(c), ReceiveCommand
  PROVE  Traced(c)'
<1>1. /\ link \in Sockets /\ down[link] # <<>> /\ down[link] \in Seq(FrameRow)
      /\ down'[link] = Tail(down[link])
      /\ \A t \in Sockets : t # link => down'[t] = down[t]
  BY ReadFrame DEF ReceiveCommand, LinkTyped, NetworkTyped
<1>2. PICK f \in FrameRow : f = Head(down[link])
  BY ReadFrame DEF ReceiveCommand
<1>3. /\ f.command \in Commands /\ f.delivery \in Delivery \cup {0} /\ f.kind = "command"
      /\ UNCHANGED <<verdicts, pending, started>>
      /\ task \in [Commands -> [Delivery -> Task]]
      /\ down \in [Sockets -> Seq(FrameRow)] /\ up \in [Sockets -> Seq(ReportRow)]
  BY <1>2 DEF FrameRow, ReceiveCommand, core, LinkTyped, AgentTyped, TasksTyped, NetworkTyped
<1>4. ASSUME NEW t \in Sockets PROVE Thinner(down'[t], down[t], CommandsOf(c))
  <2>1. down'[t] = down[t] \/ (down[t] # <<>> /\ down'[t] = Tail(down[t]))
    BY <1>1
  <2>2. down[t] \in Seq(FrameRow)
    BY <1>3
  <2> QED
    BY <2>1, <2>2, QueueThinner
<1>5. PICK k \in ReportRow : k = Observation(f.command, "busy")
  BY <1>3 DEF Observation, ReportRow, Result
<1>6. PICK new : new = [phase |-> "waiting", socket |-> link, result |-> "none"]
  OBVIOUS
<1>7. \/ task' = [task EXCEPT ![f.command][f.delivery] = new] /\ UNCHANGED up
      \/ SendUp(link, k) /\ UNCHANGED task
  BY <1>2, <1>5, <1>6 DEF ReceiveCommand
<1>8. /\ \A t \in Sockets : t # link => up'[t] = up[t]
      /\ up'[link] = up[link] \/ up'[link] = Append(up[link], k)
  <2>1. CASE UNCHANGED up
    BY <2>1
  <2>2. CASE SendUp(link, k)
    BY <1>1, <2>2, SendUpAppends DEF LinkTyped
  <2> QED
    BY <1>7, <2>1, <2>2
<1>9. \A n \in Delivery : /\ task'[c][n] = task[c][n]
                             \/ (f.command = c /\ task'[c][n] = new /\ n = f.delivery
                                 /\ UNCHANGED up)
  BY <1>3, <1>7
<1>10. CASE f.command # c
  <2>1. ASSUME NEW t \in Sockets
        PROVE  Thinner(up'[t], up[t], ReportsOf(c)) /\ Thinner(up'[t], up[t], Denials(c))
    <3>1. k \notin ReportsOf(c) /\ k \notin Denials(c)
      BY <1>5, <1>10, RowsOfOthers
    <3>2. up[t] \in Seq(ReportRow) /\ (up'[t] = up[t] \/ up'[t] = Append(up[t], k))
      BY <1>3, <1>8
    <3> QED
      BY <3>1, <3>2, QueueThinner
  <2>2. \A n \in Delivery : task'[c][n] = task[c][n]
    BY <1>9, <1>10
  <2>3. Lighter(c)
    BY <1>3, <1>4, <2>1, <2>2 DEF Lighter
  <2> QED
    BY <2>3, LighterKeeps
<1>11. CASE f.command = c
  <2>1. Has(down[link], CommandsOf(c)) /\ Head(down[link]) \in CommandsOf(c)
    <3>1. f \in CommandsOf(c)
      BY <1>3, <1>11 DEF CommandsOf
    <3> QED
      BY <1>1, <1>2, <3>1, TailHas
  <2>2. Tracked(c)'
    <3> SUFFICES ASSUME Unbroken(c)' PROVE OnItsSocket(c)' /\ OnePlace(c)'
      BY DEF Tracked
    <3>1. OnItsSocket(c) /\ OnePlace(c) /\ link = pending[c]
      BY <1>1, <1>3, <2>1 DEF Traced, Tracked, Unbroken, OnItsSocket
    <3>2. Handled(c) = {} /\ ~Has(up[link], ReportsOf(c))
      BY <1>1, <2>1, <3>1 DEF OnePlace
    <3>3. \A t \in Sockets : /\ ~Has(down'[t], CommandsOf(c))
                             /\ HasOne(down'[t], CommandsOf(c))
      <4>1. ~Has(down'[link], CommandsOf(c))
        BY <1>1, <2>1, <3>1, TailHas DEF OnePlace
      <4>2. \A t \in Sockets : t # link => ~Has(down'[t], CommandsOf(c))
        BY <1>1, <3>1 DEF OnItsSocket
      <4>3. \A t \in Sockets : HasOne(down'[t], CommandsOf(c))
        BY <1>4, <3>1 DEF OnePlace, Thinner
      <4> QED
        BY <4>1, <4>2, <4>3
    <3>4. \A t \in Sockets : t # link => ~Has(up'[t], ReportsOf(c))
      BY <1>8, <3>1 DEF OnItsSocket
    <3>5. \A t \in Sockets : HasOne(up'[t], ReportsOf(c))
      <4>1. HasOne(up'[link], ReportsOf(c))
        <5>1. CASE up'[link] = up[link]
          BY <1>1, <3>1, <5>1 DEF OnePlace
        <5>2. CASE up'[link] = Append(up[link], k)
          <6>1. up[link] \in Seq(ReportRow) /\ HasOne(up[link], ReportsOf(c))
            BY <1>1, <1>3, <3>1 DEF OnePlace
          <6> QED
            BY <3>2, <5>2, <6>1, AppendHas
        <5> QED
          BY <1>8, <5>1, <5>2
      <4>2. \A t \in Sockets : t # link => HasOne(up'[t], ReportsOf(c))
        BY <1>8, <3>1 DEF OnePlace
      <4> QED
        BY <4>1, <4>2
    <3>6. \A n \in Handled(c)' : /\ n = f.delivery /\ task'[c][n].socket = link
                                 /\ UNCHANGED up
      BY <1>6, <1>9, <3>2 DEF Handled
    <3>7. Handled(c)' # {} => ~Has(up'[link], ReportsOf(c))
      BY <3>2, <3>6
    <3>8. pending'[c] = link /\ link # NoSocket
      BY <1>1, <1>3, <3>1, LinkConstants
    <3>9. OnItsSocket(c)'
      BY <3>3, <3>4, <3>6, <3>8 DEF OnItsSocket
    <3>10. OnePlace(c)'
      BY <3>3, <3>4, <3>5, <3>6, <3>7 DEF OnePlace
    <3> QED
      BY <3>9, <3>10
  <2>3. DenialsHold(c)'
    BY <1>1, <1>3, <2>1 DEF Traced, DenialsHold, MayDeny
  <2> QED
    BY <2>2, <2>3 DEF Traced
<1> QED
  BY <1>10, <1>11

LEMMA LinkTraced ==
  ASSUME LinkTyped, NEW c \in Commands, Traced(c), Disconnect \/ ReceiveCancel \/ CrashAgent
  PROVE  Traced(c)'
<1>1. /\ UNCHANGED <<verdicts, pending, started, up>>
      /\ link \in Sockets \cup {NoSocket}
      /\ task \in [Commands -> [Delivery -> Task]]
      /\ down \in [Sockets -> Seq(FrameRow)]
  BY DEF Disconnect, ReceiveCancel, CrashAgent, core, LinkTyped, AgentTyped, TasksTyped,
         FlagsTyped, NetworkTyped
<1>2. ASSUME NEW t \in Sockets PROVE Thinner(down'[t], down[t], CommandsOf(c))
  <2>1. \/ down'[t] = down[t] \/ down'[t] = <<>>
        \/ (down[t] # <<>> /\ down'[t] = Tail(down[t]))
    <3>1. CASE Disconnect \/ CrashAgent
      BY <1>1, <3>1 DEF Disconnect, CrashAgent
    <3>2. CASE ReceiveCancel
      BY <3>2, ReadFrame DEF ReceiveCancel
    <3> QED
      BY <3>1, <3>2
  <2>2. down[t] \in Seq(FrameRow)
    BY <1>1
  <2> QED
    BY <2>1, <2>2, QueueThinner
<1>3. ASSUME NEW n \in Delivery
      PROVE  /\ task'[c][n].phase # "none" =>
                   /\ task[c][n].phase # "none"
                   /\ task'[c][n].socket \in {NoSocket, task[c][n].socket}
             /\ Denying(task'[c][n]) => Denying(task[c][n])
  <2>1. PICK t \in Task : t = task[c][n]
    BY <1>1
  <2>2. CASE Disconnect
    <3>1. task'[c][n] = [t EXCEPT !.socket = NoSocket]
      BY <2>1, <2>2 DEF Disconnect
    <3>2. /\ [t EXCEPT !.socket = NoSocket].phase = t.phase
          /\ [t EXCEPT !.socket = NoSocket].result = t.result
          /\ [t EXCEPT !.socket = NoSocket].socket = NoSocket
      BY DEF Task
    <3> QED
      BY <2>1, <3>1, <3>2 DEF Denying
  <2>3. CASE ReceiveCancel
    BY <2>3 DEF ReceiveCancel
  <2>4. CASE CrashAgent
    <3>1. task'[c][n].phase = "none"
      BY <2>4 DEF CrashAgent, NoTask
    <3> QED
      BY <3>1 DEF Denying
  <2> QED
    BY <2>2, <2>3, <2>4
<1>4. Lighter(c)
  BY <1>1, <1>2, <1>3, SameIsThinner DEF Lighter
<1> QED
  BY <1>4, LighterKeeps

(* A task that goes on stays where it is; until its process is started it   *)
(* can be told off, and afterwards what it says is no denial.               *)
LEMMA SetTaskIsLighter ==
  ASSUME LinkTyped, NEW c \in Commands, NEW d \in Commands, NEW n \in Delivery, NEW p, NEW r,
         SetTask(d, n, p, r),
         p \in {"begun", "running", "reporting"}, r \in Result \cup {"none"},
         task[d][n].phase # "none",
         p = "begun" \/ (p = "reporting" /\ r \in NeverRan) => task[d][n].phase = "waiting",
         UNCHANGED <<core, network>>, started'[c] = started[c]
  PROVE  Lighter(c)
<1>1. task \in [Commands -> [Delivery -> Task]]
  BY DEF LinkTyped, AgentTyped, TasksTyped
<1>2. /\ task'[d][n].phase = p /\ task'[d][n].result = r
      /\ task'[d][n].socket = task[d][n].socket
      /\ \A x \in Commands : \A m \in Delivery : x # d \/ m # n => task'[x][m] = task[x][m]
  BY <1>1, SetTaskRow
<1>3. ASSUME NEW m \in Delivery
      PROVE  /\ task'[c][m].phase # "none" =>
                   /\ task[c][m].phase # "none"
                   /\ task'[c][m].socket \in {NoSocket, task[c][m].socket}
             /\ Denying(task'[c][m]) => Denying(task[c][m])
  <2>1. CASE c = d /\ m = n
    BY <1>2, <2>1 DEF Denying
  <2>2. CASE c # d \/ m # n
    BY <1>2, <2>2
  <2> QED
    BY <2>1, <2>2
<1> QED
  BY <1>3, SameIsThinner DEF Lighter, core, network

LEMMA LaunchTraced ==
  ASSUME LinkTyped, NEW c \in Commands, Traced(c), NEW d \in Commands, NEW n \in Delivery,
         Launch(d, n)
  PROVE  Traced(c)'
<1>1. /\ SetTask(d, n, "running", "none") /\ task[d][n].phase = "begun"
      /\ UNCHANGED <<core, network>> /\ "none" \in Result \cup {"none"}
      /\ task \in [Commands -> [Delivery -> Task]]
      /\ started' = [started EXCEPT ![d] = @ + 1] /\ started \in [Commands -> Nat]
  BY DEF Launch, LinkTyped, AgentTyped, TasksTyped, FlagsTyped
<1>2. CASE d # c
  <2>1. started'[c] = started[c]
    BY <1>1, <1>2
  <2>2. Lighter(c)
    BY <1>1, <2>1, SetTaskIsLighter
  <2> QED
    BY <2>2, LighterKeeps
<1>3. CASE d = c
  <2>1. /\ task'[c][n].phase = "running" /\ task'[c][n].socket = task[c][n].socket
        /\ \A m \in Delivery : m # n => task'[c][m] = task[c][m]
    BY <1>1, <1>3, SetTaskRow
  <2>2. n \in Handled(c) /\ Handled(c)' = Handled(c)
    BY <1>1, <1>3, <2>1 DEF Handled
  <2>3. Tracked(c)'
    <3>1. Tracked(c)
      BY DEF Traced
    <3>2. \A m \in Delivery : task'[c][m].socket = task[c][m].socket
      BY <2>1
    <3> QED
      BY <1>1, <2>2, <3>1, <3>2
         DEF Tracked, Unbroken, OnItsSocket, OnePlace, core, network
  <2>4. DenialsHold(c)'
    <3> SUFFICES ASSUME verdicts'[c] \subseteq NeverRan PROVE ~MayDeny(c)'
      BY DEF DenialsHold
    <3>1. OnItsSocket(c) /\ OnePlace(c)
      BY <1>1 DEF Traced, Tracked, Unbroken, NeverRan, core
    <3>2. pending'[c] # NoSocket
      BY <1>1, <2>2, <3>1 DEF OnItsSocket, core
    <3>3. \A s \in Sockets : ~Has(down'[s], CommandsOf(c)) /\ ~Has(up'[s], Denials(c))
      <4>1. \A s \in Sockets : ~Has(down[s], CommandsOf(c)) /\ ~Has(up[s], ReportsOf(c))
        BY <2>2, <3>1 DEF OnePlace
      <4> QED
        BY <1>1, <4>1, SubsetHas, RowsOfOthers DEF network
    <3>4. ASSUME NEW m \in Delivery PROVE ~Denying(task'[c][m])
      <4>1. CASE m = n
        BY <2>1, <4>1 DEF Denying
      <4>2. CASE m # n
        <5>1. m \notin Handled(c)'
          BY <2>2, <3>1, <4>2 DEF OnePlace
        <5> QED
          BY <5>1 DEF Handled, Denying
      <4> QED
        BY <4>1, <4>2
    <3> QED
      BY <3>2, <3>3, <3>4 DEF MayDeny
  <2> QED
    BY <2>3, <2>4 DEF Traced
<1> QED
  BY <1>2, <1>3

(* The task that reports was the one place of its command; its observation  *)
(* goes to the socket the command came from, or is lost.                    *)
LEMMA ReportTraced ==
  ASSUME LinkTyped, NEW c \in Commands, Traced(c), NEW d \in Commands, NEW n \in Delivery,
         Report(d, n)
  PROVE  Traced(c)'
<1>1. /\ task[d][n].phase = "reporting"
      /\ UNCHANGED <<verdicts, pending, down, started>>
      /\ task \in [Commands -> [Delivery -> Task]]
      /\ task[d][n].socket \in Sockets \cup {NoSocket} /\ task[d][n].result \in Result
      /\ up \in [Sockets -> Seq(ReportRow)]
  BY DEF Report, core, LinkTyped, AgentTyped, TasksTyped, NetworkTyped, Task
<1>2. PICK s \in Sockets \cup {NoSocket} : s = task[d][n].socket
  BY <1>1
<1>3. PICK k \in ReportRow : k = Observation(d, task[d][n].result)
  BY <1>1 DEF Observation, ReportRow
<1>4. /\ \A t \in Sockets : t # s => up'[t] = up[t]
      /\ s \in Sockets => up'[s] = up[s] \/ up'[s] = Append(up[s], k)
  <2>1. CASE UNCHANGED up
    BY <2>1
  <2>2. CASE SendUp(s, k)
    BY <1>2, <2>2, SendUpAppends DEF LinkTyped
  <2> QED
    BY <1>2, <1>3, <2>1, <2>2 DEF Report
<1>5. /\ task'[d][n].phase = "none"
      /\ \A x \in Commands : \A m \in Delivery : x # d \/ m # n => task'[x][m] = task[x][m]
  <2>1. PICK t : t = NoTask
    OBVIOUS
  <2>2. t.phase = "none" /\ task' = [task EXCEPT ![d][n] = t]
    BY <2>1 DEF NoTask, Report
  <2> QED
    BY <1>1, <2>2
<1>6. ASSUME NEW m \in Delivery
      PROVE  /\ task'[c][m].phase # "none" => task'[c][m] = task[c][m]
             /\ Denying(task'[c][m]) => Denying(task[c][m])
  <2>1. CASE c = d /\ m = n
    BY <1>5, <2>1 DEF Denying
  <2>2. CASE c # d \/ m # n
    BY <1>5, <2>2
  <2> QED
    BY <2>1, <2>2
<1>7. CASE d # c
  <2>1. ASSUME NEW t \in Sockets
        PROVE  Thinner(up'[t], up[t], ReportsOf(c)) /\ Thinner(up'[t], up[t], Denials(c))
    <3>1. k \notin ReportsOf(c) /\ k \notin Denials(c)
      BY <1>3, <1>7, RowsOfOthers
    <3>2. up[t] \in Seq(ReportRow) /\ (up'[t] = up[t] \/ up'[t] = Append(up[t], k))
      BY <1>1, <1>4
    <3> QED
      BY <3>1, <3>2, QueueThinner
  <2>2. Lighter(c)
    BY <1>1, <1>6, <2>1, SameIsThinner DEF Lighter
  <2> QED
    BY <2>2, LighterKeeps
<1>8. CASE d = c
  <2>1. n \in Handled(c) /\ Handled(c)' = Handled(c) \ {n}
    BY <1>1, <1>5, <1>8 DEF Handled
  <2>2. Tracked(c)'
    <3> SUFFICES ASSUME Unbroken(c)' PROVE OnItsSocket(c)' /\ OnePlace(c)'
      BY DEF Tracked
    <3>1. OnItsSocket(c) /\ OnePlace(c)
      BY <1>1 DEF Traced, Tracked, Unbroken
    <3>2. Handled(c)' = {}
      BY <2>1, <3>1 DEF OnePlace
    <3>3. /\ \A t \in Sockets : ~Has(down[t], CommandsOf(c)) /\ ~Has(up[t], ReportsOf(c))
          /\ \A t \in Sockets : HasOne(down[t], CommandsOf(c)) /\ HasOne(up[t], ReportsOf(c))
      BY <2>1, <3>1 DEF OnePlace
    <3>4. s \in {NoSocket, pending[c]}
      BY <1>2, <1>8, <2>1, <3>1 DEF OnItsSocket
    <3>5. ASSUME NEW t \in Sockets
          PROVE  /\ HasOne(up'[t], ReportsOf(c))
                 /\ Has(up'[t], ReportsOf(c)) => t = pending'[c]
      <4>1. CASE up'[t] = up[t]
        BY <3>3, <4>1
      <4>2. CASE up'[t] # up[t]
        <5>1. t = s /\ up'[t] = Append(up[t], k) /\ up[t] \in Seq(ReportRow)
          BY <1>1, <1>4, <4>2
        <5>2. HasOne(up'[t], ReportsOf(c))
          BY <3>3, <5>1, AppendHas
        <5>3. t = pending'[c]
          BY <1>1, <3>4, <5>1, LinkConstants
        <5> QED
          BY <5>2, <5>3
      <4> QED
        BY <4>1, <4>2
    <3>6. OnItsSocket(c)'
      BY <1>1, <3>2, <3>3, <3>5 DEF OnItsSocket
    <3>7. OnePlace(c)'
      BY <1>1, <3>2, <3>3, <3>5 DEF OnePlace
    <3> QED
      BY <3>6, <3>7
  <2>3. DenialsHold(c)'
    <3> SUFFICES ASSUME verdicts[c] \subseteq NeverRan, MayDeny(c)' PROVE MayDeny(c)
      BY <1>1 DEF Traced, DenialsHold
    <3>1. ASSUME NEW t \in Sockets, Has(up'[t], Denials(c)) PROVE MayDeny(c)
      <4>1. CASE up'[t] = up[t]
        BY <3>1, <4>1 DEF MayDeny
      <4>2. CASE up'[t] = Append(up[t], k)
        <5>1. Has(up[t], Denials(c)) \/ k \in Denials(c)
          BY <1>1, <3>1, <4>2, AppendHas
        <5>2. k \in Denials(c) => task[c][n].result \in NeverRan
          BY <1>3, <1>8 DEF Denials, Observation
        <5>3. k \in Denials(c) => Denying(task[c][n])
          BY <1>1, <1>8, <5>2 DEF Denying
        <5> QED
          BY <5>1, <5>3 DEF MayDeny
      <4> QED
        BY <1>4, <4>1, <4>2
    <3> QED
      BY <1>1, <1>6, <3>1 DEF MayDeny
  <2> QED
    BY <2>2, <2>3 DEF Traced
<1> QED
  BY <1>7, <1>8

LEMMA HandleTraced ==
  ASSUME LinkTyped, NEW c \in Commands, Traced(c), NEW d \in Commands, NEW n \in Delivery,
         Handle(d, n)
  PROVE  Traced(c)'
<1>1. CASE AnswerKnown(d, n)
  <2>1. PICK r \in Result : SetTask(d, n, "reporting", r)
    BY <1>1, KnownIsResult DEF AnswerKnown
  <2>2. task[d][n].phase = "waiting" /\ UNCHANGED <<core, network, started>>
    BY <1>1 DEF AnswerKnown, Admitted
  <2>3. Lighter(c)
    BY <2>1, <2>2, SetTaskIsLighter
  <2> QED
    BY <2>3, LighterKeeps
<1>2. CASE Begin(d, n)
  <2>1. /\ SetTask(d, n, "begun", "none") /\ task[d][n].phase = "waiting"
        /\ UNCHANGED <<core, network, started>> /\ "none" \in Result \cup {"none"}
    BY <1>2 DEF Begin, Admitted
  <2>2. Lighter(c)
    BY <2>1, SetTaskIsLighter
  <2> QED
    BY <2>2, LighterKeeps
<1>3. CASE Decline(d, n)
  <2>1. /\ SetTask(d, n, "reporting", "failed") /\ task[d][n].phase = "begun"
        /\ UNCHANGED <<core, network, started>>
        /\ "failed" \in Result \cup {"none"} /\ "failed" \notin NeverRan
    BY <1>3 DEF Decline, NeverRan, Result
  <2>2. Lighter(c)
    BY <2>1, SetTaskIsLighter
  <2> QED
    BY <2>2, LighterKeeps
<1>4. ASSUME NEW r \in Result, Finish(d, n, r) PROVE Traced(c)'
  <2>1. /\ SetTask(d, n, "reporting", r) /\ task[d][n].phase = "running"
        /\ UNCHANGED <<core, network, started>>
        /\ r \notin NeverRan
    BY <1>4 DEF Finish, NeverRan, Ends
  <2>2. Lighter(c)
    BY <2>1, SetTaskIsLighter
  <2> QED
    BY <2>2, LighterKeeps
<1> QED
  BY <1>1, <1>2, <1>3, <1>4, LaunchTraced, ReportTraced DEF Handle

LEMMA TracedInit == Init => \A c \in Commands : Traced(c)
<1> SUFFICES ASSUME Init, NEW c \in Commands PROVE Traced(c)
  OBVIOUS
<1>1. /\ \A s \in Sockets : down[s] = <<>> /\ up[s] = <<>>
      /\ started[c] = 0
      /\ \A n \in Delivery : task[c][n].phase = "none"
  BY DEF Init, NoTask
<1>2. Tracked(c)
  BY <1>1, EmptyHas DEF Tracked, OnItsSocket, OnePlace, Handled
<1>3. DenialsHold(c)
  BY <1>1 DEF DenialsHold
<1> QED
  BY <1>2, <1>3 DEF Traced

LEMMA TracedStep ==
  ASSUME LinkTyped, [Next]_vars, NEW c \in Commands, Traced(c)
  PROVE  Traced(c)'
<1>1. CASE UNCHANGED vars
  <2>1. Lighter(c)
    BY <1>1, SameIsThinner DEF Lighter, vars, core, network, agent, memory
  <2> QED
    BY <2>1, LighterKeeps
<1> QED
  BY <1>1, SessionTraced, DispatchTraced, CommandTraced, ObservationTraced, HandleTraced,
     ReceiveCommandTraced, LinkTraced
     DEF Next

-----------------------------------------------------------------------------
(* Ends.  What is said of a command anywhere between its task and the tool  *)
(* service; "uncertain", "unstarted" and "busy" say nothing of its end.     *)

Final == {"succeeded", "failed", "stopped", "unstopped"}
Neutral == {"uncertain", "unstarted", "busy"}
Heard(c) == {r \in Result :
    \/ r \in verdicts[c]
    \/ \E n \in Delivery : task[c][n].result = r
    \/ \E s \in Sockets : Contains(up[s], Observation(c, r))
    \/ Contains(terminal, Observation(c, r))}
Live(c) == {n \in Delivery : task[c][n].phase \in {"begun", "running"}}

(* A process that runs was started, and only it can succeed.                *)
SuccessIsReal(c) ==
    /\ "succeeded" \in Heard(c) => started[c] > 0
    /\ \A n \in Delivery : task[c][n].phase = "running" => started[c] > 0

(* The one delivery that may still end a workflow has not been heard of     *)
(* yet, and once it was the journal forbids another.                        *)
OneEnd(c) ==
    /\ \A r1, r2 \in Heard(c) \cap Final : r1 = r2
    /\ \A n \in Live(c) : Live(c) = {n} /\ Heard(c) \cap Final = {}
    /\ Live(c) # {} \/ Heard(c) \cap Final # {} => Contains(durable, c)

Ending(c, n, r) == (Decline(c, n) /\ r = "failed") \/ (r \in Result /\ Finish(c, n, r))
EndsNow(c) == \E n \in Delivery : \E r \in Result : Ending(c, n, r)

LEMMA ContainsHas == \A q, x : Contains(q, x) <=> Has(q, {x})
BY DEF Contains, Has

(* A step that lets nothing be heard of c but what is neutral.              *)
LEMMA HeardGrows ==
  ASSUME NEW c \in Commands, NEW X,
         verdicts'[c] \cap Result \subseteq Heard(c) \cup X,
         \A n \in Delivery : task'[c][n].result \in Result => task'[c][n].result \in Heard(c) \cup X,
         \A s \in Sockets : \A r \in Result :
            Contains(up'[s], Observation(c, r)) =>
               Contains(up[s], Observation(c, r)) \/ r \in Heard(c) \cup X,
         \A r \in Result : Contains(terminal', Observation(c, r)) =>
               Contains(terminal, Observation(c, r)) \/ r \in X
  PROVE  Heard(c)' \subseteq Heard(c) \cup X
BY DEF Heard

LEMMA HeardThere ==
  ASSUME NEW c \in Commands
  PROVE  /\ verdicts[c] \cap Result \subseteq Heard(c)
         /\ \A n \in Delivery : task[c][n].result \in Result => task[c][n].result \in Heard(c)
         /\ \A s \in Sockets : \A r \in Result :
               Contains(up[s], Observation(c, r)) => r \in Heard(c)
         /\ \A r \in Result : Contains(terminal, Observation(c, r)) => r \in Heard(c)
         /\ Cached(c) \subseteq Heard(c)
BY DEF Heard, Cached

(* Only what the step puts there is heard on a socket anew.                 *)
LEMMA ThinnerHeard ==
  ASSUME NEW q \in Seq(ReportRow), NEW p, NEW x,
         \/ p = q \/ p = <<>> \/ (q # <<>> /\ p = Tail(q))
         \/ \E e : e # x /\ p = Append(q, e)
  PROVE  Contains(p, x) => Contains(q, x)
<1>1. Thinner(p, q, {x})
  BY QueueThinner
<1> QED
  BY <1>1, ContainsHas DEF Thinner

LEMMA SessionHeard ==
  ASSUME LinkTyped, NEW c \in Commands, NEW s \in Sockets,
         Session(s) \/ RefuseCredential(s) \/ Break(s)
  PROVE  Heard(c)' \subseteq Heard(c) \cup Neutral
<1>1. UNCHANGED <<task, terminal>>
  BY DEF Session, Dial, Register, RefuseDuplicate, PeerLost, Unregister, RefuseCredential, Break,
         agent, memory
<1>2. ASSUME NEW t \in Sockets, NEW x PROVE Contains(up'[t], x) => Contains(up[t], x)
  <2>1. up \in [Sockets -> Seq(ReportRow)]
    BY DEF LinkTyped, NetworkTyped
  <2>2. up'[t] = up[t] \/ up'[t] = <<>>
    BY <2>1 DEF Session, Dial, Register, RefuseDuplicate, PeerLost, Unregister,
                RefuseCredential, Break, network
  <2> QED
    BY <2>1, <2>2, ThinnerHeard
<1>3. verdicts'[c] \subseteq verdicts[c] \cup {"uncertain"}
  BY DEF Session, Dial, Register, RefuseDuplicate, PeerLost, Unregister, RefuseCredential, Break,
         core
<1>4. verdicts'[c] \cap Result \subseteq Heard(c) \cup Neutral
  BY <1>3, HeardThere DEF Neutral
<1> QED
  BY <1>1, <1>2, <1>4, HeardThere, HeardGrows

LEMMA CommandHeard ==
  ASSUME LinkTyped, NEW c \in Commands, NEW d \in Commands,
         \/ Dispatch(d) \/ DispatchOffline(d) \/ DispatchRaises(d) \/ Timeout(d)
         \/ RequestCancel(d)
  PROVE  Heard(c)' \subseteq Heard(c) \cup Neutral
<1>1. UNCHANGED <<task, terminal, up>>
  BY DEF Dispatch, DispatchOffline, DispatchRaises, Timeout, RequestCancel, Requested, agent,
         memory, network
<1>2. verdicts'[c] \subseteq verdicts[c] \cup {"offline", "raised", "timeout", "uncertain"}
  <2>1. verdicts \in [Commands -> SUBSET Verdict]
    BY DEF LinkTyped, CoreTyped
  <2> QED
    BY <2>1 DEF Dispatch, DispatchOffline, DispatchRaises, Timeout, TimeoutVerdict, RequestCancel,
                Requested, Conclude, core
<1>3. verdicts'[c] \cap Result \subseteq Heard(c) \cup Neutral
  BY <1>2, HeardThere DEF Neutral, Result
<1> QED
  BY <1>1, <1>3, HeardThere, HeardGrows

LEMMA ObservationHeard ==
  ASSUME LinkTyped, NEW c \in Commands, NEW s \in Sockets, ReceiveObservation(s)
  PROVE  Heard(c)' \subseteq Heard(c) \cup Neutral
<1>1. /\ UNCHANGED <<task, terminal>>
      /\ up \in [Sockets -> Seq(ReportRow)] /\ up[s] # <<>>
      /\ verdicts \in [Commands -> SUBSET Verdict]
      /\ up' = [up EXCEPT ![s] = Tail(up[s])]
  BY DEF ReceiveObservation, agent, memory, LinkTyped, NetworkTyped, CoreTyped
<1>2. PICK o \in ReportRow : o = Head(up[s])
  BY ReceiveObservationTyped
<1>3. Contains(up[s], o)
  <2>1. Has(up[s], {o})
    BY <1>1, <1>2, TailHas
  <2> QED
    BY <2>1, ContainsHas
<1>4. ASSUME NEW t \in Sockets, NEW x PROVE Contains(up'[t], x) => Contains(up[t], x)
  <2>1. up'[t] = up[t] \/ (up[t] # <<>> /\ up'[t] = Tail(up[t]))
    BY <1>1
  <2> QED
    BY <1>1, <2>1, ThinnerHeard
<1>5. verdicts'[c] \subseteq Heard(c) \cup verdicts[c]
  <2>1. CASE o.command = c
    <3>1. verdicts'[c] \subseteq verdicts[c] \cup {o.result}
      BY <1>1, <1>2, <2>1 DEF ReceiveObservation, Conclude
    <3>2. o = Observation(c, o.result) /\ o.result \in Result
      BY <2>1 DEF ReportRow, Observation
    <3>3. o.result \in Heard(c)
      BY <1>3, <3>2, HeardThere
    <3> QED
      BY <3>1, <3>3
  <2>2. CASE o.command # c
    BY <1>1, <1>2, <2>2 DEF ReceiveObservation, Conclude
  <2> QED
    BY <2>1, <2>2
<1>6. verdicts'[c] \cap Result \subseteq Heard(c) \cup Neutral
  BY <1>5, HeardThere
<1> QED
  BY <1>1, <1>4, <1>6, HeardThere, HeardGrows

LEMMA AgentHeard ==
  ASSUME LinkTyped, NEW c \in Commands,
         Disconnect \/ ReceiveCommand \/ ReceiveCancel \/ CrashAgent
  PROVE  Heard(c)' \subseteq Heard(c) \cup Neutral
<1>1. /\ UNCHANGED verdicts
      /\ task \in [Commands -> [Delivery -> Task]]
      /\ up \in [Sockets -> Seq(ReportRow)]
      /\ terminal' = terminal \/ terminal' = <<>>
  BY DEF Disconnect, ReceiveCommand, ReceiveCancel, CrashAgent, core, LinkTyped, NetworkTyped,
         AgentTyped, TasksTyped
<1>2. ASSUME NEW n \in Delivery
      PROVE  task'[c][n].result = task[c][n].result \/ task'[c][n].result = "none"
  <2>1. PICK t \in Task : t = task[c][n]
    BY <1>1
  <2>2. CASE Disconnect
    <3>1. task'[c][n] = [t EXCEPT !.socket = NoSocket]
      BY <2>1, <2>2 DEF Disconnect
    <3>2. [t EXCEPT !.socket = NoSocket].result = t.result
      BY DEF Task
    <3> QED
      BY <2>1, <3>1, <3>2
  <2>3. CASE ReceiveCommand
    <3>1. PICK f, new : /\ new = [phase |-> "waiting", socket |-> link, result |-> "none"]
                        /\ task' = task \/ task' = [task EXCEPT ![f.command][f.delivery] = new]
      BY <2>3 DEF ReceiveCommand
    <3>2. task'[c][n] = task[c][n] \/ task'[c][n] = new
      BY <1>1, <3>1
    <3> QED
      BY <3>1, <3>2
  <2>4. CASE ReceiveCancel
    BY <2>4 DEF ReceiveCancel
  <2>5. CASE CrashAgent
    BY <2>5 DEF CrashAgent, NoTask
  <2> QED
    BY <2>2, <2>3, <2>4, <2>5
<1>3. \A n \in Delivery : task'[c][n].result \in Result => task'[c][n].result \in Heard(c)
  <2>1. "none" \notin Result
    BY DEF Result
  <2> QED
    BY <1>2, <2>1, HeardThere
<1>4. ASSUME NEW s \in Sockets, NEW r \in Result, Contains(up'[s], Observation(c, r))
      PROVE  Contains(up[s], Observation(c, r)) \/ r \in Neutral
  <2>1. CASE UNCHANGED up
    BY <1>4, <2>1
  <2>2. CASE ReceiveCommand /\ ~UNCHANGED up
    <3>1. PICK d : SendUp(link, Observation(d, "busy"))
      BY <2>2 DEF ReceiveCommand
    <3>2. up'[s] = up[s] \/ up'[s] = Append(up[s], Observation(d, "busy"))
      BY <1>1, <3>1 DEF SendUp
    <3>3. CASE r = "busy"
      BY <3>3 DEF Neutral
    <3>4. CASE r # "busy"
      <4>1. Observation(d, "busy") # Observation(c, r)
        BY <3>4 DEF Observation
      <4>2. up[s] \in Seq(ReportRow)
        BY <1>1
      <4> QED
        BY <1>4, <3>2, <4>1, <4>2, ThinnerHeard
    <3> QED
      BY <3>3, <3>4
  <2> QED
    BY <2>1, <2>2 DEF Disconnect, ReceiveCancel, CrashAgent
<1>5. \A x : Contains(terminal', x) => Contains(terminal, x)
  BY <1>1 DEF Contains
<1> QED
  BY <1>1, <1>3, <1>4, <1>5, HeardThere, HeardGrows

(* What a task answers without an execution was heard before or is neutral. *)
LEMMA KnownIsHeard == ASSUME NEW c \in Commands PROVE Known(c) \subseteq Heard(c) \cup Neutral
BY HeardThere DEF Known, Neutral

LEMMA SetTaskHeard ==
  ASSUME LinkTyped, NEW c \in Commands, NEW d \in Commands, NEW n \in Delivery, NEW p, NEW r,
         SetTask(d, n, p, r), NEW X,
         p \in {"begun", "running", "reporting"}, r \in Result \cup {"none"},
         d = c => r \in Heard(c) \cup X \cup {"none"},
         UNCHANGED <<verdicts, up>>,
         \A e \in Result : Contains(terminal', Observation(c, e)) =>
               Contains(terminal, Observation(c, e)) \/ e \in X
  PROVE  Heard(c)' \subseteq Heard(c) \cup X
<1>1. \A m \in Delivery : task'[c][m].result \in Result => task'[c][m].result \in Heard(c) \cup X
  <2>1. /\ task'[d][n].result = r
        /\ \A x \in Commands : \A m \in Delivery : x # d \/ m # n => task'[x][m] = task[x][m]
    BY SetTaskRow DEF LinkTyped, AgentTyped, TasksTyped
  <2>2. "none" \notin Result
    BY DEF Result
  <2>3. ASSUME NEW m \in Delivery, task'[c][m].result \in Result
        PROVE  task'[c][m].result \in Heard(c) \cup X
    <3>1. CASE c = d /\ m = n
      BY <2>1, <2>2, <2>3, <3>1
    <3>2. CASE c # d \/ m # n
      BY <2>1, <2>3, <3>2, HeardThere
    <3> QED
      BY <3>1, <3>2
  <2> QED
    BY <2>3
<1> QED
  BY <1>1, HeardThere, HeardGrows

LEMMA EndHeard ==
  ASSUME LinkTyped, NEW c \in Commands, NEW d \in Commands, NEW n \in Delivery,
         NEW r \in Result, Ending(d, n, r)
  PROVE  /\ d = c => Heard(c)' \subseteq Heard(c) \cup {r}
         /\ d # c => Heard(c)' \subseteq Heard(c) \cup Neutral
<1>1. SetTask(d, n, "reporting", r) /\ FinishJournal(d, r) /\ UNCHANGED <<verdicts, up>>
  BY DEF Ending, Decline, Finish, core, network
<1>2. \A x : Contains(terminal', x) =>
          x = Observation(d, r) \/ (Contains(terminal, x) /\ x.command # d)
  BY <1>1, FinishJournalTyped DEF LinkTyped, AgentTyped
<1>3. \A e : Observation(c, e) = Observation(d, r) => c = d /\ e = r
  BY DEF Observation
<1>4. CASE d = c
  <2>1. PICK X : X = {r}
    OBVIOUS
  <2>2. \A e \in Result : Contains(terminal', Observation(c, e)) =>
               Contains(terminal, Observation(c, e)) \/ e \in X
    BY <1>2, <1>3, <2>1
  <2>3. r \in Heard(c) \cup X \cup {"none"}
    BY <2>1
  <2>4. Heard(c)' \subseteq Heard(c) \cup X
    BY <1>1, <2>2, <2>3, SetTaskHeard
  <2> QED
    BY <1>4, <2>1, <2>4
<1>5. CASE d # c
  <2>1. \A e \in Result : Contains(terminal', Observation(c, e)) =>
               Contains(terminal, Observation(c, e))
    BY <1>2, <1>3, <1>5
  <2> QED
    BY <1>1, <1>5, <2>1, SetTaskHeard
<1> QED
  BY <1>4, <1>5

LEMMA HandleHeard ==
  ASSUME LinkTyped, NEW c \in Commands, NEW d \in Commands, NEW n \in Delivery, Handle(d, n),
         \A r \in Result : ~Ending(d, n, r)
  PROVE  Heard(c)' \subseteq Heard(c) \cup Neutral
<1>1. CASE AnswerKnown(d, n)
  <2>1. PICK r \in Known(d) : SetTask(d, n, "reporting", r)
    BY <1>1 DEF AnswerKnown
  <2>2. r \in Result /\ r \in Heard(d) \cup Neutral
    BY KnownIsResult, KnownIsHeard
  <2>3. UNCHANGED <<verdicts, up, terminal>>
    BY <1>1 DEF AnswerKnown, core, network
  <2> QED
    BY <2>1, <2>2, <2>3, SetTaskHeard
<1>2. CASE Begin(d, n)
  <2>1. SetTask(d, n, "begun", "none") /\ UNCHANGED <<verdicts, up>>
    BY <1>2 DEF Begin, core, network
  <2>2. \A x : Contains(terminal', x) => Contains(terminal, x)
    BY <1>2, BeginJournalTyped DEF Begin, LinkTyped, AgentTyped
  <2> QED
    BY <2>1, <2>2, SetTaskHeard
<1>3. CASE Launch(d, n)
  <2>1. SetTask(d, n, "running", "none") /\ UNCHANGED <<verdicts, up, terminal>>
    BY <1>3 DEF Launch, core, network
  <2> QED
    BY <2>1, SetTaskHeard
<1>4. CASE Report(d, n)
  <2>1. /\ UNCHANGED <<verdicts, terminal>> /\ task[d][n].phase = "reporting"
        /\ task \in [Commands -> [Delivery -> Task]] /\ up \in [Sockets -> Seq(ReportRow)]
        /\ task[d][n].result \in Result
    BY <1>4 DEF Report, core, LinkTyped, AgentTyped, TasksTyped, NetworkTyped
  <2>2. PICK r \in Result : r = task[d][n].result
    BY <2>1
  <2>3. ASSUME NEW s \in Sockets, NEW e \in Result, Contains(up'[s], Observation(c, e))
        PROVE  Contains(up[s], Observation(c, e)) \/ e \in Heard(c)
    <3>1. up'[s] = up[s] \/ up'[s] = Append(up[s], Observation(d, r))
      BY <1>4, <2>1, <2>2 DEF Report, SendUp
    <3>2. CASE Observation(d, r) = Observation(c, e)
      <4>1. d = c /\ r = e
        BY <3>2 DEF Observation
      <4> QED
        BY <2>2, <4>1, HeardThere
    <3>3. CASE Observation(d, r) # Observation(c, e)
      BY <2>1, <2>3, <3>1, <3>3, ThinnerHeard
    <3> QED
      BY <3>2, <3>3
  <2>4. \A m \in Delivery : task'[c][m].result \in Result => task'[c][m].result \in Heard(c)
    <3>1. PICK t : t = NoTask
      OBVIOUS
    <3>2. t.result = "none" /\ "none" \notin Result
      BY <3>1 DEF NoTask, Result
    <3>3. task' = [task EXCEPT ![d][n] = t]
      BY <1>4, <3>1 DEF Report
    <3>4. \A m \in Delivery : task'[c][m] = task[c][m] \/ task'[c][m] = t
      BY <2>1, <3>3
    <3> QED
      BY <3>2, <3>4, HeardThere
  <2> QED
    BY <2>1, <2>3, <2>4, HeardThere, HeardGrows
<1>5. ~Decline(d, n) /\ \A r \in Result : ~Finish(d, n, r)
  BY DEF Ending, Result
<1> QED
  BY <1>1, <1>2, <1>3, <1>4, <1>5 DEF Handle

(* Nothing but the end of an execution of c is news of its end.             *)
LEMMA HeardStep ==
  ASSUME LinkTyped, [Next]_vars, NEW c \in Commands
  PROVE  \/ Heard(c)' \subseteq Heard(c) \cup Neutral
         \/ \E n \in Delivery : \E r \in Result :
               Ending(c, n, r) /\ Heard(c)' \subseteq Heard(c) \cup {r}
<1>1. CASE UNCHANGED vars
  BY <1>1 DEF vars, core, network, agent, memory, Heard
<1>2. ASSUME NEW d \in Commands, NEW n \in Delivery, Handle(d, n)
      PROVE  \/ Heard(c)' \subseteq Heard(c) \cup Neutral
             \/ \E m \in Delivery : \E r \in Result :
                   Ending(c, m, r) /\ Heard(c)' \subseteq Heard(c) \cup {r}
  <2>1. CASE \A r \in Result : ~Ending(d, n, r)
    BY <1>2, <2>1, HandleHeard
  <2>2. ASSUME NEW r \in Result, Ending(d, n, r)
        PROVE  \/ Heard(c)' \subseteq Heard(c) \cup Neutral
               \/ Ending(c, n, r) /\ Heard(c)' \subseteq Heard(c) \cup {r}
    BY <2>2, EndHeard
  <2> QED
    BY <2>1, <2>2
<1> QED
  BY <1>1, <1>2, SessionHeard, CommandHeard, ObservationHeard, AgentHeard DEF Next

(* Which tasks may end, and which processes exist.                          *)
LEMMA PhasesKept ==
  ASSUME NEW c \in Commands, started'[c] = started[c],
         \A n \in Delivery : task'[c][n].phase = task[c][n].phase
                             \/ task'[c][n].phase \in {"none", "waiting", "reporting"}
  PROVE  /\ started'[c] = started[c]
         /\ \A n \in Delivery : task'[c][n].phase = "running" => task[c][n].phase = "running"
         /\ Live(c)' \subseteq Live(c)
BY DEF Live

LEMMA PhaseStep ==
  ASSUME LinkTyped, [Next]_vars, NEW c \in Commands
  PROVE  /\ started[c] > 0 => started'[c] > 0
         /\ \A n \in Delivery : task'[c][n].phase = "running" =>
               task[c][n].phase = "running" \/ started'[c] > 0
         /\ \/ Live(c)' \subseteq Live(c)
            \/ \E n \in Delivery : Begin(c, n) /\ Live(c)' = Live(c) \cup {n}
         /\ \A n \in Delivery : \A r \in Result : Ending(c, n, r) =>
               /\ n \in Live(c) /\ Live(c)' = Live(c) \ {n}
               /\ r = "succeeded" => task[c][n].phase = "running"
<1> DEFINE Claim ==
             /\ started[c] > 0 => started'[c] > 0
             /\ \A n \in Delivery : task'[c][n].phase = "running" =>
                   task[c][n].phase = "running" \/ started'[c] > 0
             /\ \/ Live(c)' \subseteq Live(c)
                \/ \E n \in Delivery : Begin(c, n) /\ Live(c)' = Live(c) \cup {n}
<1>1. /\ task \in [Commands -> [Delivery -> Task]] /\ started \in [Commands -> Nat]
      /\ started[c] \in Nat
  BY DEF LinkTyped, AgentTyped, TasksTyped, FlagsTyped
<1>2. ASSUME NEW n \in Delivery, NEW r \in Result, Ending(c, n, r)
      PROVE  /\ n \in Live(c) /\ Live(c)' = Live(c) \ {n}
             /\ r = "succeeded" => task[c][n].phase = "running"
  <2>1. /\ SetTask(c, n, "reporting", r)
        /\ task[c][n].phase = "running" \/ (task[c][n].phase = "begun" /\ r = "failed")
    BY <1>2 DEF Ending, Decline, Finish
  <2>2. /\ task'[c][n].phase = "reporting"
        /\ \A m \in Delivery : m # n => task'[c][m] = task[c][m]
    BY <1>1, <2>1, SetTaskRow
  <2> QED
    BY <2>1, <2>2 DEF Live
<1>3. ASSUME UNCHANGED <<task, started>> PROVE Claim
  BY <1>3 DEF Live
<1>4. ASSUME NEW s \in Sockets,
             Session(s) \/ RefuseCredential(s) \/ ReceiveObservation(s) \/ Break(s)
      PROVE  Claim
  <2>1. UNCHANGED <<task, started>>
    BY <1>4 DEF Session, Dial, Register, RefuseDuplicate, PeerLost, Unregister, RefuseCredential,
                ReceiveObservation, Break, agent, memory
  <2> QED
    BY <1>3, <2>1
<1>5. ASSUME NEW d \in Commands,
             \/ Dispatch(d) \/ DispatchOffline(d) \/ DispatchRaises(d) \/ Timeout(d)
             \/ RequestCancel(d)
      PROVE  Claim
  <2>1. UNCHANGED <<task, started>>
    BY <1>5 DEF Dispatch, DispatchOffline, DispatchRaises, Timeout, RequestCancel, Requested,
                agent, memory
  <2> QED
    BY <1>3, <2>1
<1>6. ASSUME Disconnect \/ ReceiveCommand \/ ReceiveCancel \/ CrashAgent PROVE Claim
  <2>1. ASSUME NEW n \in Delivery
        PROVE  task'[c][n].phase = task[c][n].phase
               \/ task'[c][n].phase \in {"none", "waiting", "reporting"}
    <3>1. PICK t \in Task : t = task[c][n]
      BY <1>1
    <3>2. CASE Disconnect
      <4>1. task'[c][n] = [t EXCEPT !.socket = NoSocket]
        BY <3>1, <3>2 DEF Disconnect
      <4>2. [t EXCEPT !.socket = NoSocket].phase = t.phase
        BY DEF Task
      <4> QED
        BY <3>1, <4>1, <4>2
    <3>3. CASE ReceiveCommand
      <4>1. PICK f, new : /\ new = [phase |-> "waiting", socket |-> link, result |-> "none"]
                          /\ task' = task \/ task' = [task EXCEPT ![f.command][f.delivery] = new]
        BY <3>3 DEF ReceiveCommand
      <4>2. task'[c][n] = task[c][n] \/ task'[c][n] = new
        BY <1>1, <4>1
      <4> QED
        BY <4>1, <4>2
    <3>4. CASE ReceiveCancel
      BY <3>4 DEF ReceiveCancel
    <3>5. CASE CrashAgent
      BY <3>5 DEF CrashAgent, NoTask
    <3> QED
      BY <1>6, <3>2, <3>3, <3>4, <3>5
  <2>2. started'[c] = started[c]
    BY <1>6 DEF Disconnect, ReceiveCommand, ReceiveCancel, CrashAgent
  <2> QED
    BY <2>1, <2>2, PhasesKept
<1>7. ASSUME NEW d \in Commands, NEW m \in Delivery, Handle(d, m) PROVE Claim
  <2>1. ASSUME NEW r \in Result \cup {"none"}, NEW p, SetTask(d, m, p, r),
               p \in {"begun", "running", "reporting"}, p = "reporting" \/ d # c,
               started'[c] = started[c]
        PROVE  Claim
    <3>1. /\ task'[d][m].phase = p
          /\ \A x \in Commands : \A n \in Delivery : x # d \/ n # m => task'[x][n] = task[x][n]
      BY <1>1, <2>1, SetTaskRow
    <3>2. \A n \in Delivery : task'[c][n].phase = task[c][n].phase
                              \/ task'[c][n].phase \in {"none", "waiting", "reporting"}
      BY <2>1, <3>1
    <3> QED
      BY <2>1, <3>2, PhasesKept
  <2>2. CASE AnswerKnown(d, m)
    <3>1. PICK r \in Result : SetTask(d, m, "reporting", r) /\ UNCHANGED started
      BY <2>2, KnownIsResult DEF AnswerKnown
    <3> QED
      BY <2>1, <3>1
  <2>3. CASE Decline(d, m)
    <3>1. SetTask(d, m, "reporting", "failed") /\ UNCHANGED started /\ "failed" \in Result
      BY <2>3 DEF Decline, Result
    <3> QED
      BY <2>1, <3>1
  <2>4. ASSUME NEW r \in Result, Finish(d, m, r) PROVE Claim
    <3>1. SetTask(d, m, "reporting", r) /\ UNCHANGED started
      BY <2>4 DEF Finish
    <3> QED
      BY <2>1, <3>1
  <2>5. CASE Report(d, m)
    <3>1. PICK t : t = NoTask
      OBVIOUS
    <3>2. t.phase = "none" /\ task' = [task EXCEPT ![d][m] = t] /\ UNCHANGED started
      BY <2>5, <3>1 DEF NoTask, Report
    <3>3. \A n \in Delivery : task'[c][n] = task[c][n] \/ task'[c][n] = t
      BY <1>1, <3>2
    <3>4. \A n \in Delivery : task'[c][n].phase = task[c][n].phase
                              \/ task'[c][n].phase \in {"none", "waiting", "reporting"}
      BY <3>2, <3>3
    <3> QED
      BY <3>2, <3>4, PhasesKept
  <2>6. CASE Begin(d, m)
    <3>1. SetTask(d, m, "begun", "none") /\ UNCHANGED started
      BY <2>6 DEF Begin
    <3>2. CASE d # c
      BY <2>1, <3>1, <3>2
    <3>3. CASE d = c
      <4>1. /\ task'[c][m].phase = "begun"
            /\ \A n \in Delivery : n # m => task'[c][n] = task[c][n]
        BY <1>1, <3>1, <3>3, SetTaskRow
      <4>2. Live(c)' = Live(c) \cup {m}
        BY <4>1 DEF Live
      <4> QED
        BY <2>6, <3>1, <3>3, <4>1, <4>2
    <3> QED
      BY <3>2, <3>3
  <2>7. CASE Launch(d, m)
    <3>1. /\ SetTask(d, m, "running", "none") /\ task[d][m].phase = "begun"
          /\ started' = [started EXCEPT ![d] = started[d] + 1]
      BY <2>7 DEF Launch
    <3>2. CASE d # c
      <4>1. started'[c] = started[c]
        BY <1>1, <3>1, <3>2
      <4> QED
        BY <2>1, <3>1, <3>2, <4>1
    <3>3. CASE d = c
      <4>1. started'[c] > 0
        BY <1>1, <3>1, <3>3
      <4>2. /\ task'[c][m].phase = "running" /\ task[c][m].phase = "begun"
            /\ \A n \in Delivery : n # m => task'[c][n] = task[c][n]
        BY <1>1, <3>1, <3>3, SetTaskRow
      <4>3. Live(c)' = Live(c)
        BY <4>2 DEF Live
      <4> QED
        BY <4>1, <4>3
    <3> QED
      BY <3>2, <3>3
  <2> QED
    BY <1>7, <2>2, <2>3, <2>4, <2>5, <2>6, <2>7 DEF Handle
<1>8. ASSUME UNCHANGED vars PROVE Claim
  BY <1>3, <1>8 DEF vars, agent, memory
<1>9. Claim
  <2> HIDE DEF Claim
  <2> QED
    BY <1>4, <1>5, <1>6, <1>7, <1>8 DEF Next
<1> QED
  BY <1>2, <1>9

LEMMA SuccessStep ==
  ASSUME LinkTyped, [Next]_vars, NEW c \in Commands, SuccessIsReal(c)
  PROVE  SuccessIsReal(c)'
<1>1. /\ started[c] > 0 => started'[c] > 0
      /\ \A n \in Delivery : task'[c][n].phase = "running" =>
            task[c][n].phase = "running" \/ started'[c] > 0
      /\ \A n \in Delivery : \A r \in Result : Ending(c, n, r) =>
            (r = "succeeded" => task[c][n].phase = "running")
  BY PhaseStep
<1>2. \A n \in Delivery : task'[c][n].phase = "running" => started'[c] > 0
  BY <1>1 DEF SuccessIsReal
<1>3. ASSUME "succeeded" \in Heard(c)' PROVE started'[c] > 0
  <2>1. CASE Heard(c)' \subseteq Heard(c) \cup Neutral
    BY <1>1, <1>3, <2>1 DEF Neutral, SuccessIsReal
  <2>2. ASSUME NEW n \in Delivery, NEW r \in Result,
               Ending(c, n, r), Heard(c)' \subseteq Heard(c) \cup {r}
        PROVE  started'[c] > 0
    <3>1. CASE r = "succeeded"
      BY <1>1, <2>2, <3>1 DEF SuccessIsReal
    <3>2. CASE r # "succeeded"
      BY <1>1, <1>3, <2>2, <3>2 DEF SuccessIsReal
    <3> QED
      BY <3>1, <3>2
  <2> QED
    BY <2>1, <2>2, HeardStep
<1> QED
  BY <1>2, <1>3 DEF SuccessIsReal

(* The Core waits for a workflow past its deadline, or does not know.       *)
NeverTimesOut == \A c \in Consequential : "timeout" \notin verdicts[c]

LEMMA TimesOutStep ==
  ASSUME LinkTyped, [Next]_vars, NeverTimesOut
  PROVE  NeverTimesOut'
<1> SUFFICES ASSUME NEW c \in Consequential PROVE "timeout" \notin verdicts'[c]
  BY DEF NeverTimesOut
<1>1. "timeout" \notin verdicts[c] /\ c \in Commands /\ verdicts \in [Commands -> SUBSET Verdict]
  BY LinkConstants DEF NeverTimesOut, LinkTyped, CoreTyped
<1>2. ASSUME NEW d \in Commands, NEW v, Conclude(d, v), d = c => v # "timeout"
      PROVE  "timeout" \notin verdicts'[c]
  BY <1>1, <1>2 DEF Conclude
<1>3. ASSUME UNCHANGED verdicts PROVE "timeout" \notin verdicts'[c]
  BY <1>1, <1>3
<1>4. ASSUME NEW s \in Sockets, ReceiveObservation(s) PROVE "timeout" \notin verdicts'[c]
  <2>1. PICK o \in ReportRow : o = Head(up[s])
    BY <1>4, ReceiveObservationTyped
  <2>2. o.command \in Commands /\ o.result # "timeout"
    BY DEF ReportRow, Result
  <2>3. Conclude(o.command, o.result) \/ UNCHANGED verdicts
    BY <1>4, <2>1 DEF ReceiveObservation
  <2> QED
    BY <1>2, <1>3, <2>2, <2>3
<1>5. ASSUME NEW s \in Sockets, Unregister(s) PROVE "timeout" \notin verdicts'[c]
  BY <1>1, <1>5 DEF Unregister
<1>6. ASSUME NEW s \in Sockets, Session(s) \/ RefuseCredential(s) \/ Break(s), ~Unregister(s)
      PROVE  "timeout" \notin verdicts'[c]
  BY <1>3, <1>6 DEF Session, Dial, Register, RefuseDuplicate, PeerLost, RefuseCredential, Break, core
<1>7. ASSUME NEW d \in Commands, Timeout(d) PROVE "timeout" \notin verdicts'[c]
  <2>1. d = c => TimeoutVerdict(d) # "timeout"
    BY DEF TimeoutVerdict
  <2> QED
    BY <1>2, <1>7, <2>1 DEF Timeout
<1>8. ASSUME NEW d \in Commands,
             Dispatch(d) \/ DispatchOffline(d) \/ DispatchRaises(d) \/ RequestCancel(d)
      PROVE  "timeout" \notin verdicts'[c]
  BY <1>2, <1>3, <1>8 DEF Dispatch, DispatchOffline, DispatchRaises, RequestCancel, core
<1>9. ASSUME NEW d \in Commands, NEW n \in Delivery, Handle(d, n)
      PROVE  "timeout" \notin verdicts'[c]
  BY <1>3, <1>9 DEF Handle, AnswerKnown, Begin, Launch, Decline, Report, Finish, core
<1>10. CASE Disconnect \/ ReceiveCommand \/ ReceiveCancel \/ CrashAgent \/ UNCHANGED vars
  BY <1>3, <1>10 DEF Disconnect, ReceiveCommand, ReceiveCancel, CrashAgent, vars, core
<1> QED
  BY <1>4, <1>5, <1>6, <1>7, <1>8, <1>9, <1>10 DEF Next

TruthInv ==
    /\ LinkTyped /\ NeverTimesOut
    /\ \A c \in Commands : Traced(c) /\ SuccessIsReal(c)

LEMMA TruthInit == Init => TruthInv
<1> SUFFICES ASSUME Init PROVE TruthInv
  OBVIOUS
<1>1. ASSUME NEW c \in Commands PROVE SuccessIsReal(c)
  <2>1. /\ verdicts[c] = {} /\ terminal = <<>>
        /\ \A s \in Sockets : up[s] = <<>>
        /\ \A n \in Delivery : task[c][n].result = "none" /\ task[c][n].phase = "none"
    BY DEF Init, NoTask
  <2>2. Heard(c) = {}
    <3>1. \A x : ~Contains(<<>>, x)
      BY DEF Contains
    <3>2. "none" \notin Result
      BY DEF Result
    <3> QED
      BY <2>1, <3>1, <3>2 DEF Heard
  <2> QED
    BY <2>1, <2>2 DEF SuccessIsReal
<1>2. NeverTimesOut
  BY LinkConstants DEF Init, NeverTimesOut
<1> QED
  BY <1>1, <1>2, TracedInit, LinkTypedInit DEF TruthInv

LEMMA TruthStep == TruthInv /\ [Next]_vars => TruthInv'
BY LinkTypedStep, TracedStep, SuccessStep, TimesOutStep DEF TruthInv

LEMMA TruthIsTold == TruthInv => VerdictIsTruthful
<1> SUFFICES ASSUME TruthInv, NEW c \in Commands
             PROVE  /\ "succeeded" \in verdicts[c] => started[c] > 0
                    /\ pending[c] = NoSocket =>
                          /\ verdicts[c] \subseteq NeverRan => started[c] = 0
                          /\ verdicts[c] \subseteq Certain /\ c \in Consequential => ~Underway(c)
  BY DEF VerdictIsTruthful
<1>1. Tracked(c) /\ DenialsHold(c) /\ SuccessIsReal(c) /\ LinkTyped
  BY DEF TruthInv, Traced
<1>2. "succeeded" \in verdicts[c] => started[c] > 0
  <2>1. "succeeded" \in Result
    BY DEF Result
  <2> QED
    BY <1>1, <2>1, HeardThere DEF SuccessIsReal
<1>3. pending[c] = NoSocket /\ verdicts[c] \subseteq NeverRan => started[c] = 0
  BY <1>1 DEF DenialsHold, MayDeny
<1>4. ASSUME pending[c] = NoSocket, verdicts[c] \subseteq Certain, c \in Consequential
      PROVE  ~Underway(c)
  <2>1. Unbroken(c)
    BY <1>4 DEF TruthInv, NeverTimesOut, Unbroken, Certain, NeverRan
  <2>2. OnItsSocket(c)
    BY <1>1, <2>1 DEF Tracked
  <2>3. \A n \in Delivery : task[c][n].phase = "none"
    BY <1>4, <2>2 DEF OnItsSocket, Handled
  <2>4. ASSUME NEW s \in Sockets, NEW i \in DOMAIN down[s],
               down[s][i].kind = "command", down[s][i].command = c
        PROVE  FALSE
    <3>1. down[s] \in Seq(FrameRow)
      BY <1>1 DEF LinkTyped, NetworkTyped
    <3>2. i \in 1..Len(down[s]) /\ down[s][i] \in FrameRow
      BY <3>1
    <3>3. Has(down[s], CommandsOf(c))
      BY <2>4, <3>2 DEF Has, CommandsOf
    <3> QED
      BY <1>4, <2>2, <3>3, LinkConstants DEF OnItsSocket
  <2> QED
    BY <2>3, <2>4 DEF Underway
<1> QED
  BY <1>2, <1>3, <1>4

(* What a tool call is told of its command is true and stays true, for      *)
(* every number of commands, deliveries, sockets, lost links and restarts   *)
(* of the agent (the uncertain flags of dispatch and unregister).           *)
THEOREM VerdictsAreTruthful == Spec => []VerdictIsTruthful
<1> QED BY TruthInit, TruthStep, TruthIsTold, PTL DEF Spec

-----------------------------------------------------------------------------
(* One end.                                                                 *)

EndInv == LinkTyped /\ JournalSafe /\ \A c \in Consequential : OneEnd(c)

LEMMA DurableStep ==
  ASSUME Roomy, JournalSafe, [Next]_vars, NEW c \in Consequential
  PROVE  /\ Contains(durable, c) => Contains(durable', c)
         /\ \A n \in Delivery : Begin(c, n) => Contains(durable', c)
<1>1. ASSUME NEW d \in Consequential, durable' = Newest(Recorded(d))
      PROVE  Contains(durable, c) => Contains(durable', c)
  BY <1>1, JournalRecords
<1>2. ASSUME NEW d \in Commands, NEW n \in Delivery, Handle(d, n)
      PROVE  Contains(durable, c) => Contains(durable', c)
  <2>1. UNCHANGED durable \/ (d \in Consequential /\ durable' = Newest(Recorded(d)))
    BY <1>2 DEF Handle, AnswerKnown, Begin, BeginJournal, Launch, Decline, Report, Finish,
                FinishJournal
  <2> QED
    BY <1>1, <2>1
<1>3. ASSUME NEW n \in Delivery, Begin(c, n) PROVE Contains(durable', c)
  <2>1. durable' = Newest(Recorded(c))
    BY <1>3 DEF Begin, BeginJournal
  <2> QED
    BY <2>1, JournalRecords
<1>4. ASSUME NEW s \in Sockets,
             Session(s) \/ RefuseCredential(s) \/ ReceiveObservation(s) \/ Break(s)
      PROVE  UNCHANGED durable
  BY <1>4 DEF Session, Dial, Register, RefuseDuplicate, PeerLost, Unregister, RefuseCredential,
              ReceiveObservation, Break, agent
<1>5. ASSUME NEW d \in Commands,
             \/ Dispatch(d) \/ DispatchOffline(d) \/ DispatchRaises(d) \/ Timeout(d)
             \/ RequestCancel(d)
      PROVE  UNCHANGED durable
  BY <1>5 DEF Dispatch, DispatchOffline, DispatchRaises, Timeout, RequestCancel, Requested, agent
<1>6. ASSUME Disconnect \/ ReceiveCommand \/ ReceiveCancel \/ CrashAgent \/ UNCHANGED vars
      PROVE  UNCHANGED durable
  BY <1>6 DEF Disconnect, ReceiveCommand, ReceiveCancel, CrashAgent, vars, agent
<1>7. Contains(durable, c) => Contains(durable', c)
  BY <1>2, <1>4, <1>5, <1>6 DEF Next
<1> QED
  BY <1>3, <1>7

LEMMA OneEndStep ==
  ASSUME Roomy, LinkTyped, JournalSafe, [Next]_vars, NEW c \in Consequential, OneEnd(c)
  PROVE  OneEnd(c)'
<1>1. /\ c \in Commands /\ Neutral \cap Final = {}
      /\ Contains(durable, c) => Contains(durable', c)
  BY LinkConstants, DurableStep DEF Neutral, Final
<1>2. ASSUME NEW n \in Delivery, NEW r \in Result,
             Ending(c, n, r), Heard(c)' \subseteq Heard(c) \cup {r}
      PROVE  OneEnd(c)'
  <2>1. n \in Live(c) /\ Live(c)' = Live(c) \ {n}
    BY <1>1, <1>2, PhaseStep
  <2>2. Live(c) = {n} /\ Heard(c) \cap Final = {} /\ Contains(durable, c)
    BY <2>1 DEF OneEnd
  <2>3. Live(c)' = {} /\ Heard(c)' \cap Final \subseteq {r} /\ Contains(durable', c)
    BY <1>1, <1>2, <2>1, <2>2
  <2> QED
    BY <2>3 DEF OneEnd
<1>3. CASE Heard(c)' \subseteq Heard(c) \cup Neutral
  <2>1. Heard(c)' \cap Final \subseteq Heard(c) \cap Final
    BY <1>1, <1>3
  <2>2. CASE Live(c)' \subseteq Live(c)
    <3>1. \A n \in Live(c)' : Live(c)' = {n} /\ Heard(c)' \cap Final = {}
      BY <2>1, <2>2 DEF OneEnd
    <3>2. Live(c)' # {} \/ Heard(c)' \cap Final # {} => Contains(durable', c)
      BY <1>1, <2>1, <2>2 DEF OneEnd
    <3>3. \A r1, r2 \in Heard(c)' \cap Final : r1 = r2
      BY <2>1 DEF OneEnd
    <3> QED
      BY <3>1, <3>2, <3>3 DEF OneEnd
  <2>3. ASSUME NEW n \in Delivery, Begin(c, n), Live(c)' = Live(c) \cup {n}
        PROVE  OneEnd(c)'
    <3>1. ~Contains(durable, c)
      BY <2>3 DEF Begin, Known, Journaled
    <3>2. Live(c) = {} /\ Heard(c) \cap Final = {}
      BY <3>1 DEF OneEnd
    <3>3. Live(c)' = {n} /\ Heard(c)' \cap Final = {} /\ Contains(durable', c)
      BY <2>1, <2>3, <3>2, DurableStep
    <3> QED
      BY <3>3 DEF OneEnd
  <2> QED
    BY <1>1, <2>2, <2>3, PhaseStep
<1> QED
  BY <1>1, <1>2, <1>3, HeardStep

LEMMA EndInit == Init => EndInv
<1> SUFFICES ASSUME Init, NEW c \in Consequential PROVE OneEnd(c)
  BY JournalInit, LinkTypedInit DEF EndInv
<1>1. /\ verdicts[c] = {} /\ terminal = <<>>
      /\ \A s \in Sockets : up[s] = <<>>
      /\ \A n \in Delivery : task[c][n].result = "none" /\ task[c][n].phase = "none"
  BY LinkConstants DEF Init, NoTask
<1>2. Heard(c) = {} /\ Live(c) = {}
  <2>1. "none" \notin Result /\ \A x : ~Contains(<<>>, x)
    BY DEF Result, Contains
  <2> QED
    BY <1>1, <2>1 DEF Heard, Live
<1> QED
  BY <1>2 DEF OneEnd

LEMMA EndIsStable == EndInv => OutcomeIsStable
<1> SUFFICES ASSUME EndInv, NEW c \in Consequential
             PROVE  Cardinality(verdicts[c] \cap Final) <= 1
  BY DEF OutcomeIsStable, Final
<1>1. \A r1, r2 \in verdicts[c] \cap Final : r1 = r2
  <2>1. verdicts[c] \cap Final \subseteq Heard(c) \cap Final
    BY LinkConstants, HeardThere DEF Final, Result
  <2> QED
    BY <2>1 DEF EndInv, OneEnd
<1>2. PICK S : S = verdicts[c] \cap Final
  OBVIOUS
<1>3. CASE S = {}
  BY <1>2, <1>3, FS_EmptySet
<1>4. ASSUME NEW r \in S PROVE Cardinality(S) <= 1
  <2>1. S = {r}
    BY <1>1, <1>2
  <2> QED
    BY <2>1, FS_Singleton
<1> QED
  BY <1>2, <1>3, <1>4

(* While the journal has room for every workflow, a workflow has one end:   *)
(* redelivered, interrupted or cancelled, the tool service never learns of  *)
(* a second, different one (ReplayJournal.lookup and begin).                *)
THEOREM OutcomesAreStable == Roomy /\ Spec => []OutcomeIsStable
<1>1. Roomy /\ Init => EndInv
  BY EndInit
<1>2. Roomy /\ EndInv /\ [Next]_vars => EndInv'
  <2> SUFFICES ASSUME Roomy, EndInv, [Next]_vars PROVE EndInv'
    OBVIOUS
  <2>1. LinkTyped' /\ JournalSafe'
    BY LinkTypedStep, JournalStep DEF EndInv
  <2> QED
    BY <2>1, OneEndStep DEF EndInv
<1>3. CASE ~Roomy
  BY <1>3
<1>4. CASE Roomy
  <2>1. EndInv /\ [Next]_vars => EndInv'
    BY <1>2, <1>4
  <2> QED
    BY <1>1, <1>4, <2>1, EndIsStable, PTL DEF Spec
<1> QED
  BY <1>3, <1>4

-----------------------------------------------------------------------------
(* What the liveness of the link rests on *)

(* The way of a session, and who can take the next step towards a linked    *)
(* one: the Core's handlers, or the agent.                                  *)
Age(s) ==
    CASE handler[s] = "hello" -> 1 [] handler[s] = "serving" -> 2
      [] handler[s] = "closing" -> 3 [] OTHER -> 0
HandlerCanMove(s) ==
    \/ handler[s] \in {"hello", "closing"}
    \/ handler[s] = "serving" /\ Gone(s)
AgentCanMove ==
    IF link = NoSocket THEN \E s \in Sockets : handler[s] = "done"
    ELSE cut[link] \/ handler[link] \in {"closing", "done"}
SessionCanRecover == Linked \/ AgentCanMove \/ \E s \in Sockets : HandlerCanMove(s)

(* A session only goes forward, and one that lost its agent never gets it   *)
(* back.                                                                    *)
SessionsGoForward ==
    \A s \in Sockets : handler[s] # "done" =>
        /\ handler'[s] = "done" \/ Age(s) <= Age(s)'
        /\ Gone(s) => Gone(s)' \/ handler'[s] = "done"

LinkState ==
    /\ SessionInv
    /\ link \in Sockets \cup {NoSocket}
    /\ registered # NoSocket => handler[registered] \in {"serving", "closing"}

LEMMA HandlerMoves ==
  ASSUME LinkState, NEW s \in Sockets, NEW state \in {"hello", "serving", "closing", "done"},
         handler' = [handler EXCEPT ![s] = state], UNCHANGED <<cut, link>>,
         state = "done" \/ Age(s) <= Age(s)'
  PROVE  SessionsGoForward
<1>1. /\ handler'[s] = state
      /\ \A x \in Sockets \ {s} : handler'[x] = handler[x]
  BY DEF LinkState, SessionInv, SessionShape
<1>2. \A x \in Sockets : Gone(x)' <=> Gone(x)
  BY DEF Gone
<1>3. ASSUME NEW x \in Sockets \ {s} PROVE Age(x)' = Age(x) /\ Age(x) \in Nat
  BY <1>1 DEF Age
<1> QED
  BY <1>1, <1>2, <1>3 DEF SessionsGoForward

LEMMA HandlersStay ==
  ASSUME LinkState, UNCHANGED <<handler, registered>>, link' \in {link, NoSocket},
         \A s \in Sockets : cut[s] => cut'[s]
  PROVE  SessionsGoForward /\ (link' \in Sockets \cup {NoSocket})
                           /\ (registered' # NoSocket =>
                                 handler'[registered'] \in {"serving", "closing"})
<1>1. ASSUME NEW s \in Sockets PROVE Age(s)' = Age(s) /\ Age(s) \in Nat /\ (Gone(s) => Gone(s)')
  BY LinkAssumption DEF Age, Gone
<1> QED
  BY <1>1 DEF SessionsGoForward, LinkState

LEMMA NextLinks ==
  ASSUME LinkState, [Next]_vars
  PROVE  LinkState' /\ SessionsGoForward
<1>1. SessionInv' /\ SessionInv /\ handler \in [Sockets -> {"done", "hello", "serving", "closing"}]
      /\ NoSocket \notin Sockets /\ registered \in Sockets \cup {NoSocket}
  BY SessionStep, LinkAssumption DEF LinkState, SessionInv, SessionShape
<1>2. ASSUME NEW s \in Sockets, Dial(s) PROVE LinkState' /\ SessionsGoForward
  <2>1. /\ handler[s] = "done" /\ link = NoSocket /\ link' = s /\ registered' = registered
        /\ \A x \in Sockets \ {s} : handler'[x] = handler[x] /\ cut'[x] = cut[x]
    BY <1>1, <1>2 DEF Dial
  <2>2. ASSUME NEW x \in Sockets \ {s} PROVE Age(x)' = Age(x) /\ Age(x) \in Nat /\ Gone(x)'
    BY <2>1 DEF Age, Gone
  <2> QED
    BY <1>1, <2>1, <2>2 DEF LinkState, SessionsGoForward
<1>3. ASSUME NEW s \in Sockets, Register(s) PROVE LinkState' /\ SessionsGoForward
  <2>1. /\ handler' = [handler EXCEPT ![s] = "serving"] /\ UNCHANGED <<cut, link>>
        /\ handler[s] = "hello" /\ registered' = s
    BY <1>3 DEF Register, network, agent
  <2>2. handler'[s] = "serving"
    BY <1>1, <2>1
  <2>3. Age(s) = 1 /\ Age(s)' = 2
    BY <2>1, <2>2 DEF Age
  <2>4. Age(s) <= Age(s)'
    BY <2>3
  <2> QED
    BY <1>1, <2>1, <2>2, <2>4, HandlerMoves DEF LinkState
<1>4. ASSUME NEW s \in Sockets, Closing(s), handler[s] \in {"hello", "serving"},
             UNCHANGED <<registered, cut, link>>
      PROVE  LinkState' /\ SessionsGoForward
  <2>1. handler' = [handler EXCEPT ![s] = "closing"] /\ handler'[s] = "closing"
        /\ \A x \in Sockets \ {s} : handler'[x] = handler[x]
    BY <1>1, <1>4 DEF Closing
  <2>2. Age(s) \in {1, 2} /\ Age(s)' = 3
    BY <1>4, <2>1 DEF Age
  <2>3. Age(s) <= Age(s)'
    BY <2>2
  <2> QED
    BY <1>1, <1>4, <2>1, <2>3, HandlerMoves DEF LinkState
<1>5. ASSUME NEW s \in Sockets, Unregister(s) PROVE LinkState' /\ SessionsGoForward
  <2>1. /\ handler' = [handler EXCEPT ![s] = "done"] /\ UNCHANGED <<cut, link>>
        /\ registered' = IF registered = s THEN NoSocket ELSE registered
    BY <1>1, <1>5 DEF Unregister, Unregisters, agent
  <2>2. SessionsGoForward
    BY <2>1, HandlerMoves
  <2> QED
    BY <1>1, <2>1, <2>2 DEF LinkState
<1>6. ASSUME NEW s \in Sockets, ReceiveObservation(s) PROVE LinkState' /\ SessionsGoForward
  <2>1. /\ handler[s] = "serving" /\ UNCHANGED <<registered, cut, link>>
        /\ Closing(s) \/ UNCHANGED handler
    BY <1>6 DEF ReceiveObservation, agent
  <2> QED
    BY <1>1, <1>4, <2>1, HandlersStay DEF LinkState
<1>7. ASSUME NEW s \in Sockets, Break(s) PROVE LinkState' /\ SessionsGoForward
  <2>1. /\ UNCHANGED <<handler, registered, link>>
        /\ cut' = [cut EXCEPT ![s] = TRUE]
    BY <1>7 DEF Break, core, agent
  <2>2. \A x \in Sockets : cut[x] => cut'[x]
    BY <2>1
  <2> QED
    BY <1>1, <2>1, <2>2, HandlersStay DEF LinkState
<1>8. ASSUME UNCHANGED <<handler, registered, cut>>, link' \in {link, NoSocket}
      PROVE  LinkState' /\ SessionsGoForward
  BY <1>1, <1>8, HandlersStay DEF LinkState
<1>9. ASSUME NEW s \in Sockets, Session(s) \/ RefuseCredential(s)
      PROVE  LinkState' /\ SessionsGoForward
  BY <1>2, <1>3, <1>4, <1>5, <1>9
     DEF Session, RefuseDuplicate, PeerLost, RefuseCredential, network, agent
<1>10. ASSUME NEW c \in Commands,
              \/ Dispatch(c) \/ DispatchOffline(c) \/ DispatchRaises(c)
              \/ Timeout(c) \/ RequestCancel(c)
       PROVE  LinkState' /\ SessionsGoForward
  BY <1>8, <1>10
     DEF Dispatch, DispatchOffline, DispatchRaises, Timeout, RequestCancel, Requested,
         network, agent, core
<1>11. ASSUME NEW c \in Commands, NEW n \in Delivery, Handle(c, n)
       PROVE  LinkState' /\ SessionsGoForward
  BY <1>8, <1>11
     DEF Handle, AnswerKnown, Begin, Launch, Decline, Report, Finish, core, network, agent
<1>12. CASE Disconnect \/ ReceiveCommand \/ ReceiveCancel \/ CrashAgent \/ UNCHANGED vars
  BY <1>8, <1>12
     DEF Disconnect, ReceiveCommand, ReceiveCancel, CrashAgent, vars, core, network, agent
<1> QED
  BY <1>6, <1>7, <1>9, <1>10, <1>11, <1>12 DEF Next

LEMMA SomebodyMoves ==
  ASSUME LinkState, Sockets # {}
  PROVE  SessionCanRecover
<1>1. SUFFICES ASSUME \A s \in Sockets : ~HandlerCanMove(s), ~AgentCanMove PROVE Linked
  BY DEF SessionCanRecover
<1>2. \A s \in Sockets : handler[s] = "done" \/ (handler[s] = "serving" /\ ~Gone(s))
  BY <1>1 DEF HandlerCanMove, LinkState, SessionInv, SessionShape
<1>3. link # NoSocket /\ link \in Sockets /\ handler[link] # "done"
  <2>1. CASE link = NoSocket
    <3>1. \A s \in Sockets : handler[s] = "done"
      BY <1>2, <2>1, LinkAssumption DEF Gone
    <3> QED
      BY <1>1, <2>1, <3>1 DEF AgentCanMove
  <2> QED
    BY <1>1, <2>1 DEF AgentCanMove, LinkState
<1>4. handler[link] = "serving" /\ ~cut[link]
  BY <1>2, <1>3 DEF Gone
<1>5. registered = link
  BY <1>3, <1>4 DEF LinkState, SessionInv, SessionServes
<1> QED
  BY <1>3, <1>4, <1>5 DEF Linked

(* The reconnection never stands still: while the satellite is not linked,  *)
(* either the agent can dial or notice that its socket is dead, or a        *)
(* handler can register, refuse, time out or leave, whatever was cut,       *)
(* revoked or crashed before (run_forever, connect_windows_satellite).      *)
THEOREM LinkNeverStuck == Sockets # {} /\ Spec => []SessionCanRecover
<1> SUFFICES ASSUME Sockets # {} PROVE Spec => []SessionCanRecover
  OBVIOUS
<1>1. Init => LinkState
  BY SessionInit DEF Init, LinkState
<1>2. LinkState /\ [Next]_vars => LinkState'
  BY NextLinks
<1>3. LinkState => SessionCanRecover
  BY SomebodyMoves
<1> QED
  BY <1>1, <1>2, <1>3, PTL DEF Spec

(* A session registers, serves and closes once, in that order, and once its *)
(* agent is gone it stays gone: it can only leave, so a successor is not    *)
(* refused for it for ever (SatelliteConnectionManager.register,            *)
(* unregister, and the finally clause of connect_windows_satellite).        *)
THEOREM SessionsOnlyLeave == Spec => [][SessionsGoForward]_vars
<1>1. Init => LinkState
  BY SessionInit DEF Init, LinkState
<1>2. LinkState /\ [Next]_vars => LinkState' /\ SessionsGoForward
  BY NextLinks
<1> QED
  BY <1>1, <1>2, PTL DEF Spec
=============================================================================
