----------------------------- MODULE EventStream ----------------------------
(***************************************************************************)
(* The WebSocket of src/src/personal_ai_os/api/routes/conversations.py     *)
(* that streams the run events of a conversation session to the device     *)
(* that opened it, composed with the identity service whose rotations and  *)
(* revocations must reach it.                                              *)
(*                                                                         *)
(* The loop authenticates once, by the credential, and afterwards knows    *)
(* only ids.  Each of its database transactions is a step, so that events, *)
(* rotations, revocations and closings come between a replay, the          *)
(* revalidation that guards its delivery and the frames it sends.          *)
(***************************************************************************)
EXTENDS Identity, Integers, Sequences

CONSTANTS
    Sessions,       \* conversation sessions
    Streams,        \* WebSocket connections
    MaxEvents,      \* bound of the events of a session
    ReplayLimit     \* MAX_EVENT_REPLAY

ASSUME StreamConstants ==
    /\ MaxEvents \in Nat
    /\ ReplayLimit \in Nat \ {0}

VARIABLES
    session,    \* conversation_sessions rows
    log,        \* run_events of a session: for each the credentials whose
                \* access had not ended when it was appended
    stream      \* a connection and what the loop knows

streamVars == <<session, log, stream>>
allVars == <<vars, streamVars>>

Reason == {"unauthenticated", "unauthorized", "unavailable", "aborted", "left"}
Phase == {"none", "top", "replaying", "checking", "sending", "waiting"} \cup Reason
Stream ==
    [phase : Phase, session : Sessions \cup {"none"},
     credential : Credentials \cup {NoCredential},
     after : Nat, cursor : Nat, batch : Seq(Nat), sent : Nat, got : Seq(Nat),
     due : BOOLEAN, gone : BOOLEAN]

NoStream ==
    [phase |-> "none", session |-> "none", credential |-> NoCredential,
     after |-> 0, cursor |-> 0, batch |-> <<>>, sent |-> 0, got |-> <<>>,
     due |-> FALSE, gone |-> FALSE]

Open(w) == stream[w].phase \in {"top", "replaying", "checking", "sending", "waiting"}

-----------------------------------------------------------------------------
(* What the loop asks of the database *)

MayStream(k) ==
    Valid(k) /\ "stream" \in Scopes[device[credential[k].device].from]
Belongs(k, s) ==
    session[s].status = "active" /\ session[s].device = credential[k].device

(* _websocket_principal: the identity and the session are two transactions, *)
(* so that either may be the one that refuses.                              *)
Allowed(k, s) == MayStream(k) /\ Belongs(k, s)
Refusals(k, s) ==
    {c \in {"unauthenticated", "unauthorized"} :
        \/ c = "unauthenticated" /\ ~Valid(k)
        \/ c = "unauthorized" /\ ~(Belongs(k, s) /\ (Valid(k) => MayStream(k)))}

(* The credentials whose access to the session has not ended.               *)
NotEnded(s) ==
    {k \in Credentials : session[s].status = "active" /\ credential[k].status # "revoked"}

(* events_after: the rows behind a cursor, in the order of their numbers and *)
(* no more than the limit.  The rows of a session are numbered 1, 2, ... :   *)
(* _emit takes MAX(sequence) + 1 under the lock of the session.              *)
EventsAfter(s, after) ==
    LET newer == Len(log[s]) - after
    IN  [i \in 1..(IF newer < ReplayLimit THEN newer ELSE ReplayLimit) |-> after + i]

(* The number of the last event of the batch.                               *)
LastOf_First(w) == stream[w].batch[1]
LastOf_Log(w) == Len(log[stream[w].session])
LastOf(w) == stream[w].batch[Len(stream[w].batch)]

Goto(w, phase) == stream' = [stream EXCEPT ![w].phase = phase]

-----------------------------------------------------------------------------
StreamInit ==
    /\ Init
    /\ session = [s \in Sessions |-> [status |-> "none", device |-> NoDevice]]
    /\ log = [s \in Sessions |-> <<>>]
    /\ stream = [w \in Streams |-> NoStream]

(* create_session.  The principal of the request may be stale by now.       *)
OpenSession(s, d) ==
    /\ session[s].status = "none"
    /\ device[d].status # "none"
    /\ session' = [session EXCEPT ![s] = [status |-> "active", device |-> d]]
    /\ UNCHANGED <<vars, log, stream>>

(* _emit, for the runs and the requests of a session; a run outlives its    *)
(* session.                                                                 *)
Emit(s) ==
    /\ session[s].status # "none"
    /\ Len(log[s]) < MaxEvents
    /\ log' = [log EXCEPT ![s] = Append(@, NotEnded(s))]
    /\ UNCHANGED <<vars, session, stream>>

CloseSession(s) ==
    /\ session[s].status = "active"
    /\ Len(log[s]) < MaxEvents
    /\ session' = [session EXCEPT ![s].status = "closed"]
    /\ log' = [log EXCEPT ![s] = Append(@, {})]
    /\ UNCHANGED <<vars, stream>>

Accept(w, k, s, after) ==
    /\ stream[w].phase = "none"
    /\ \A x \in Slots : k \notin request[x].creds
    /\ Allowed(k, s)
    /\ stream' = [stream EXCEPT ![w] =
         [NoStream EXCEPT !.phase = "top", !.session = s, !.credential = k,
                          !.after = after, !.cursor = after]]
    /\ UNCHANGED <<vars, session, log>>

(* The gate may be closed, the credential or the session refused.           *)
RefuseConnection(w, k, s) ==
    /\ stream[w].phase = "none"
    /\ credential[k].status # "none"
    /\ \/ \E c \in Refusals(k, s) : Goto(w, c)
       \/ StoreFails /\ \E c \in {"unavailable", "aborted"} : Goto(w, c)
    /\ UNCHANGED <<vars, session, log>>

(* The revalidation of the loop's credential and session.                   *)
Revalidated(w) == Allowed(stream[w].credential, stream[w].session)
Delivers_Unchecked(w) == TRUE
Delivers(w) == Revalidated(w)
Rejected(w) ==
    \/ \E c \in Refusals(stream[w].credential, stream[w].session) : Goto(w, c)
    \/ StoreFails /\ Goto(w, "unavailable")

(* Top of the loop: the client may be gone, the revalidation due.           *)
Due_Never(w) == FALSE
Due(w) == stream[w].due
Loop(w) ==
    /\ stream[w].phase = "top"
    /\ IF stream[w].gone THEN Goto(w, "left")
       ELSE IF ~Due(w) THEN Goto(w, "replaying")
       ELSE \/ /\ Revalidated(w)
               /\ stream' = [stream EXCEPT ![w].phase = "replaying", ![w].due = FALSE]
            \/ Rejected(w)
    /\ UNCHANGED <<vars, session, log>>

(* replay_events asks only that the session is the device's.                *)
Replay(w) ==
    LET events == EventsAfter(stream[w].session, stream[w].cursor)
    IN  /\ stream[w].phase = "replaying"
        /\ \/ /\ events # <<>>
              /\ stream' = [stream EXCEPT
                   ![w].phase = "checking", ![w].batch = events, ![w].sent = 0]
           \/ events = <<>> /\ Goto(w, "waiting")
           \/ StoreFails /\ Goto(w, "aborted")
        /\ UNCHANGED <<vars, session, log>>

(* Revalidate immediately before protected event delivery.                  *)
CheckDelivery(w) ==
    /\ stream[w].phase = "checking"
    /\ \/ /\ Delivers(w)
          /\ stream' = [stream EXCEPT
               ![w].phase = IF stream[w].gone THEN "left" ELSE "sending",
               ![w].due = FALSE]
       \/ ~Delivers(w) /\ Rejected(w)
       \/ StoreFails /\ Goto(w, "unavailable")
    /\ UNCHANGED <<vars, session, log>>

(* A frame for each event of the batch, and then the cursor.                *)
SendFrame(w) ==
    LET next == stream[w].sent + 1 IN
    /\ stream[w].phase = "sending"
    /\ \/ stream[w].gone /\ Goto(w, "left")
       \/ /\ next <= Len(stream[w].batch)
          /\ stream' = [stream EXCEPT
               ![w].got = Append(@, stream[w].batch[next]), ![w].sent = next]
       \/ /\ next > Len(stream[w].batch)
          /\ stream' = [stream EXCEPT ![w].phase = "top", ![w].cursor = LastOf(w)]
    /\ UNCHANGED <<vars, session, log>>

Pause(w) ==
    /\ stream[w].phase = "waiting"
    /\ Goto(w, IF stream[w].gone THEN "left" ELSE "top")
    /\ UNCHANGED <<vars, session, log>>

(* WEBSOCKET_REVALIDATION_SECONDS pass.                                     *)
Elapse(w) ==
    /\ Open(w)
    /\ ~stream[w].due
    /\ stream' = [stream EXCEPT ![w].due = TRUE]
    /\ UNCHANGED <<vars, session, log>>

Disconnect(w) ==
    /\ Open(w)
    /\ ~stream[w].gone
    /\ stream' = [stream EXCEPT ![w].gone = TRUE]
    /\ UNCHANGED <<vars, session, log>>

Step(w) ==
    Loop(w) \/ Replay(w) \/ CheckDelivery(w) \/ SendFrame(w) \/ Pause(w)

StreamNext ==
    \/ Next /\ UNCHANGED streamVars
    \/ \E s \in Sessions :
         \/ Emit(s) \/ CloseSession(s)
         \/ \E d \in Devices : OpenSession(s, d)
    \/ \E w \in Streams :
         \/ Step(w) \/ Elapse(w) \/ Disconnect(w)
         \/ \E k \in Credentials, s \in Sessions :
              \/ RefuseConnection(w, k, s)
              \/ \E after \in 0..MaxEvents : Accept(w, k, s, after)

(* The event loop goes on and time passes; clients read what they are sent. *)
StreamFairness ==
    \A w \in Streams : WF_allVars(Step(w)) /\ WF_allVars(Elapse(w))

StreamSpec == StreamInit /\ [][StreamNext]_allVars /\ StreamFairness
-----------------------------------------------------------------------------
(* A client is never sent an event of after the moment its credential was   *)
(* rotated or revoked, its device revoked or its session closed, although   *)
(* the loop keeps no lock between the replay and the frames.                *)
NothingAfterRevocation ==
    \A w \in Streams : \A i \in 1..Len(stream[w].got) :
        stream[w].credential \in log[stream[w].session][stream[w].got[i]]

(* What a client got are events behind the cursor it came with, in order,   *)
(* none of them twice and none left out, and what the loop takes for sent   *)
(* was sent: while the log grows under the loop and it replays, checks and  *)
(* sends batch by batch.                                                    *)
Got(w) == {stream[w].got[i] : i \in 1..Len(stream[w].got)}
EachEventOnce ==
    \A w \in Streams : LET r == stream[w] IN
        /\ \A n \in Got(w) : n > r.after /\ (r.after + 1)..n \subseteq Got(w)
        /\ \A i, j \in 1..Len(r.got) : i < j => r.got[i] < r.got[j]
        /\ (r.after + 1)..r.cursor \subseteq Got(w)

(* A stream whose access ended is closed, also when no event comes.         *)
StreamEnds ==
    \A w \in Streams :
        (Open(w) /\ ~Revalidated(w)) ~> ~Open(w)

(* An event behind the cursor of an open stream arrives or the stream ends. *)
EventArrives ==
    \A w \in Streams, i \in 1..MaxEvents :
        (/\ Open(w)
         /\ i > stream[w].after
         /\ i <= Len(log[stream[w].session]))
        ~> (~Open(w) \/ i \in Got(w))
=============================================================================
