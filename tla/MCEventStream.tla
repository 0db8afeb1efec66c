---------------------------- MODULE MCEventStream ---------------------------
(***************************************************************************)
(* Devices that enroll, rotate and are revoked, while one streams.  Two    *)
(* slots race over two enrollments as long as there is no session; beside  *)
(* a session and its stream one slot rotates and revokes the device of one *)
(* enrollment.                                                             *)
(***************************************************************************)
EXTENDS EventStream

CONSTANTS Main, First       \* the slot and the enrollment that go on

MCApproved == [e \in Enrollments |-> IF e = First THEN Capabilities ELSE {}]
MCScopes == [e \in Enrollments |-> {"heartbeat", "rotate", "stream"}]

Scene ==
    \/ /\ \A s \in Sessions : session[s].status = "none"
       /\ \A w \in Streams : stream[w].phase = "none"
    \/ /\ \A x \in Slots \ {Main} : request[x] = Idle
       /\ request[Main].op \in {"none", "rotate", "revoke"}
       /\ \A e \in Enrollments \ {First} : enrollment[e] = "none"
       /\ UnusedCredentials # {}
(* Nothing is left to see when every stream has ended.                      *)
GoesOn == Scene' /\ \E w \in Streams : stream[w].phase = "none" \/ Open(w)
=============================================================================
