------------------------------ MODULE Identity ------------------------------
(***************************************************************************)
(* The owner, the enrollments, the devices and their credentials of        *)
(* src/src/personal_ai_os/identity: local bootstrap and enrollment,        *)
(* one-time redemption, authentication, heartbeat, credential rotation and *)
(* device revocation.                                                      *)
(*                                                                         *)
(* Every operation is one READ COMMITTED transaction, and what a request   *)
(* learned when it was authenticated is used by a LATER transaction.  A    *)
(* transaction that takes row locks is split at each of them: the step     *)
(* that takes a lock makes the test the code makes on the locked row, and  *)
(* the last step writes and commits.  A slot is a thread of the server or  *)
(* a local command that serves one request after another.                  *)
(***************************************************************************)
EXTENDS Naturals

CONSTANTS
    Slots,          \* server threads and local commands
    Enrollments,    \* enrollments the owner may create
    Devices,        \* device rows
    Credentials,    \* credential rows
    NoEnrollment, NoDevice, NoCredential,
    Capabilities,   \* capability names
    Approved,       \* capabilities an enrollment approves
    Scopes,         \* scopes an enrollment approves
    StoreFails      \* whether the database may fail a transaction

DeviceScope == {"read", "heartbeat", "rotate", "stream"}

ASSUME IdentityConstants ==
    /\ NoEnrollment \notin Enrollments
    /\ NoDevice \notin Devices
    /\ NoCredential \notin Credentials
    /\ Approved \in [Enrollments -> SUBSET Capabilities]
    /\ Scopes \in [Enrollments -> SUBSET DeviceScope]
    /\ StoreFails \in BOOLEAN

VARIABLES
    (* durable rows *)
    owners,         \* number of owner rows
    enrollment,     \* status of an enrollments row, "none" before it
    expired,        \* open enrollments whose time to live is over
    device,         \* devices rows with the capabilities they report
    credential,     \* device_credentials rows
    (* transactions in flight *)
    request         \* what a slot is doing

rows == <<owners, enrollment, expired, device, credential>>
vars == <<rows, request>>

Op == {"none", "bootstrap", "redeem", "read", "heartbeat", "rotate", "revoke"}
Lock == {"enrollment", "device", "credential"}
DeviceRow ==
    [status : {"none", "active", "revoked"},
     from : Enrollments \cup {NoEnrollment}, reported : SUBSET Capabilities]
CredentialRow ==
    [status : {"none", "live", "revoked"}, device : Devices \cup {NoDevice},
     from : Credentials \cup {NoCredential}]
Request ==
    [op : Op, enrollment : Enrollments \cup {NoEnrollment},
     device : Devices \cup {NoDevice},
     credential : Credentials \cup {NoCredential},
     report : SUBSET Capabilities, late : BOOLEAN,
     locks : SUBSET Lock, creds : SUBSET Credentials]

Idle ==
    [op |-> "none", enrollment |-> NoEnrollment, device |-> NoDevice,
     credential |-> NoCredential, report |-> {}, late |-> FALSE,
     locks |-> {}, creds |-> {}]

-----------------------------------------------------------------------------
(* Rows and locks *)

OwnerActive == owners > 0
LiveOf(d) ==
    {k \in Credentials : credential[k].status = "live" /\ credential[k].device = d}

(* New rows have fresh ids.                                                 *)
UnusedDevices == {d \in Devices : device[d].status = "none"}
UnusedCredentials == {k \in Credentials : credential[k].status = "none"}
NewDevice == CHOOSE d \in Devices : device[d].status = "none"
NewCredential == CHOOSE k \in Credentials : credential[k].status = "none"

(* The joined row that authenticate and revalidate_principal test.          *)
Valid(k) ==
    /\ credential[k].status = "live"
    /\ device[credential[k].device].status = "active"

(* Row locks an operation takes, and those it must hold before another.     *)
Locks(op) ==
    CASE op = "redeem" -> {"enrollment"}
      [] op = "heartbeat" -> {"device"}
      [] op \in {"rotate", "revoke"} -> {"device", "credential"}
      [] OTHER -> {}
Before_Inverse(op, lock) ==
    IF op = "rotate"
    THEN IF lock = "device" THEN {"credential"} ELSE {}
    ELSE IF lock = "credential" THEN {"device"} ELSE {}
Before(op, lock) == IF lock = "credential" THEN {"device"} ELSE {}

(* The credentials a transaction locks: rotation the one it was             *)
(* authenticated with, revocation every live one of the device.             *)
Targets(q) ==
    IF request[q].op = "revoke" THEN LiveOf(request[q].device)
    ELSE {request[q].credential}

HoldsRow(x, q, lock) ==
    /\ lock \in request[x].locks
    /\ CASE lock = "enrollment" -> request[x].enrollment = request[q].enrollment
         [] lock = "device" -> request[x].device = request[q].device
         [] lock = "credential" -> request[x].creds \cap Targets(q) # {}
Wants(q, lock) ==
    /\ lock \in Locks(request[q].op) \ request[q].locks
    /\ Before(request[q].op, lock) \subseteq request[q].locks
FreeFor_Unlocked(q, lock) == TRUE
FreeFor(q, lock) == \A x \in Slots \ {q} : ~HoldsRow(x, q, lock)

(* What the code tests on a row once it holds it.                           *)
Unrevoked_Unchecked(k) == TRUE
Unrevoked(k) == credential[k].status = "live"
Passes(q, lock) ==
    LET r == request[q] IN
    /\ r.op = "redeem" =>
         enrollment[r.enrollment] = "open" /\ ~r.late /\ OwnerActive
    /\ r.op = "rotate" /\ lock = "credential" => Unrevoked(r.credential)
    /\ r.op \in {"rotate", "heartbeat"} /\ lock = "device" =>
         device[r.device].status = "active"
    /\ r.op = "heartbeat" => r.report \subseteq Approved[device[r.device].from]

Answered(q) == request' = [request EXCEPT ![q] = Idle]
Ready(q) ==
    /\ request[q].op # "none"
    /\ request[q].locks = Locks(request[q].op)

-----------------------------------------------------------------------------
Init ==
    /\ owners = 0
    /\ enrollment = [e \in Enrollments |-> "none"]
    /\ expired = {}
    /\ device = [d \in Devices |->
         [status |-> "none", from |-> NoEnrollment, reported |-> {}]]
    /\ credential = [k \in Credentials |->
         [status |-> "none", device |-> NoDevice, from |-> NoCredential]]
    /\ request = [q \in Slots |-> Idle]

(* bootstrap_owner counts the owners ...                                    *)
CountOwners(q) ==
    /\ request[q].op = "none"
    /\ owners = 0
    /\ request' = [request EXCEPT ![q].op = "bootstrap"]
    /\ UNCHANGED rows

(* ... and inserts one; the unique singleton_key refuses a second.          *)
SingletonKey == owners = 0
InsertOwner(q) ==
    /\ request[q].op = "bootstrap"
    /\ IF SingletonKey THEN owners' = owners + 1 ELSE UNCHANGED owners
    /\ Answered(q)
    /\ UNCHANGED <<enrollment, expired, device, credential>>

CreateEnrollment(e) ==
    /\ OwnerActive
    /\ enrollment[e] = "none"
    /\ enrollment' = [enrollment EXCEPT ![e] = "open"]
    /\ UNCHANGED <<owners, expired, device, credential, request>>

Expire(e) ==
    /\ enrollment[e] = "open"
    /\ e \notin expired
    /\ expired' = expired \cup {e}
    /\ UNCHANGED <<owners, enrollment, device, credential, request>>

(* redeem_enrollment reads the clock before it waits for the row.           *)
ArriveRedeem(q, e) ==
    /\ request[q].op = "none"
    /\ enrollment[e] # "none"
    /\ request' = [request EXCEPT ![q] =
         [Idle EXCEPT !.op = "redeem", !.enrollment = e, !.late = e \in expired]]
    /\ UNCHANGED rows

(* authenticate and require_scopes: a transaction of its own, which waits   *)
(* for the row of the credential.                                           *)
Authenticate(q, k, op, report) ==
    /\ request[q].op = "none"
    /\ \A x \in Slots : k \notin request[x].creds
    /\ Valid(k)
    /\ op \in Scopes[device[credential[k].device].from]
    /\ request' = [request EXCEPT ![q] =
         [Idle EXCEPT !.op = op, !.device = credential[k].device,
                      !.credential = k, !.report = report]]
    /\ UNCHANGED rows

(* The local revocation command names a device and no credential.           *)
ArriveRevoke(q, d) ==
    /\ request[q].op = "none"
    /\ device[d].status # "none"
    /\ request' = [request EXCEPT ![q] =
         [Idle EXCEPT !.op = "revoke", !.device = d]]
    /\ UNCHANGED rows

TakeLock(q, lock) ==
    /\ Wants(q, lock)
    /\ FreeFor(q, lock)
    /\ Passes(q, lock)
    /\ request' = [request EXCEPT
         ![q].locks = @ \cup {lock},
         ![q].creds = IF lock = "credential" THEN Targets(q) ELSE @]
    /\ UNCHANGED rows

Refuse(q, lock) ==
    /\ Wants(q, lock)
    /\ FreeFor(q, lock)
    /\ ~Passes(q, lock)
    /\ Answered(q)
    /\ UNCHANGED rows

Redeem(q) ==
    LET e == request[q].enrollment IN
    /\ request[q].op = "redeem"
    /\ Ready(q)
    /\ UnusedDevices # {}
    /\ UnusedCredentials # {}
    /\ device' = [device EXCEPT ![NewDevice] =
         [status |-> "active", from |-> e, reported |-> {}]]
    /\ credential' = [credential EXCEPT ![NewCredential] =
         [status |-> "live", device |-> NewDevice, from |-> NoCredential]]
    /\ enrollment' = [enrollment EXCEPT ![e] = "consumed"]
    /\ expired' = expired \ {e}
    /\ Answered(q)
    /\ UNCHANGED owners

(* device_self changes nothing and is refused once the device is revoked.   *)
ReadSelf(q) ==
    /\ request[q].op = "read"
    /\ Answered(q)
    /\ UNCHANGED rows

Heartbeat(q) ==
    /\ request[q].op = "heartbeat"
    /\ Ready(q)
    /\ device' = [device EXCEPT ![request[q].device].reported = request[q].report]
    /\ Answered(q)
    /\ UNCHANGED <<owners, enrollment, expired, credential>>

Rotate(q) ==
    LET old == request[q].credential IN
    /\ request[q].op = "rotate"
    /\ Ready(q)
    /\ UnusedCredentials # {}
    /\ credential' = [credential EXCEPT
         ![old].status = "revoked",
         ![NewCredential] =
            [status |-> "live", device |-> request[q].device, from |-> old]]
    /\ Answered(q)
    /\ UNCHANGED <<owners, enrollment, expired, device>>

Revoke(q) ==
    /\ request[q].op = "revoke"
    /\ Ready(q)
    /\ device' = [device EXCEPT ![request[q].device].status = "revoked"]
    /\ credential' = [k \in Credentials |->
         IF k \in request[q].creds
         THEN [credential[k] EXCEPT !.status = "revoked"] ELSE credential[k]]
    /\ Answered(q)
    /\ UNCHANGED <<owners, enrollment, expired>>

(* A transaction that fails rolls back and gives up its locks.              *)
Abort(q) ==
    /\ StoreFails
    /\ request[q].op # "none"
    /\ Answered(q)
    /\ UNCHANGED rows

Serve(q) ==
    \/ InsertOwner(q)
    \/ \E lock \in Lock : TakeLock(q, lock) \/ Refuse(q, lock)
    \/ Redeem(q) \/ ReadSelf(q) \/ Heartbeat(q) \/ Rotate(q) \/ Revoke(q)

Arrive(q) ==
    \/ CountOwners(q)
    \/ \E e \in Enrollments : ArriveRedeem(q, e)
    \/ \E k \in Credentials :
         \/ \E op \in {"read", "rotate"} : Authenticate(q, k, op, {})
         \/ \E report \in SUBSET Capabilities : Authenticate(q, k, "heartbeat", report)
    \/ \E d \in Devices : ArriveRevoke(q, d)

Next ==
    \/ \E e \in Enrollments : CreateEnrollment(e) \/ Expire(e)
    \/ \E q \in Slots : Arrive(q) \/ Serve(q) \/ Abort(q)

Spec == Init /\ [][Next]_vars

-----------------------------------------------------------------------------
TypeOK ==
    /\ owners \in Nat
    /\ enrollment \in [Enrollments -> {"none", "open", "consumed"}]
    /\ expired \subseteq Enrollments
    /\ device \in [Devices -> DeviceRow]
    /\ credential \in [Credentials -> CredentialRow]
    /\ request \in [Slots -> Request]

(* One enrollment makes at most one device, however many redemptions of its *)
(* code are in flight, and only a consumed one has made any.                *)
EnrolledOnce ==
    \A d1, d2 \in Devices :
        /\ device[d1].status # "none"
        /\ device[d1].from = device[d2].from
        => /\ d1 = d2
           /\ enrollment[device[d1].from] = "consumed"

(* An active device has exactly one live credential, whatever rotations of  *)
(* the same credential race each other, and a revoked device has none,      *)
(* whatever rotation was in flight when it was revoked.                     *)
OneLiveCredential ==
    \A d \in Devices :
        /\ device[d].status = "active" => \E k \in Credentials : LiveOf(d) = {k}
        /\ device[d].status # "active" => LiveOf(d) = {}

(* A revoked device is never written again: no late heartbeat, no new       *)
(* credential, no way back.                                                 *)
RevocationIsFinal ==
    [][\A d \in Devices : device[d].status = "revoked" =>
         /\ device'[d] = device[d]
         /\ LiveOf(d)' = {}]_vars

(* No two transactions wait for a row the other one holds.                  *)
Blocks(x, q) == \E lock \in Lock : Wants(q, lock) /\ HoldsRow(x, q, lock)
NoLockCycle ==
    \A x, q \in Slots : x # q => ~(Blocks(x, q) /\ Blocks(q, x))
=============================================================================
