--------------------------- MODULE IdentityProofs ---------------------------
(***************************************************************************)
(* Safety of the identity service for every number of slots, enrollments,  *)
(* devices and credentials: what a request learned before it got a row     *)
(* lock is still true of the rows it holds, because every writer of a      *)
(* device or of its credentials holds the lock of the device.              *)
(*                                                                         *)
(* And of the event stream, for every number of streams, sessions and      *)
(* events: a batch that was revalidated after it was read holds nothing    *)
(* that the credential may not see, although the access may end before its *)
(* frames are sent.                                                        *)
(***************************************************************************)
EXTENDS EventStream, TLAPS

(* What the rows say about each other.                                      *)
RowsAgree ==
    /\ \A d \in Devices :
         IF device[d].status = "none" THEN device[d].from = NoEnrollment
         ELSE device[d].from \in Enrollments /\ enrollment[device[d].from] = "consumed"
    /\ \A k \in Credentials : credential[k].status # "none" =>
         credential[k].device \in Devices /\ device[credential[k].device].status # "none"

(* What a request relies on until it is answered.                           *)
LocksInOrder(q) ==
    /\ request[q].locks \subseteq Locks(request[q].op)
    /\ "credential" \in request[q].locks => "device" \in request[q].locks
    /\ "credential" \notin request[q].locks => request[q].creds = {}
HoldsOpen(q) ==
    request[q].op = "redeem" =>
        /\ request[q].enrollment \in Enrollments
        /\ "enrollment" \in request[q].locks =>
             enrollment[request[q].enrollment] = "open"
NamesRows(q) ==
    /\ request[q].op \in {"read", "heartbeat", "rotate", "revoke"} =>
         request[q].device \in Devices /\ device[request[q].device].status # "none"
    /\ request[q].op \in {"read", "heartbeat", "rotate"} =>
         /\ request[q].credential \in Credentials
         /\ credential[request[q].credential].status # "none"
         /\ credential[request[q].credential].device = request[q].device
HoldsActive(q) ==
    request[q].op \in {"heartbeat", "rotate"} /\ "device" \in request[q].locks =>
        device[request[q].device].status = "active"
HoldsLive(q) ==
    "credential" \in request[q].locks =>
        /\ request[q].op = "rotate" =>
             /\ request[q].creds = {request[q].credential}
             /\ credential[request[q].credential].status = "live"
        /\ request[q].op = "revoke" => request[q].creds = LiveOf(request[q].device)
Sound(q) ==
    LocksInOrder(q) /\ HoldsOpen(q) /\ NamesRows(q) /\ HoldsActive(q) /\ HoldsLive(q)

RequestsSound == \A q \in Slots : Sound(q)

(* A row lock has one holder.                                               *)
Clash(a, b) ==
    \/ /\ "device" \in a.locks /\ "device" \in b.locks
       /\ a.device = b.device
    \/ /\ "enrollment" \in a.locks /\ "enrollment" \in b.locks
       /\ a.enrollment = b.enrollment
Exclusive == \A x, q \in Slots : x # q => ~Clash(request[x], request[q])

OneOwner == owners \in {0, 1}

IdentityInv ==
    /\ TypeOK
    /\ OneOwner
    /\ RowsAgree
    /\ RequestsSound
    /\ Exclusive
    /\ EnrolledOnce
    /\ OneLiveCredential

-----------------------------------------------------------------------------
(* Steps that write no row but an owner's                                   *)

LEMMA IdleIsRequest == Idle \in Request
  BY DEF Idle, Request, Op, Lock

(* A request may take any state that is sound for the rows as they are and  *)
(* shares no lock with another one.                                         *)
LEMMA RequestStep ==
  ASSUME IdentityInv, NEW q \in Slots, NEW r \in Request,
         request' = [request EXCEPT ![q] = r],
         owners' \in {0, 1}, UNCHANGED <<enrollment, expired, device, credential>>,
         Sound(q)', \A x \in Slots \ {q} : ~Clash(request[x], r)
  PROVE  IdentityInv'
<1>1. TypeOK'
  BY DEF IdentityInv, TypeOK
<1>2. OneOwner'
  BY DEF OneOwner
<1>3. RowsAgree' /\ EnrolledOnce'
  BY DEF IdentityInv, RowsAgree, EnrolledOnce
<1>4. OneLiveCredential'
  BY DEF IdentityInv, OneLiveCredential, LiveOf
<1>5. ASSUME NEW x \in Slots PROVE Sound(x)'
  <2>1. CASE x = q
    BY <2>1
  <2>2. CASE x # q
    <3>1. request'[x] = request[x]
      BY <2>2 DEF IdentityInv, TypeOK
    <3>2. Sound(x)
      BY DEF IdentityInv, RequestsSound
    <3> QED
      BY <3>1, <3>2 DEF Sound, LocksInOrder, HoldsOpen, NamesRows, HoldsActive,
                        HoldsLive, LiveOf
  <2> QED
    BY <2>1, <2>2
<1>6. Exclusive'
  <2> SUFFICES ASSUME NEW x \in Slots, NEW y \in Slots, x # y
               PROVE  ~Clash(request'[x], request'[y])
    BY DEF Exclusive, Clash
  <2>1. request'[q] = r /\ \A z \in Slots \ {q} : request'[z] = request[z]
    BY DEF IdentityInv, TypeOK
  <2>2. CASE x = q
    BY <2>1, <2>2 DEF Clash
  <2>3. CASE y = q
    BY <2>1, <2>3 DEF Clash
  <2>4. CASE x # q /\ y # q
    BY <2>1, <2>4 DEF IdentityInv, Exclusive
  <2> QED
    BY <2>2, <2>3, <2>4
<1> QED
  BY <1>1, <1>2, <1>3, <1>4, <1>5, <1>6 DEF IdentityInv, RequestsSound

(* A request that is answered relies on nothing.                            *)
LEMMA AnsweredIsSound ==
  ASSUME TypeOK, NEW q \in Slots, Answered(q)
  PROVE  Sound(q)' /\ \A x \in Slots \ {q} : ~Clash(request[x], Idle)
<1>1. request'[q] = Idle
  BY DEF TypeOK, Answered
<1> QED
  BY <1>1 DEF Sound, LocksInOrder, HoldsOpen, NamesRows, HoldsActive, HoldsLive,
              Idle, Clash, Locks

LEMMA AnswerStep ==
  ASSUME IdentityInv, NEW q \in Slots, Answered(q), owners' \in {0, 1},
         UNCHANGED <<enrollment, expired, device, credential>>
  PROVE  IdentityInv'
<1>1. request' = [request EXCEPT ![q] = Idle]
  BY DEF Answered
<1>2. TypeOK
  BY DEF IdentityInv
<1> QED
  BY <1>1, <1>2, IdleIsRequest, AnsweredIsSound, RequestStep

LEMMA CountOwnersStep ==
  ASSUME IdentityInv, NEW q \in Slots, CountOwners(q)
  PROVE  IdentityInv'
<1> DEFINE r == [request[q] EXCEPT !.op = "bootstrap"]
<1>1. request[q] \in Request /\ request[q].op = "none" /\ Sound(q)
  BY DEF IdentityInv, TypeOK, CountOwners, RequestsSound
<1>2. r \in Request
  BY <1>1 DEF Request, Op
<1>3. request' = [request EXCEPT ![q] = r]
  BY DEF CountOwners
<1>4. request'[q] = r
  BY <1>3 DEF IdentityInv, TypeOK
<1>5. r.op = "bootstrap" /\ r.locks = request[q].locks /\ r.creds = request[q].creds
  BY <1>1 DEF Request
<1>6. r.locks = {} /\ r.creds = {}
  BY <1>1, <1>5 DEF Sound, LocksInOrder, Locks
<1>7. Sound(q)'
  BY <1>4, <1>5, <1>6
     DEF Sound, LocksInOrder, HoldsOpen, NamesRows, HoldsActive, HoldsLive
<1>8. \A x \in Slots \ {q} : ~Clash(request[x], r)
  BY <1>6 DEF Clash
<1>9. owners' \in {0, 1} /\ UNCHANGED <<enrollment, expired, device, credential>>
  BY DEF CountOwners, rows, IdentityInv, OneOwner
<1> QED
  BY <1>2, <1>3, <1>7, <1>8, <1>9, RequestStep

LEMMA InsertOwnerStep ==
  ASSUME IdentityInv, NEW q \in Slots, InsertOwner(q)
  PROVE  IdentityInv'
<1>1. owners' \in {0, 1}
  BY DEF InsertOwner, SingletonKey, IdentityInv, OneOwner
<1> QED
  BY <1>1, AnswerStep DEF InsertOwner

LEMMA ArriveRedeemStep ==
  ASSUME IdentityInv, NEW q \in Slots, NEW e \in Enrollments, ArriveRedeem(q, e)
  PROVE  IdentityInv'
<1> DEFINE late == e \in expired
           r == [Idle EXCEPT !.op = "redeem", !.enrollment = e, !.late = late]
<1>1. r.op = "redeem" /\ r.enrollment = e /\ r.locks = {} /\ r.creds = {}
  BY DEF Idle
<1>2. r \in Request
  <2>1. late \in BOOLEAN
    OBVIOUS
  <2> HIDE DEF late
  <2> QED
    BY <2>1 DEF Idle, Request, Op, Lock
<1>3. request' = [request EXCEPT ![q] = r]
  BY DEF ArriveRedeem
<1>4. request'[q] = r
  BY <1>3 DEF IdentityInv, TypeOK
<1>5. Sound(q)'
  BY <1>1, <1>4 DEF Sound, LocksInOrder, HoldsOpen, NamesRows, HoldsActive, HoldsLive
<1>6. \A x \in Slots \ {q} : ~Clash(request[x], r)
  BY <1>1 DEF Clash
<1>7. owners' \in {0, 1} /\ UNCHANGED <<enrollment, expired, device, credential>>
  BY DEF ArriveRedeem, rows, IdentityInv, OneOwner
<1> QED
  BY <1>2, <1>3, <1>5, <1>6, <1>7, RequestStep

(* What a request learns of the rows when it is authenticated stays true:   *)
(* rows are never deleted and a credential never changes its device.        *)
LEMMA AuthenticateStep ==
  ASSUME IdentityInv, NEW q \in Slots, NEW k \in Credentials,
         NEW op \in {"read", "heartbeat", "rotate"},
         NEW report \in SUBSET Capabilities, Authenticate(q, k, op, report)
  PROVE  IdentityInv'
<1> DEFINE r == [Idle EXCEPT !.op = op, !.device = credential[k].device,
                             !.credential = k, !.report = report]
<1>1. /\ r.op = op /\ r.device = credential[k].device /\ r.credential = k
      /\ r.locks = {} /\ r.creds = {}
  BY DEF Idle
<1>2. /\ credential[k].status # "none"
      /\ credential[k].device \in Devices
      /\ device[credential[k].device].status # "none"
  BY DEF Authenticate, Valid, IdentityInv, RowsAgree
<1>3. r \in Request
  BY <1>2 DEF Idle, Request, Op, Lock
<1>4. request' = [request EXCEPT ![q] = r]
  BY DEF Authenticate
<1>5. request'[q] = r
  BY <1>4 DEF IdentityInv, TypeOK
<1>6. owners' \in {0, 1} /\ UNCHANGED <<enrollment, expired, device, credential>>
  BY DEF Authenticate, rows, IdentityInv, OneOwner
<1>7. Sound(q)'
  BY <1>1, <1>2, <1>5, <1>6
     DEF Sound, LocksInOrder, HoldsOpen, NamesRows, HoldsActive, HoldsLive
<1>8. \A x \in Slots \ {q} : ~Clash(request[x], r)
  BY <1>1 DEF Clash
<1> QED
  BY <1>3, <1>4, <1>6, <1>7, <1>8, RequestStep

LEMMA ArriveRevokeStep ==
  ASSUME IdentityInv, NEW q \in Slots, NEW d \in Devices, ArriveRevoke(q, d)
  PROVE  IdentityInv'
<1> DEFINE r == [Idle EXCEPT !.op = "revoke", !.device = d]
<1>1. r.op = "revoke" /\ r.device = d /\ r.locks = {} /\ r.creds = {}
  BY DEF Idle
<1>2. r \in Request
  BY DEF Idle, Request, Op, Lock
<1>3. request' = [request EXCEPT ![q] = r]
  BY DEF ArriveRevoke
<1>4. request'[q] = r
  BY <1>3 DEF IdentityInv, TypeOK
<1>5. owners' \in {0, 1} /\ UNCHANGED <<enrollment, expired, device, credential>>
  BY DEF ArriveRevoke, rows, IdentityInv, OneOwner
<1>6. Sound(q)'
  BY <1>1, <1>4, <1>5
     DEF Sound, LocksInOrder, HoldsOpen, NamesRows, HoldsActive, HoldsLive, ArriveRevoke
<1>7. \A x \in Slots \ {q} : ~Clash(request[x], r)
  BY <1>1 DEF Clash
<1> QED
  BY <1>2, <1>3, <1>5, <1>6, <1>7, RequestStep

(* The test on the locked row is what the request relies on afterwards.     *)
LEMMA TakeLockStep ==
  ASSUME IdentityInv, NEW q \in Slots, NEW lock \in Lock, TakeLock(q, lock)
  PROVE  IdentityInv'
<1> DEFINE r == [request[q] EXCEPT
                   !.locks = @ \cup {lock},
                   !.creds = IF lock = "credential" THEN Targets(q) ELSE @]
<1>1. request[q] \in Request /\ Sound(q)
  BY DEF IdentityInv, TypeOK, RequestsSound
<1>2. /\ r.op = request[q].op /\ r.enrollment = request[q].enrollment
      /\ r.device = request[q].device /\ r.credential = request[q].credential
      /\ r.report = request[q].report /\ r.late = request[q].late
      /\ r.locks = request[q].locks \cup {lock}
      /\ r.creds = IF lock = "credential" THEN Targets(q) ELSE request[q].creds
  BY <1>1 DEF Request
<1>3. lock \in Locks(request[q].op) /\ Before(request[q].op, lock) \subseteq request[q].locks
  BY DEF TakeLock, Wants
<1>4. lock = "credential" => /\ request[q].op \in {"rotate", "revoke"}
                             /\ "device" \in request[q].locks
  BY <1>3 DEF Locks, Before
<1>5. lock = "credential" => Targets(q) \subseteq Credentials
  BY <1>1, <1>4 DEF Targets, LiveOf, Sound, NamesRows
<1>6. r \in Request
  BY <1>1, <1>2, <1>5 DEF Request
<1>7. request' = [request EXCEPT ![q] = r]
  BY DEF TakeLock
<1>8. request'[q] = r
  BY <1>7 DEF IdentityInv, TypeOK
<1>9. owners' \in {0, 1} /\ UNCHANGED <<enrollment, expired, device, credential>>
  BY DEF TakeLock, rows, IdentityInv, OneOwner
<1> HIDE DEF r
<1>10. Sound(q)'
  <2>1. LocksInOrder(q)'
    BY <1>1, <1>2, <1>3, <1>4, <1>8 DEF Sound, LocksInOrder
  <2>2. HoldsOpen(q)'
    BY <1>1, <1>2, <1>3, <1>8, <1>9 DEF Sound, HoldsOpen, TakeLock, Passes, Locks, Lock
  <2>3. NamesRows(q)'
    BY <1>1, <1>2, <1>8, <1>9 DEF Sound, NamesRows
  <2>4. HoldsActive(q)'
    BY <1>1, <1>2, <1>3, <1>8, <1>9 DEF Sound, HoldsActive, TakeLock, Passes, Locks, Lock
  <2>5. HoldsLive(q)'
    <3>1. CASE lock = "credential"
      <4>1. Unrevoked(request[q].credential) \/ request[q].op = "revoke"
        BY <1>4, <3>1 DEF TakeLock, Passes
      <4>2. r.creds = Targets(q)
        BY <1>2, <3>1
      <4> QED
        BY <1>2, <1>8, <1>9, <4>1, <4>2 DEF HoldsLive, Targets, Unrevoked, LiveOf
    <3>2. CASE lock # "credential"
      BY <1>1, <1>2, <1>8, <1>9, <3>2 DEF Sound, HoldsLive, LiveOf
    <3> QED
      BY <3>1, <3>2
  <2> QED
    BY <2>1, <2>2, <2>3, <2>4, <2>5 DEF Sound
<1>11. ASSUME NEW x \in Slots \ {q} PROVE ~Clash(request[x], r)
  <2>1. ~Clash(request[x], request[q])
    BY DEF IdentityInv, Exclusive
  <2>2. ~HoldsRow(x, q, lock)
    BY DEF TakeLock, FreeFor
  <2> QED
    BY <1>2, <2>1, <2>2 DEF Clash, HoldsRow
<1> QED
  BY <1>6, <1>7, <1>9, <1>10, <1>11, RequestStep

-----------------------------------------------------------------------------
(* Steps that write rows                                                    *)

LEMMA CreateEnrollmentStep ==
  ASSUME IdentityInv, NEW e \in Enrollments, CreateEnrollment(e)
  PROVE  IdentityInv'
<1> USE DEF IdentityInv
<1>1. /\ enrollment[e] = "none" /\ enrollment'[e] = "open"
      /\ \A f \in Enrollments : enrollment[f] # "none" => enrollment'[f] = enrollment[f]
      /\ UNCHANGED <<owners, expired, device, credential, request>>
  BY DEF CreateEnrollment, TypeOK
<1>2. TypeOK'
  BY <1>1 DEF TypeOK, CreateEnrollment
<1>3. RowsAgree' /\ EnrolledOnce'
  BY <1>1 DEF RowsAgree, EnrolledOnce
<1>4. RequestsSound'
  BY <1>1 DEF RequestsSound, Sound, LocksInOrder, HoldsOpen, NamesRows, HoldsActive,
              HoldsLive, LiveOf
<1> QED
  BY <1>1, <1>2, <1>3, <1>4 DEF OneOwner, Exclusive, Clash, OneLiveCredential, LiveOf

LEMMA ExpireStep ==
  ASSUME IdentityInv, NEW e \in Enrollments, Expire(e)
  PROVE  IdentityInv'
<1> USE DEF IdentityInv
<1>1. UNCHANGED <<owners, enrollment, device, credential, request>>
  BY DEF Expire
<1>2. TypeOK'
  BY <1>1 DEF TypeOK, Expire
<1>3. RequestsSound'
  BY <1>1 DEF RequestsSound, Sound, LocksInOrder, HoldsOpen, NamesRows, HoldsActive,
              HoldsLive, LiveOf
<1> QED
  BY <1>1, <1>2, <1>3
     DEF OneOwner, Exclusive, Clash, OneLiveCredential, LiveOf, RowsAgree, EnrolledOnce

(* After an answer it is enough that the rows agree and that the OTHER      *)
(* requests still find the rows as they rely on them.                       *)
LEMMA CommitStep ==
  ASSUME IdentityInv, NEW q \in Slots, Answered(q), UNCHANGED owners,
         TypeOK', RowsAgree', EnrolledOnce', OneLiveCredential',
         \A x \in Slots \ {q} : request'[x] = request[x] => Sound(x)'
  PROVE  IdentityInv'
<1>1. TypeOK
  BY DEF IdentityInv
<1>2. request'[q] = Idle /\ \A x \in Slots \ {q} : request'[x] = request[x]
  BY <1>1 DEF TypeOK, Answered
<1>3. RequestsSound'
  <2> SUFFICES ASSUME NEW x \in Slots PROVE Sound(x)'
    BY DEF RequestsSound
  <2>1. CASE x = q
    BY <1>1, <2>1, AnsweredIsSound
  <2>2. CASE x # q
    BY <1>2, <2>2
  <2> QED
    BY <2>1, <2>2
<1>4. Exclusive'
  <2> SUFFICES ASSUME NEW x \in Slots, NEW y \in Slots, x # y
               PROVE  ~Clash(request'[x], request'[y])
    BY DEF Exclusive, Clash
  <2>1. CASE x = q \/ y = q
    BY <1>2, <2>1 DEF Clash, Idle
  <2>2. CASE x # q /\ y # q
    BY <1>2, <2>2 DEF IdentityInv, Exclusive
  <2> QED
    BY <2>1, <2>2
<1> QED
  BY <1>3, <1>4 DEF IdentityInv, OneOwner

(* The new device is one nothing refers to, and the enrollment is still     *)
(* open because the redemption holds its row.                               *)
LEMMA RedeemStep ==
  ASSUME IdentityInv, NEW q \in Slots, Redeem(q)
  PROVE  IdentityInv'
<1> DEFINE e == request[q].enrollment
<1>1. /\ e \in Enrollments /\ enrollment[e] = "open"
      /\ request[q].op = "redeem" /\ "enrollment" \in request[q].locks
  BY DEF IdentityInv, RequestsSound, Sound, HoldsOpen, Redeem, Ready, Locks
<1>2. PICK d \in Devices : d = NewDevice /\ device[d].status = "none"
  BY DEF Redeem, UnusedDevices, NewDevice
<1>3. PICK k \in Credentials : k = NewCredential /\ credential[k].status = "none"
  BY DEF Redeem, UnusedCredentials, NewCredential
<1>4. TypeOK
  BY DEF IdentityInv
<1>5. /\ device' = [device EXCEPT ![d] =
           [status |-> "active", from |-> e, reported |-> {}]]
      /\ credential' = [credential EXCEPT ![k] =
           [status |-> "live", device |-> d, from |-> NoCredential]]
      /\ enrollment' = [enrollment EXCEPT ![e] = "consumed"]
      /\ expired' = expired \ {e}
      /\ Answered(q) /\ UNCHANGED owners
  BY <1>2, <1>3 DEF Redeem
<1> HIDE DEF e
<1>6. TypeOK'
  BY <1>1, <1>2, <1>3, <1>4, <1>5, IdleIsRequest
     DEF TypeOK, Answered, DeviceRow, CredentialRow
<1>7. /\ device'[d].status = "active" /\ device'[d].from = e
      /\ \A x \in Devices \ {d} : device'[x] = device[x]
  BY <1>2, <1>4, <1>5 DEF TypeOK
<1>8. /\ credential'[k].status = "live" /\ credential'[k].device = d
      /\ \A x \in Credentials \ {k} : credential'[x] = credential[x]
  BY <1>3, <1>4, <1>5 DEF TypeOK
<1>9. /\ enrollment'[e] = "consumed"
      /\ \A x \in Enrollments \ {e} : enrollment'[x] = enrollment[x]
  BY <1>1, <1>4, <1>5 DEF TypeOK
<1>10. RowsAgree'
  BY <1>1, <1>2, <1>3, <1>7, <1>8, <1>9 DEF IdentityInv, RowsAgree
<1>11. \A x \in Devices \ {d} : device[x].from # e
  BY <1>1, IdentityConstants DEF IdentityInv, RowsAgree
<1>12. EnrolledOnce'
  <2> SUFFICES ASSUME NEW d1 \in Devices, NEW d2 \in Devices,
                      device'[d1].status # "none", device'[d1].from = device'[d2].from
               PROVE  d1 = d2 /\ enrollment'[device'[d1].from] = "consumed"
    BY DEF EnrolledOnce
  <2>1. CASE d1 = d \/ d2 = d
    BY <1>7, <1>9, <1>11, <2>1
  <2>2. CASE d1 # d /\ d2 # d
    <3>1. d1 = d2
      BY <1>7, <2>2 DEF IdentityInv, EnrolledOnce
    <3> QED
      BY <1>7, <1>10, <2>2, <3>1 DEF RowsAgree
  <2> QED
    BY <2>1, <2>2
<1>13. LiveOf(d)' = {k} /\ \A x \in Devices \ {d} : LiveOf(x)' = LiveOf(x)
  <2>1. \A c \in Credentials : credential[c].status = "live" => credential[c].device # d
    BY <1>2 DEF IdentityInv, RowsAgree
  <2>2. \A c \in Credentials :
          (c \in LiveOf(d)' <=> c = k)
    BY <1>3, <1>8, <2>1 DEF LiveOf
  <2>3. LiveOf(d)' = {k}
    BY <1>3, <2>2 DEF LiveOf
  <2>4. ASSUME NEW x \in Devices \ {d} PROVE LiveOf(x)' = LiveOf(x)
    BY <1>3, <1>8 DEF LiveOf
  <2> QED
    BY <2>3, <2>4
<1>14. OneLiveCredential'
  <2> SUFFICES ASSUME NEW x \in Devices
               PROVE  /\ device'[x].status = "active" =>
                           \E c \in Credentials : LiveOf(x)' = {c}
                      /\ device'[x].status # "active" => LiveOf(x)' = {}
    BY DEF OneLiveCredential
  <2>1. CASE x = d
    BY <1>3, <1>7, <1>13, <2>1
  <2>2. CASE x # d
    BY <1>7, <1>13, <2>2 DEF IdentityInv, OneLiveCredential
  <2> QED
    BY <2>1, <2>2
<1>15. ASSUME NEW x \in Slots \ {q}, request'[x] = request[x] PROVE Sound(x)'
  <2>1. Sound(x) /\ ~Clash(request[x], request[q])
    BY DEF IdentityInv, RequestsSound, Exclusive
  <2>2. LocksInOrder(x)'
    BY <1>15, <2>1 DEF Sound, LocksInOrder
  <2>3. HoldsOpen(x)'
    BY <1>1, <1>9, <1>15, <2>1 DEF Sound, HoldsOpen, Clash, e
  <2>4. NamesRows(x)'
    BY <1>2, <1>3, <1>7, <1>8, <1>15, <2>1 DEF Sound, NamesRows
  <2>5. HoldsActive(x)'
    BY <1>2, <1>7, <1>15, <2>1 DEF Sound, HoldsActive, NamesRows
  <2>6. HoldsLive(x)'
    <3>1. request[x].op = "rotate" => /\ request[x].credential \in Credentials \ {k}
                                      /\ request[x].device \in Devices
      BY <1>3, <2>1 DEF Sound, NamesRows
    <3>2. request[x].op = "revoke" => request[x].device \in Devices \ {d}
      BY <1>2, <2>1 DEF Sound, NamesRows
    <3> QED
      BY <1>8, <1>13, <1>15, <2>1, <3>1, <3>2 DEF Sound, HoldsLive
  <2> QED
    BY <2>2, <2>3, <2>4, <2>5, <2>6 DEF Sound
<1> QED
  BY <1>5, <1>6, <1>10, <1>12, <1>14, <1>15, CommitStep

LEMMA HeartbeatStep ==
  ASSUME IdentityInv, NEW q \in Slots, Heartbeat(q)
  PROVE  IdentityInv'
<1> DEFINE d == request[q].device
<1>1. TypeOK /\ RowsAgree
  BY DEF IdentityInv
<1>2. d \in Devices /\ request[q].report \in SUBSET Capabilities
  BY <1>1 DEF IdentityInv, RequestsSound, Sound, NamesRows, Heartbeat, TypeOK, Request
<1>3. /\ device' = [device EXCEPT ![d].reported = request[q].report]
      /\ Answered(q) /\ UNCHANGED <<owners, enrollment, expired, credential>>
  BY DEF Heartbeat
<1> HIDE DEF d
<1>4. TypeOK'
  BY <1>1, <1>2, <1>3, IdleIsRequest DEF TypeOK, Answered, DeviceRow
<1>5. \A x \in Devices : /\ device'[x].status = device[x].status
                         /\ device'[x].from = device[x].from
  BY <1>1, <1>2, <1>3 DEF TypeOK, DeviceRow
<1>6. RowsAgree' /\ EnrolledOnce'
  BY <1>1, <1>3, <1>5 DEF RowsAgree, EnrolledOnce, IdentityInv
<1>7. \A x : LiveOf(x)' = LiveOf(x)
  BY <1>3 DEF LiveOf
<1>8. OneLiveCredential'
  BY <1>5, <1>7 DEF OneLiveCredential, IdentityInv
<1>9. ASSUME NEW x \in Slots \ {q}, request'[x] = request[x] PROVE Sound(x)'
  <2>1. Sound(x)
    BY DEF IdentityInv, RequestsSound
  <2>2. request[x].op \in {"heartbeat", "rotate"} => request[x].device \in Devices
    BY <2>1 DEF Sound, NamesRows
  <2>3. LocksInOrder(x)' /\ HoldsOpen(x)'
    BY <1>3, <1>9, <2>1 DEF Sound, LocksInOrder, HoldsOpen
  <2>4. NamesRows(x)' /\ HoldsActive(x)'
    BY <1>3, <1>5, <1>9, <2>1, <2>2 DEF Sound, NamesRows, HoldsActive
  <2>5. HoldsLive(x)'
    BY <1>3, <1>7, <1>9, <2>1 DEF Sound, HoldsLive
  <2> QED
    BY <2>3, <2>4, <2>5 DEF Sound
<1> QED
  BY <1>3, <1>4, <1>6, <1>8, <1>9, CommitStep

(* The old credential is the only live one of the device, which nobody else *)
(* has locked.                                                              *)
LEMMA RotateStep ==
  ASSUME IdentityInv, NEW q \in Slots, Rotate(q)
  PROVE  IdentityInv'
<1>1. TypeOK /\ RowsAgree /\ Sound(q)
  BY DEF IdentityInv, RequestsSound
<1>2. /\ request[q].op = "rotate"
      /\ "device" \in request[q].locks /\ "credential" \in request[q].locks
  BY DEF Rotate, Ready, Locks
<1>3. PICK d \in Devices, old \in Credentials :
        /\ d = request[q].device /\ device[d].status = "active"
        /\ old = request[q].credential
        /\ credential[old].status = "live" /\ credential[old].device = d
  BY <1>1, <1>2 DEF Sound, NamesRows, HoldsActive, HoldsLive
<1>4. PICK k \in Credentials : k = NewCredential /\ credential[k].status = "none"
  BY DEF Rotate, UnusedCredentials, NewCredential
<1>5. k # old
  BY <1>3, <1>4
<1>6. /\ credential' = [credential EXCEPT
           ![old].status = "revoked",
           ![k] = [status |-> "live", device |-> d, from |-> old]]
      /\ Answered(q) /\ UNCHANGED <<owners, enrollment, expired, device>>
  BY <1>3, <1>4 DEF Rotate
<1>7. ASSUME NEW x \in Slots \ {q}, "device" \in request[x].locks
      PROVE  request[x].device # d
  BY <1>2, <1>3, <1>7 DEF IdentityInv, Exclusive, Clash
<1>8. /\ credential'[k] = [status |-> "live", device |-> d, from |-> old]
      /\ credential'[old] = [credential[old] EXCEPT !.status = "revoked"]
      /\ \A x \in Credentials \ {k, old} : credential'[x] = credential[x]
  BY <1>1, <1>3, <1>4, <1>5, <1>6 DEF TypeOK
<1>9. /\ credential'[k].status = "live" /\ credential'[k].device = d
      /\ credential'[old].status = "revoked"
      /\ \A c \in Credentials \ {k} :
           /\ credential'[c].device = credential[c].device
           /\ credential'[c].status = "none" <=> credential[c].status = "none"
           /\ credential'[c].status = "live" <=> credential[c].status = "live" /\ c # old
  <2>1. credential[old] \in CredentialRow
    BY <1>1, <1>3 DEF TypeOK
  <2>2. credential'[old].status = "revoked" /\ credential'[old].device = credential[old].device
    BY <1>8, <2>1 DEF CredentialRow
  <2>3. credential'[k].status = "live" /\ credential'[k].device = d
    BY <1>8
  <2>4. ASSUME NEW c \in Credentials \ {k}
        PROVE  /\ credential'[c].device = credential[c].device
               /\ credential'[c].status = "none" <=> credential[c].status = "none"
               /\ credential'[c].status = "live" <=> credential[c].status = "live" /\ c # old
    <3>1. CASE c = old
      BY <1>3, <2>2, <3>1
    <3>2. CASE c # old
      BY <1>8, <3>2
    <3> QED
      BY <3>1, <3>2
  <2> QED
    BY <2>2, <2>3, <2>4
<1>10. TypeOK'
  <2>1. credential' \in [Credentials -> CredentialRow]
    BY <1>1, <1>3, <1>4, <1>6 DEF TypeOK, CredentialRow
  <2> QED
    BY <1>1, <1>6, <2>1, IdleIsRequest DEF TypeOK, Answered
<1>11. RowsAgree' /\ EnrolledOnce'
  <2>1. ASSUME NEW c \in Credentials, credential'[c].status # "none"
        PROVE  /\ credential'[c].device \in Devices
               /\ device[credential'[c].device].status # "none"
    BY <1>1, <1>3, <1>9, <2>1 DEF RowsAgree
  <2> QED
    BY <1>1, <1>6, <2>1 DEF RowsAgree, EnrolledOnce, IdentityInv
<1>12. LiveOf(d)' = {k}
  <2>1. \E c \in Credentials : LiveOf(d) = {c}
    BY <1>3 DEF IdentityInv, OneLiveCredential
  <2>2. LiveOf(d) = {old}
    BY <1>3, <2>1 DEF LiveOf
  <2>3. ASSUME NEW c \in Credentials PROVE c \in LiveOf(d)' <=> c = k
    BY <1>4, <1>5, <1>9, <2>2 DEF LiveOf
  <2> QED
    BY <1>4, <2>3 DEF LiveOf
<1>13. ASSUME NEW x, x # d PROVE LiveOf(x)' = LiveOf(x)
  <2>1. ASSUME NEW c \in Credentials PROVE c \in LiveOf(x)' <=> c \in LiveOf(x)
    BY <1>3, <1>4, <1>9, <1>13 DEF LiveOf
  <2> QED
    BY <2>1 DEF LiveOf
<1>14. OneLiveCredential'
  <2> SUFFICES ASSUME NEW x \in Devices
               PROVE  /\ device'[x].status = "active" =>
                           \E c \in Credentials : LiveOf(x)' = {c}
                      /\ device'[x].status # "active" => LiveOf(x)' = {}
    BY DEF OneLiveCredential
  <2>1. CASE x = d
    BY <1>3, <1>4, <1>6, <1>12, <2>1
  <2>2. CASE x # d
    BY <1>6, <1>13, <2>2 DEF IdentityInv, OneLiveCredential
  <2> QED
    BY <2>1, <2>2
<1>15. ASSUME NEW x \in Slots \ {q}, request'[x] = request[x] PROVE Sound(x)'
  <2>1. Sound(x)
    BY DEF IdentityInv, RequestsSound
  <2>2. LocksInOrder(x)' /\ HoldsOpen(x)' /\ HoldsActive(x)'
    BY <1>6, <1>15, <2>1 DEF Sound, LocksInOrder, HoldsOpen, HoldsActive
  <2>3. NamesRows(x)'
    <3>1. NamesRows(x)
      BY <2>1 DEF Sound
    <3>2. request[x].op \in {"read", "heartbeat", "rotate", "revoke"} =>
            request'[x].device \in Devices /\ device'[request'[x].device].status # "none"
      BY <1>6, <1>15, <3>1 DEF NamesRows
    <3>3. ASSUME request[x].op \in {"read", "heartbeat", "rotate"}
          PROVE  /\ request'[x].credential \in Credentials
                 /\ credential'[request'[x].credential].status # "none"
                 /\ credential'[request'[x].credential].device = request'[x].device
      <4>1. /\ request[x].credential \in Credentials
            /\ credential[request[x].credential].status # "none"
            /\ credential[request[x].credential].device = request[x].device
        BY <3>1, <3>3 DEF NamesRows
      <4>2. request[x].credential \in Credentials \ {k}
        BY <1>4, <4>1
      <4>3. /\ credential'[request[x].credential].status # "none"
            /\ credential'[request[x].credential].device = request[x].device
        BY <1>9, <4>1, <4>2
      <4> QED
        BY <1>15, <4>1, <4>3
    <3> QED
      BY <1>15, <3>2, <3>3 DEF NamesRows
  <2>4. "credential" \in request[x].locks => request[x].device # d
    BY <1>7, <2>1 DEF Sound, LocksInOrder
  <2>5. HoldsLive(x)'
    <3> SUFFICES ASSUME "credential" \in request[x].locks
                 PROVE  HoldsLive(x)'
      BY <1>15 DEF HoldsLive
    <3>1. request[x].op = "rotate" =>
            /\ request[x].credential \in Credentials
            /\ credential[request[x].credential].device # d
            /\ credential[request[x].credential].status = "live"
      BY <2>1, <2>4 DEF Sound, NamesRows, HoldsLive
    <3>2. request[x].op = "rotate" =>
            credential'[request[x].credential] = credential[request[x].credential]
      BY <1>3, <1>4, <1>8, <3>1
    <3> QED
      BY <1>13, <1>15, <2>1, <2>4, <3>1, <3>2 DEF Sound, HoldsLive
  <2> QED
    BY <2>2, <2>3, <2>5 DEF Sound
<1> QED
  BY <1>6, <1>10, <1>11, <1>14, <1>15, CommitStep

LEMMA RevokeStep ==
  ASSUME IdentityInv, NEW q \in Slots, Revoke(q)
  PROVE  IdentityInv' /\ device'[request[q].device].status = "revoked"
<1>1. TypeOK /\ RowsAgree /\ Sound(q)
  BY DEF IdentityInv, RequestsSound
<1>2. /\ request[q].op = "revoke"
      /\ "device" \in request[q].locks /\ "credential" \in request[q].locks
  BY DEF Revoke, Ready, Locks
<1>3. PICK d \in Devices :
        /\ d = request[q].device /\ device[d].status # "none"
        /\ request[q].creds = LiveOf(d)
  BY <1>1, <1>2 DEF Sound, NamesRows, HoldsLive
<1>4. /\ device' = [device EXCEPT ![d].status = "revoked"]
      /\ credential' = [k \in Credentials |->
           IF k \in LiveOf(d)
           THEN [credential[k] EXCEPT !.status = "revoked"] ELSE credential[k]]
      /\ Answered(q) /\ UNCHANGED <<owners, enrollment, expired>>
  BY <1>3 DEF Revoke
<1>5. ASSUME NEW x \in Slots \ {q}, "device" \in request[x].locks
      PROVE  request[x].device # d
  BY <1>2, <1>3, <1>5 DEF IdentityInv, Exclusive, Clash
<1>6. /\ device'[d].status = "revoked" /\ device'[d].from = device[d].from
      /\ \A x \in Devices \ {d} : device'[x] = device[x]
  BY <1>1, <1>3, <1>4 DEF TypeOK, DeviceRow
<1>7. ASSUME NEW k \in Credentials
      PROVE  /\ credential'[k].device = credential[k].device
             /\ k \in LiveOf(d) => credential'[k].status = "revoked"
             /\ k \notin LiveOf(d) => credential'[k] = credential[k]
             /\ credential'[k] \in CredentialRow
  BY <1>1, <1>4 DEF TypeOK, CredentialRow
<1>8. TypeOK'
  <2>1. credential' \in [Credentials -> CredentialRow]
    <3> DEFINE row(k) == IF k \in LiveOf(d)
                         THEN [credential[k] EXCEPT !.status = "revoked"] ELSE credential[k]
    <3>1. \A k \in Credentials : row(k) = credential'[k]
      BY <1>4
    <3>2. \A k \in Credentials : row(k) \in CredentialRow
      BY <1>7, <3>1
    <3>3. credential' = [k \in Credentials |-> row(k)]
      BY <1>4
    <3> HIDE DEF row
    <3> QED
      BY <3>2, <3>3
  <2>2. device' \in [Devices -> DeviceRow]
    BY <1>1, <1>3, <1>4 DEF TypeOK, DeviceRow
  <2> QED
    BY <1>1, <1>4, <2>1, <2>2, IdleIsRequest DEF TypeOK, Answered
<1>9. \A k \in Credentials : credential[k].status = "none" <=> credential'[k].status = "none"
  BY <1>7 DEF LiveOf
<1>10. RowsAgree'
  BY <1>1, <1>3, <1>4, <1>6, <1>7, <1>9 DEF RowsAgree
<1>11. EnrolledOnce'
  <2>1. \A x \in Devices : /\ device'[x].from = device[x].from
                           /\ device'[x].status = "none" <=> device[x].status = "none"
    BY <1>3, <1>6
  <2> QED
    BY <1>4, <2>1 DEF IdentityInv, EnrolledOnce
<1>12. LiveOf(d)' = {}
  BY <1>7 DEF LiveOf
<1>13. ASSUME NEW x, x # d PROVE LiveOf(x)' = LiveOf(x)
  <2>1. ASSUME NEW c \in Credentials PROVE c \in LiveOf(x)' <=> c \in LiveOf(x)
    BY <1>7, <1>13 DEF LiveOf
  <2> QED
    BY <2>1 DEF LiveOf
<1>14. OneLiveCredential'
  BY <1>6, <1>12, <1>13 DEF IdentityInv, OneLiveCredential
<1>15. ASSUME NEW x \in Slots \ {q}, request'[x] = request[x] PROVE Sound(x)'
  <2>1. Sound(x)
    BY DEF IdentityInv, RequestsSound
  <2>2. LocksInOrder(x)' /\ HoldsOpen(x)'
    BY <1>4, <1>15, <2>1 DEF Sound, LocksInOrder, HoldsOpen
  <2>3. NamesRows(x)'
    BY <1>3, <1>6, <1>7, <1>9, <1>15, <2>1 DEF Sound, NamesRows
  <2>4. HoldsActive(x)'
    BY <1>5, <1>6, <1>15, <2>1 DEF Sound, HoldsActive, NamesRows
  <2>5. "credential" \in request[x].locks => request[x].device # d
    BY <1>5, <2>1 DEF Sound, LocksInOrder
  <2>6. HoldsLive(x)'
    <3> SUFFICES ASSUME "credential" \in request[x].locks
                 PROVE  HoldsLive(x)'
      BY <1>15 DEF HoldsLive
    <3>1. request[x].op = "rotate" =>
            /\ request[x].credential \in Credentials
            /\ credential[request[x].credential].device # d
      BY <2>1, <2>5 DEF Sound, NamesRows
    <3>2. request[x].op = "rotate" =>
            credential'[request[x].credential] = credential[request[x].credential]
      BY <1>7, <3>1 DEF LiveOf
    <3> QED
      BY <1>13, <1>15, <2>1, <2>5, <3>2 DEF Sound, HoldsLive
  <2> QED
    BY <2>2, <2>3, <2>4, <2>6 DEF Sound
<1> QED
  BY <1>3, <1>4, <1>6, <1>8, <1>10, <1>11, <1>14, <1>15, CommitStep

-----------------------------------------------------------------------------
(* The invariant                                                            *)

LEMMA InitIdentity == Init => IdentityInv
<1> SUFFICES ASSUME Init PROVE IdentityInv
  OBVIOUS
<1>1. TypeOK
  BY IdleIsRequest DEF Init, TypeOK, DeviceRow, CredentialRow
<1>2. OneOwner /\ RowsAgree /\ EnrolledOnce
  BY DEF Init, OneOwner, RowsAgree, EnrolledOnce
<1>3. OneLiveCredential
  BY DEF Init, OneLiveCredential, LiveOf
<1>4. RequestsSound /\ Exclusive
  BY DEF Init, RequestsSound, Sound, LocksInOrder, HoldsOpen, NamesRows, HoldsActive,
         HoldsLive, Idle, Exclusive, Clash, Locks
<1> QED
  BY <1>1, <1>2, <1>3, <1>4 DEF IdentityInv

LEMMA NextIdentity == IdentityInv /\ [Next]_vars => IdentityInv'
<1> SUFFICES ASSUME IdentityInv, [Next]_vars PROVE IdentityInv'
  OBVIOUS
<1>0. owners \in {0, 1}
  BY DEF IdentityInv, OneOwner
<1>1. ASSUME NEW e \in Enrollments, CreateEnrollment(e) \/ Expire(e) PROVE IdentityInv'
  BY <1>1, CreateEnrollmentStep, ExpireStep
<1>2. ASSUME NEW q \in Slots, Arrive(q) PROVE IdentityInv'
  BY <1>2, CountOwnersStep, ArriveRedeemStep, AuthenticateStep, ArriveRevokeStep
     DEF Arrive
<1>3. ASSUME NEW q \in Slots, NEW lock \in Lock, TakeLock(q, lock) \/ Refuse(q, lock)
      PROVE  IdentityInv'
  BY <1>0, <1>3, TakeLockStep, AnswerStep DEF Refuse, rows
<1>4. ASSUME NEW q \in Slots, ReadSelf(q) \/ Abort(q) PROVE IdentityInv'
  BY <1>0, <1>4, AnswerStep DEF ReadSelf, Abort, rows
<1>5. ASSUME NEW q \in Slots, Serve(q) PROVE IdentityInv'
  BY <1>3, <1>4, <1>5, InsertOwnerStep, RedeemStep, HeartbeatStep, RotateStep, RevokeStep
     DEF Serve
<1>6. CASE UNCHANGED vars
  BY <1>6 DEF IdentityInv, TypeOK, OneOwner, RowsAgree, RequestsSound, Exclusive, Clash,
              EnrolledOnce, OneLiveCredential, LiveOf, Sound, LocksInOrder, HoldsOpen,
              NamesRows, HoldsActive, HoldsLive, vars, rows
<1> QED
  BY <1>1, <1>2, <1>4, <1>5, <1>6 DEF Next

(* The types of the rows and requests, and all that a request relies on     *)
(* between the transaction that authenticated it and its own commit.        *)
THEOREM IdentitySafe == Spec => []IdentityInv
<1> QED
  BY InitIdentity, NextIdentity, PTL DEF Spec

(* However many redemptions of one code race, one device comes of it: the   *)
(* row lock of the enrollment makes the second one see it consumed.         *)
THEOREM OneDevicePerEnrollment == Spec => []EnrolledOnce
<1>1. IdentityInv => EnrolledOnce
  BY DEF IdentityInv
<1> QED
  BY <1>1, IdentitySafe, PTL

(* An active device has exactly one live credential through any race of     *)
(* rotations, heartbeats and revocations.                                   *)
THEOREM OneCredentialPerDevice == Spec => []OneLiveCredential
<1>1. IdentityInv => OneLiveCredential
  BY DEF IdentityInv
<1> QED
  BY <1>1, IdentitySafe, PTL

(* The row locks are taken in one order by every operation, so two          *)
(* transactions never wait for each other.                                  *)
THEOREM NoDeadlock == Spec => []NoLockCycle
<1>1. ASSUME IdentityInv PROVE NoLockCycle
  <2> SUFFICES ASSUME NEW x \in Slots, NEW q \in Slots, x # q,
                      NEW a \in Lock, Wants(q, a), HoldsRow(x, q, a),
                      NEW b \in Lock, Wants(x, b), HoldsRow(q, x, b)
               PROVE  FALSE
    BY DEF NoLockCycle, Blocks
  <2>1. LocksInOrder(x) /\ LocksInOrder(q)
    BY <1>1 DEF IdentityInv, RequestsSound, Sound
  <2>2. a \in request[x].locks /\ b \in request[q].locks
    BY DEF HoldsRow
  <2>3. /\ a \in Locks(request[q].op) /\ a \notin request[q].locks
        /\ b \in Locks(request[x].op) /\ b \notin request[x].locks
    BY DEF Wants
  <2>4. a # "enrollment" /\ b # "enrollment"
    BY <2>1, <2>2, <2>3 DEF Locks, LocksInOrder
  <2>5. a # b
    BY <2>2, <2>3
  <2> QED
    BY <2>1, <2>2, <2>3, <2>4, <2>5 DEF LocksInOrder, Lock
<1> QED
  BY <1>1, IdentitySafe, PTL

(* Nothing that was in flight when a device was revoked writes it           *)
(* afterwards or leaves it a live credential.                               *)
THEOREM RevokedForEver == Spec => RevocationIsFinal
<1> DEFINE Final == \A d \in Devices : device[d].status = "revoked" =>
                      device'[d] = device[d] /\ LiveOf(d)' = {}
<1>1. ASSUME IdentityInv, IdentityInv', [Next]_vars PROVE Final
  <2> SUFFICES ASSUME NEW d \in Devices, device[d].status = "revoked"
               PROVE  device'[d] = device[d] /\ LiveOf(d)' = {}
    OBVIOUS
  <2>1. device \in [Devices -> DeviceRow] /\ device[d] \in DeviceRow
    BY <1>1 DEF IdentityInv, TypeOK
  <2>2. ASSUME NEW q \in Slots, Redeem(q) PROVE device'[d] = device[d]
    <3>1. PICK n \in Devices : n = NewDevice /\ device[n].status = "none"
      BY <2>2 DEF Redeem, UnusedDevices, NewDevice
    <3> QED
      BY <2>1, <2>2, <3>1 DEF Redeem
  <2>3. ASSUME NEW q \in Slots, Heartbeat(q) PROVE device'[d] = device[d]
    <3>1. device[request[q].device].status = "active"
      BY <1>1, <2>3 DEF IdentityInv, RequestsSound, Sound, HoldsActive, Heartbeat, Ready, Locks
    <3> QED
      BY <2>1, <2>3, <3>1 DEF Heartbeat
  <2>4. ASSUME NEW q \in Slots, Revoke(q) PROVE device'[d] = device[d]
    <3>1. [device[d] EXCEPT !.status = "revoked"] = device[d]
      BY <2>1 DEF DeviceRow
    <3> QED
      BY <2>1, <2>4, <3>1 DEF Revoke
  <2>5. device'[d] = device[d]
    <3>1. ASSUME NEW q \in Slots, Arrive(q) PROVE device'[d] = device[d]
      BY <3>1 DEF Arrive, CountOwners, ArriveRedeem, Authenticate, ArriveRevoke, rows
    <3>2. ASSUME NEW q \in Slots, Serve(q) \/ Abort(q) PROVE device'[d] = device[d]
      BY <2>2, <2>3, <2>4, <3>2
         DEF Serve, Abort, InsertOwner, TakeLock, Refuse, ReadSelf, Rotate, rows
    <3> QED
      BY <1>1, <3>1, <3>2 DEF Next, CreateEnrollment, Expire, vars, rows
  <2> QED
    BY <1>1, <2>5 DEF IdentityInv, OneLiveCredential
<1>2. IdentityInv /\ IdentityInv' /\ [Next]_vars =>
        [\A d \in Devices : device[d].status = "revoked" =>
           /\ device'[d] = device[d]
           /\ LiveOf(d)' = {}]_vars
  BY <1>1
<1> QED
  BY <1>2, IdentitySafe, PTL DEF Spec, RevocationIsFinal

-----------------------------------------------------------------------------
(* The event stream                                                         *)

OpenPhase == {"top", "replaying", "checking", "sending", "waiting"}

(* Whoever has access to a session may see all that is in its log: access   *)
(* does not come back once it ended.                                        *)
Informed ==
    /\ \A s \in Sessions : session[s].status = "none" => log[s] = <<>>
    /\ \A s \in Sessions, k \in Credentials :
         session[s].status = "active" /\ credential[k].status # "revoked" =>
            \A j \in 1..Len(log[s]) : k \in log[s][j]

(* What a stream that knows r may rely on.                                  *)
Attached(r) ==
    \/ r.session \in Sessions /\ r.credential \in Credentials
    \/ r.got = <<>> /\ r.phase \notin OpenPhase
(* The batch in hand are the rows right behind the cursor.                  *)
BatchRead(r) ==
    /\ r.phase \in {"checking", "sending"} =>
         /\ r.batch # <<>>
         /\ \A i \in 1..Len(r.batch) :
               r.batch[i] = r.cursor + i /\ r.batch[i] \in 1..Len(log[r.session])
    /\ r.phase = "checking" => r.sent = 0
    /\ r.phase = "sending" =>
         /\ r.sent <= Len(r.batch)
         /\ \A i \in 1..Len(r.batch) : r.credential \in log[r.session][r.batch[i]]
Entitled(r) ==
    \A i \in 1..Len(r.got) : /\ r.got[i] \in 1..Len(log[r.session])
                             /\ r.credential \in log[r.session][r.got[i]]
(* The frames sent are those up to the cursor and the part of the batch     *)
(* that was sent since.                                                     *)
Sent(r) == IF r.phase = "sending" THEN r.sent ELSE 0
InOrder(r) ==
    /\ \A i \in 1..Len(r.got) : r.got[i] = r.after + i
    /\ r.cursor <= r.after + Len(r.got)
    /\ r.phase \in OpenPhase => r.cursor + Sent(r) = r.after + Len(r.got)
Good(r) == Attached(r) /\ BatchRead(r) /\ Entitled(r) /\ InOrder(r)

SessionRow == [status : {"none", "active", "closed"}, device : Devices \cup {NoDevice}]
StreamTyped ==
    /\ session \in [Sessions -> SessionRow]
    /\ log \in [Sessions -> Seq(SUBSET Credentials)]
    /\ stream \in [Streams -> Stream]

StreamInv ==
    /\ IdentityInv
    /\ StreamTyped
    /\ Informed
    /\ \A w \in Streams : Good(stream[w])

-----------------------------------------------------------------------------
(* The identity service                                                     *)

LEMMA RevokedStays ==
  ASSUME TypeOK, [Next]_vars, NEW k \in Credentials, credential[k].status = "revoked"
  PROVE  credential'[k].status = "revoked"
<1>0. credential \in [Credentials -> CredentialRow]
  BY DEF TypeOK
<1>1. CASE UNCHANGED credential
  BY <1>1
<1>2. UnusedCredentials # {} => NewCredential \in Credentials \ {k}
  BY DEF UnusedCredentials, NewCredential
<1>3. ASSUME NEW q \in Slots, Redeem(q) PROVE credential'[k].status = "revoked"
  BY <1>0, <1>2, <1>3 DEF Redeem
<1>4. ASSUME NEW q \in Slots, Rotate(q) PROVE credential'[k].status = "revoked"
  <2>1. NewCredential # k
    BY <1>2, <1>4 DEF Rotate
  <2> DEFINE new == [status |-> "live", device |-> request[q].device,
                     from |-> request[q].credential]
  <2>2. credential' = [credential EXCEPT ![request[q].credential].status = "revoked",
                                         ![NewCredential] = new]
    BY <1>4 DEF Rotate
  <2> HIDE DEF new
  <2> QED
    BY <1>0, <2>1, <2>2 DEF CredentialRow
<1>5. ASSUME NEW q \in Slots, Revoke(q) PROVE credential'[k].status = "revoked"
  BY <1>0, <1>5 DEF Revoke, CredentialRow
<1>6. ASSUME NEW q \in Slots, Serve(q) PROVE credential'[k].status = "revoked"
  BY <1>1, <1>3, <1>4, <1>5, <1>6
     DEF Serve, InsertOwner, TakeLock, Refuse, ReadSelf, Heartbeat, rows
<1>7. ASSUME NEW q \in Slots, Arrive(q) \/ Abort(q) PROVE UNCHANGED credential
  BY <1>7 DEF Arrive, CountOwners, ArriveRedeem, Authenticate, ArriveRevoke, Abort, rows
<1>8. ASSUME NEW e \in Enrollments, CreateEnrollment(e) \/ Expire(e)
      PROVE  UNCHANGED credential
  BY <1>8 DEF CreateEnrollment, Expire
<1>9. CASE UNCHANGED vars
  BY <1>1, <1>9 DEF vars, rows
<1> QED
  BY <1>1, <1>6, <1>7, <1>8, <1>9 DEF Next

LEMMA IdentityStep ==
  ASSUME StreamInv, [Next]_vars, UNCHANGED streamVars
  PROVE  StreamInv'
<1>1. IdentityInv'
  BY NextIdentity DEF StreamInv
<1>2. StreamTyped' /\ UNCHANGED <<session, log, stream>>
  BY DEF StreamInv, StreamTyped, streamVars
<1>3. Informed'
  <2>1. \A k \in Credentials :
          credential'[k].status # "revoked" => credential[k].status # "revoked"
    BY RevokedStays DEF StreamInv, IdentityInv
  <2> QED
    BY <1>2, <2>1 DEF StreamInv, Informed
<1>4. \A w \in Streams : Good(stream[w])'
  BY <1>2 DEF StreamInv, Good, Attached, BatchRead, Entitled, InOrder, Sent
<1> QED
  BY <1>1, <1>2, <1>3, <1>4 DEF StreamInv

-----------------------------------------------------------------------------
(* The writers of the log                                                   *)

LEMMA RowsStep ==
  ASSUME StreamInv, UNCHANGED <<vars, stream>>,
         session' \in [Sessions -> SessionRow], log' \in [Sessions -> Seq(SUBSET Credentials)],
         \A s \in Sessions : /\ Len(log[s]) <= Len(log'[s])
                             /\ \A j \in 1..Len(log[s]) : log'[s][j] = log[s][j],
         Informed'
  PROVE  StreamInv'
<1>1. IdentityInv'
  <2>1. UNCHANGED vars
    OBVIOUS
  <2> QED
    BY <2>1, NextIdentity DEF StreamInv
<1>2. StreamTyped'
  BY DEF StreamInv, StreamTyped
<1>3. ASSUME NEW w \in Streams PROVE Good(stream[w])'
  <2> DEFINE r == stream[w]
  <2>1. r' = r /\ Good(r) /\ r \in Stream
    BY DEF StreamInv, StreamTyped
  <2>2. Attached(r)' /\ InOrder(r)'
    BY <2>1 DEF Good, Attached, InOrder, Sent
  <2>3. CASE r.session \in Sessions
    <3>1. /\ Len(log[r.session]) \in Nat /\ Len(log'[r.session]) \in Nat
          /\ Len(log[r.session]) <= Len(log'[r.session])
          /\ \A j \in 1..Len(log[r.session]) : log'[r.session][j] = log[r.session][j]
      BY <2>3 DEF StreamInv, StreamTyped
    <3>2. ASSUME NEW j \in 1..Len(log[r.session])
          PROVE  j \in 1..Len(log'[r.session]) /\ log'[r.session][j] = log[r.session][j]
      <4>1. PICK n \in Nat, m \in Nat :
              n = Len(log[r.session]) /\ m = Len(log'[r.session]) /\ n <= m
        BY <3>1
      <4>2. j \in 1..m
        BY <3>2, <4>1
      <4> QED
        BY <3>1, <4>1, <4>2
    <3>3. BatchRead(r)'
      <4>1. ASSUME r.phase \in {"checking", "sending"}, NEW i \in 1..Len(r.batch)
            PROVE  /\ r.batch[i] = r.cursor + i /\ r.batch[i] \in 1..Len(log'[r.session])
                   /\ r.phase = "sending" => r.credential \in log'[r.session][r.batch[i]]
        <5>1. r.batch[i] \in 1..Len(log[r.session]) /\ r.batch[i] = r.cursor + i
          BY <2>1, <4>1 DEF Good, BatchRead
        <5>2. r.phase = "sending" => r.credential \in log[r.session][r.batch[i]]
          BY <2>1, <4>1 DEF Good, BatchRead
        <5> QED
          BY <3>2, <5>1, <5>2
      <4>2. /\ r.phase \in {"checking", "sending"} => r.batch # <<>>
            /\ r.phase = "checking" => r.sent = 0
            /\ r.phase = "sending" => r.sent <= Len(r.batch)
        BY <2>1 DEF Good, BatchRead
      <4> QED
        BY <2>1, <4>1, <4>2 DEF BatchRead
    <3>4. Entitled(r)'
      <4>1. ASSUME NEW i \in 1..Len(r.got)
            PROVE  /\ r.got[i] \in 1..Len(log'[r.session])
                   /\ r.credential \in log'[r.session][r.got[i]]
        <5>1. r.got[i] \in 1..Len(log[r.session]) /\ r.credential \in log[r.session][r.got[i]]
          BY <2>1 DEF Good, Entitled
        <5> QED
          BY <3>2, <5>1
      <4> QED
        BY <2>1, <4>1 DEF Entitled
    <3> QED
      BY <2>2, <3>3, <3>4 DEF Good
  <2>4. CASE r.session \notin Sessions
    <3>1. r.got = <<>> /\ r.phase \notin OpenPhase
      BY <2>1, <2>4 DEF Good, Attached
    <3> QED
      BY <2>1, <2>2, <3>1 DEF Good, BatchRead, Entitled, OpenPhase
  <2> QED
    BY <2>3, <2>4
<1> QED
  BY <1>1, <1>2, <1>3 DEF StreamInv

LEMMA OpenSessionStep ==
  ASSUME StreamInv, NEW s \in Sessions, NEW d \in Devices, OpenSession(s, d)
  PROVE  StreamInv'
<1>1. /\ session' = [session EXCEPT ![s] = [status |-> "active", device |-> d]]
      /\ UNCHANGED <<vars, log, stream>> /\ log[s] = <<>>
      /\ session \in [Sessions -> SessionRow] /\ log \in [Sessions -> Seq(SUBSET Credentials)]
  BY DEF OpenSession, StreamInv, Informed, StreamTyped
<1>2. session' \in [Sessions -> SessionRow]
  BY <1>1 DEF SessionRow
<1>3. Informed'
  <2>1. credential' = credential /\ log' = log
    BY <1>1 DEF vars, rows
  <2> QED
    BY <1>1, <2>1 DEF StreamInv, Informed
<1> QED
  BY <1>1, <1>2, <1>3, RowsStep

LEMMA AppendStep ==
  ASSUME StreamInv, NEW s \in Sessions, NEW known \in SUBSET Credentials,
         session[s].status # "none",
         log' = [log EXCEPT ![s] = Append(@, known)],
         session' \in [Sessions -> SessionRow],
         \A x \in Sessions \ {s} : session'[x] = session[x],
         session'[s].status \in {session[s].status, "closed"},
         session'[s].status = "active" => known = NotEnded(s),
         UNCHANGED <<vars, stream>>
  PROVE  StreamInv'
<1>1. log \in [Sessions -> Seq(SUBSET Credentials)]
  BY DEF StreamInv, StreamTyped
<1>2. /\ Append(log[s], known) \in Seq(SUBSET Credentials)
      /\ Len(Append(log[s], known)) = Len(log[s]) + 1
      /\ Len(log[s]) \in Nat
      /\ \A j \in 1..Len(log[s]) : Append(log[s], known)[j] = log[s][j]
      /\ Append(log[s], known)[Len(log[s]) + 1] = known
  BY <1>1
<1>3. log'[s] = Append(log[s], known) /\ \A x \in Sessions \ {s} : log'[x] = log[x]
  BY <1>1
<1>4. log' \in [Sessions -> Seq(SUBSET Credentials)]
  BY <1>1, <1>2
<1>5. \A x \in Sessions : /\ Len(log[x]) <= Len(log'[x])
                          /\ \A j \in 1..Len(log[x]) : log'[x][j] = log[x][j]
  <2>1. \A x \in Sessions : Len(log[x]) \in Nat
    BY <1>1
  <2> QED
    BY <1>2, <1>3, <2>1
<1>6. Informed'
  <2>1. credential' = credential
    BY DEF vars, rows
  <2>2. ASSUME NEW x \in Sessions, session'[x].status = "none" PROVE log'[x] = <<>>
    BY <1>3, <2>2 DEF StreamInv, Informed
  <2>3. ASSUME NEW x \in Sessions, NEW k \in Credentials, session'[x].status = "active",
               credential[k].status # "revoked", NEW j \in 1..Len(log'[x])
        PROVE  k \in log'[x][j]
    <3>1. session[x].status = "active"
      BY <2>3
    <3>2. \A i \in 1..Len(log[x]) : k \in log[x][i]
      BY <2>3, <3>1 DEF StreamInv, Informed
    <3>3. CASE x # s
      BY <1>3, <2>3, <3>2, <3>3
    <3>4. CASE x = s
      <4>1. k \in known
        BY <2>3, <3>1, <3>4 DEF NotEnded
      <4>2. j \in 1..Len(log[s]) \/ j = Len(log[s]) + 1
        BY <1>2, <1>3, <2>3, <3>4
      <4> QED
        BY <1>2, <1>3, <3>2, <3>4, <4>1, <4>2
    <3> QED
      BY <3>3, <3>4
  <2> QED
    BY <2>1, <2>2, <2>3 DEF Informed
<1> QED
  BY <1>4, <1>5, <1>6, RowsStep

LEMMA WriterSteps ==
  ASSUME StreamInv, NEW s \in Sessions, Emit(s) \/ CloseSession(s)
  PROVE  StreamInv'
<1>0. session \in [Sessions -> SessionRow]
  BY DEF StreamInv, StreamTyped
<1>1. CASE Emit(s)
  <2>1. NotEnded(s) \in SUBSET Credentials
    BY DEF NotEnded
  <2>2. /\ session[s].status # "none" /\ log' = [log EXCEPT ![s] = Append(@, NotEnded(s))]
        /\ UNCHANGED <<vars, session, stream>>
    BY <1>1 DEF Emit
  <2> QED
    BY <1>0, <2>1, <2>2, AppendStep
<1>2. CASE CloseSession(s)
  <2>1. /\ session[s].status = "active" /\ log' = [log EXCEPT ![s] = Append(@, {})]
        /\ session' = [session EXCEPT ![s].status = "closed"]
        /\ UNCHANGED <<vars, stream>>
    BY <1>2 DEF CloseSession
  <2>2. session' \in [Sessions -> SessionRow] /\ session'[s].status = "closed"
        /\ \A x \in Sessions \ {s} : session'[x] = session[x]
    BY <1>0, <2>1 DEF SessionRow
  <2>3. {} \in SUBSET Credentials
    OBVIOUS
  <2> QED
    BY <2>1, <2>2, <2>3, AppendStep
<1> QED
  BY <1>1, <1>2

-----------------------------------------------------------------------------
(* The loop of a stream                                                     *)

LEMMA OneStream ==
  ASSUME StreamInv, NEW w \in Streams, NEW r \in Stream,
         stream' = [stream EXCEPT ![w] = r], UNCHANGED <<vars, session, log>>, Good(r)
  PROVE  StreamInv'
<1>1. IdentityInv'
  <2>1. UNCHANGED vars
    OBVIOUS
  <2> QED
    BY <2>1, NextIdentity DEF StreamInv
<1>2. StreamTyped'
  BY DEF StreamInv, StreamTyped
<1>3. Informed'
  <2>1. credential' = credential
    BY DEF vars, rows
  <2> QED
    BY <2>1 DEF StreamInv, Informed
<1>4. ASSUME NEW x \in Streams PROVE Good(stream[x])'
  <2>1. stream'[x] = IF x = w THEN r ELSE stream[x]
    BY DEF StreamInv, StreamTyped
  <2>2. Good(stream'[x])
    BY <2>1 DEF StreamInv
  <2> QED
    BY <2>2 DEF Good, Attached, BatchRead, Entitled, InOrder
<1> QED
  BY <1>1, <1>2, <1>3, <1>4 DEF StreamInv

(* A stream goes on, ends or learns that it should.                         *)
LEMMA QuietStep ==
  ASSUME StreamInv, NEW w \in Streams, NEW p \in Phase, NEW due \in BOOLEAN, NEW gone \in BOOLEAN,
         p \in OpenPhase => Open(w) /\ (stream[w].phase = "sending" => p = "sending"),
         p \in {"checking", "sending"} => p = stream[w].phase,
         stream' = [stream EXCEPT ![w] =
                      [stream[w] EXCEPT !.phase = p, !.due = due, !.gone = gone]],
         UNCHANGED <<vars, session, log>>
  PROVE  StreamInv'
<1> DEFINE old == stream[w]
           r == [old EXCEPT !.phase = p, !.due = due, !.gone = gone]
<1>1. old \in Stream /\ Good(old)
  BY DEF StreamInv, StreamTyped
<1>2. /\ r \in Stream /\ r.phase = p /\ r.session = old.session
      /\ r.credential = old.credential /\ r.after = old.after /\ r.cursor = old.cursor
      /\ r.batch = old.batch /\ r.sent = old.sent /\ r.got = old.got
  BY <1>1 DEF Stream
<1> HIDE DEF r
<1>3. Good(r)
  <2>1. Attached(r) /\ BatchRead(r) /\ Entitled(r)
    BY <1>1, <1>2 DEF Good, Attached, BatchRead, Entitled, Open, OpenPhase
  <2>2. InOrder(r)
    BY <1>1, <1>2 DEF Good, InOrder, Sent, Open, OpenPhase
  <2> QED
    BY <2>1, <2>2 DEF Good
<1> QED
  BY <1>2, <1>3, OneStream DEF r

LEMMA GotoStep ==
  ASSUME StreamInv, NEW w \in Streams, NEW p \in Phase, Goto(w, p),
         p \in OpenPhase => Open(w) /\ stream[w].phase # "sending",
         p \notin {"checking", "sending"},
         UNCHANGED <<vars, session, log>>
  PROVE  StreamInv'
<1>1. stream[w] \in Stream
  BY DEF StreamInv, StreamTyped
<1>2. stream[w].due \in BOOLEAN /\ stream[w].gone \in BOOLEAN
  BY <1>1 DEF Stream
<1>3. stream' = [stream EXCEPT ![w] =
                   [stream[w] EXCEPT !.phase = p, !.due = stream[w].due, !.gone = stream[w].gone]]
  BY <1>1 DEF Goto, Stream, StreamInv, StreamTyped
<1> QED
  BY <1>2, <1>3, QuietStep

LEMMA RejectedStep ==
  ASSUME StreamInv, NEW w \in Streams, Rejected(w), UNCHANGED <<vars, session, log>>
  PROVE  StreamInv'
<1>1. PICK p \in {"unauthenticated", "unauthorized", "unavailable"} : Goto(w, p)
  BY DEF Rejected, Refusals
<1> QED
  BY <1>1, GotoStep DEF Phase, Reason, OpenPhase

LEMMA NoStreamTyped == NoStream \in Stream
BY DEF NoStream, Stream, Phase

LEMMA AcceptStep ==
  ASSUME StreamInv, NEW w \in Streams, NEW k \in Credentials, NEW s \in Sessions,
         NEW after \in 0..MaxEvents, Accept(w, k, s, after)
  PROVE  StreamInv'
<1> DEFINE r == [NoStream EXCEPT !.phase = "top", !.session = s, !.credential = k,
                                 !.after = after, !.cursor = after]
<1>1. stream' = [stream EXCEPT ![w] = r] /\ UNCHANGED <<vars, session, log>>
  BY DEF Accept
<1>2. /\ r.phase = "top" /\ r.session = s /\ r.credential = k
      /\ r.after = after /\ r.cursor = after /\ r.got = <<>>
  BY DEF NoStream
<1>3. after \in Nat
  BY StreamConstants
<1>4. r \in Stream
  <2>1. PICK top \in Phase : top = "top"
    BY DEF Phase
  <2>2. [NoStream EXCEPT !.phase = top, !.session = s, !.credential = k,
                         !.after = after, !.cursor = after] \in Stream
    BY <1>3, NoStreamTyped DEF Stream
  <2> QED
    BY <2>1, <2>2
<1> HIDE DEF r
<1>5. Good(r)
  BY <1>2, <1>3 DEF Good, Attached, BatchRead, Entitled, InOrder, Sent
<1> QED
  BY <1>1, <1>4, <1>5, OneStream

LEMMA LoopStep ==
  ASSUME StreamInv, NEW w \in Streams, Loop(w)
  PROVE  StreamInv'
<1>1. stream[w].phase = "top" /\ Open(w) /\ UNCHANGED <<vars, session, log>>
  BY DEF Loop, Open
<1>2. stream[w] \in Stream
  BY DEF StreamInv, StreamTyped
<1>3. CASE Goto(w, "left") \/ Goto(w, "replaying")
  BY <1>1, <1>3, GotoStep DEF Phase, Reason, OpenPhase
<1>4. CASE stream' = [stream EXCEPT ![w].phase = "replaying", ![w].due = FALSE]
  <2>1. stream[w].gone \in BOOLEAN
    BY <1>2 DEF Stream
  <2>2. stream' = [stream EXCEPT ![w] =
                     [stream[w] EXCEPT !.phase = "replaying", !.due = FALSE,
                                       !.gone = stream[w].gone]]
    BY <1>2, <1>4 DEF Stream, StreamInv, StreamTyped
  <2>3. PICK p \in Phase, due \in BOOLEAN, gone \in BOOLEAN :
          p = "replaying" /\ due = FALSE /\ gone = stream[w].gone
    BY <2>1 DEF Phase
  <2>4. stream' = [stream EXCEPT ![w] = [stream[w] EXCEPT !.phase = p, !.due = due, !.gone = gone]]
    BY <2>2, <2>3
  <2>5. p \notin {"checking", "sending"}
    BY <2>3
  <2> QED
    BY <1>1, <2>4, <2>5, QuietStep
<1>5. CASE Rejected(w)
  BY <1>1, <1>5, RejectedStep
<1> QED
  BY <1>3, <1>4, <1>5 DEF Loop

(* The query: the rows right behind the cursor, all of them in the log.     *)
LEMMA EventsBehind ==
  ASSUME NEW s \in Sessions, Len(log[s]) \in Nat, NEW after \in Nat
  PROVE  /\ EventsAfter(s, after) \in Seq(Nat)
         /\ \A i \in 1..Len(EventsAfter(s, after)) :
              /\ EventsAfter(s, after)[i] = after + i
              /\ EventsAfter(s, after)[i] \in 1..Len(log[s])
<1> DEFINE last == Len(log[s])
           newer == last - after
           n == IF newer < ReplayLimit THEN newer ELSE ReplayLimit
           m == IF n > 0 THEN n ELSE 0
<1>1. n \in Int /\ n <= newer /\ newer \in Int
  BY StreamConstants
<1> HIDE DEF last, newer, n
<1>2. m \in Nat /\ 1..n = 1..m
  BY <1>1
<1>3. EventsAfter(s, after) = [i \in 1..m |-> after + i]
  BY <1>2 DEF EventsAfter, n, newer, last
<1> HIDE DEF m
<1>4. [i \in 1..m |-> after + i] \in Seq(Nat) /\ Len([i \in 1..m |-> after + i]) = m
  BY <1>2
<1>5. ASSUME NEW i \in 1..m PROVE after + i \in 1..last
  <2>1. i <= n /\ i >= 1 /\ i \in Int
    BY <1>1, <1>2
  <2>2. last \in Nat /\ newer = last - after
    BY DEF last, newer
  <2> QED
    BY <1>1, <2>1, <2>2
<1> QED
  BY <1>2, <1>3, <1>4, <1>5 DEF last

LEMMA ReplayStep ==
  ASSUME StreamInv, NEW w \in Streams, Replay(w)
  PROVE  StreamInv'
<1> DEFINE old == stream[w]
           events == EventsAfter(old.session, old.cursor)
           r == [old EXCEPT !.phase = "checking", !.batch = events, !.sent = 0]
<1>0. old.phase = "replaying" /\ Open(w) /\ UNCHANGED <<vars, session, log>>
  BY DEF Replay, Open
<1>1. old \in Stream /\ Good(old)
  BY DEF StreamInv, StreamTyped
<1>2. old.session \in Sessions /\ old.credential \in Credentials
  BY <1>0, <1>1 DEF Good, Attached, OpenPhase
<1>3. Len(log[old.session]) \in Nat /\ old.cursor \in Nat
  BY <1>1, <1>2 DEF StreamInv, StreamTyped, Stream
<1>4. CASE Goto(w, "waiting") \/ Goto(w, "aborted")
  BY <1>0, <1>4, GotoStep DEF Phase, Reason, OpenPhase
<1>5. CASE /\ events # <<>>
           /\ stream' = [stream EXCEPT
                ![w].phase = "checking", ![w].batch = events, ![w].sent = 0]
  <2>1. /\ events \in Seq(Nat)
        /\ \A i \in 1..Len(events) :
             events[i] = old.cursor + i /\ events[i] \in 1..Len(log[old.session])
    BY <1>2, <1>3, EventsBehind
  <2>2. stream' = [stream EXCEPT ![w] = r]
    BY <1>1, <1>5 DEF StreamInv, StreamTyped, Stream
  <2> HIDE DEF events
  <2>3. /\ r \in Stream /\ r.phase = "checking" /\ r.session = old.session
        /\ r.credential = old.credential /\ r.after = old.after
        /\ r.cursor = old.cursor /\ r.batch = events /\ r.sent = 0 /\ r.got = old.got
    BY <1>1, <2>1 DEF Stream, Phase
  <2> HIDE DEF r
  <2>4. Attached(r) /\ BatchRead(r) /\ Entitled(r)
    BY <1>1, <1>2, <1>5, <2>1, <2>3 DEF Good, Attached, BatchRead, Entitled
  <2>5. InOrder(r)
    BY <1>0, <1>1, <2>3 DEF Good, InOrder, Sent, OpenPhase
  <2> QED
    BY <1>0, <2>2, <2>3, <2>4, <2>5, OneStream DEF Good
<1> QED
  BY <1>4, <1>5 DEF Replay

(* What the revalidation just found holds for the batch read before it.     *)
LEMMA CheckDeliveryStep ==
  ASSUME StreamInv, NEW w \in Streams, CheckDelivery(w)
  PROVE  StreamInv'
<1> DEFINE old == stream[w]
           p == IF old.gone THEN "left" ELSE "sending"
           r == [old EXCEPT !.phase = p, !.due = FALSE]
<1>0. old.phase = "checking" /\ Open(w) /\ UNCHANGED <<vars, session, log>>
  BY DEF CheckDelivery, Open
<1>1. old \in Stream /\ Good(old)
  BY DEF StreamInv, StreamTyped
<1>2. old.session \in Sessions /\ old.credential \in Credentials
  BY <1>0, <1>1 DEF Good, Attached, OpenPhase
<1>3. CASE Rejected(w) \/ Goto(w, "unavailable")
  BY <1>0, <1>3, RejectedStep, GotoStep DEF Phase, Reason, OpenPhase
<1>4. CASE Delivers(w) /\ stream' = [stream EXCEPT ![w].phase = p, ![w].due = FALSE]
  <2>1. \A j \in 1..Len(log[old.session]) : old.credential \in log[old.session][j]
    <3>1. session[old.session].status = "active" /\ credential[old.credential].status = "live"
      BY <1>4 DEF Delivers, Revalidated, Allowed, MayStream, Valid, Belongs
    <3> QED
      BY <1>2, <3>1 DEF StreamInv, Informed
  <2>3. \A i \in 1..Len(old.batch) : old.credential \in log[old.session][old.batch[i]]
    BY <1>0, <1>1, <2>1 DEF Good, BatchRead
  <2>8. old.sent = 0 /\ old.sent <= Len(old.batch)
    BY <1>0, <1>1 DEF Good, BatchRead, Stream
  <2>4. stream' = [stream EXCEPT ![w] = r]
    BY <1>1, <1>4 DEF StreamInv, StreamTyped, Stream
  <2>5. p \in {"left", "sending"} /\ p \in Phase
    BY DEF Phase, Reason
  <2> HIDE DEF p
  <2>6. /\ r \in Stream /\ r.phase = p /\ r.session = old.session
        /\ r.credential = old.credential /\ r.after = old.after
        /\ r.cursor = old.cursor /\ r.batch = old.batch /\ r.sent = old.sent
        /\ r.got = old.got
    BY <1>1, <2>5 DEF Stream
  <2> HIDE DEF r
  <2>7. Attached(r) /\ BatchRead(r) /\ Entitled(r)
    BY <1>0, <1>1, <1>2, <2>3, <2>5, <2>6, <2>8 DEF Good, Attached, BatchRead, Entitled
  <2>9. InOrder(r)
    BY <1>0, <1>1, <2>5, <2>6, <2>8 DEF Good, InOrder, Sent, OpenPhase
  <2> QED
    BY <1>0, <2>4, <2>6, <2>7, <2>9, OneStream DEF Good
<1> QED
  BY <1>3, <1>4 DEF CheckDelivery

(* A frame is the next event of the batch: the one behind the last frame.   *)
LEMMA SendFrameStep ==
  ASSUME StreamInv, NEW w \in Streams, SendFrame(w)
  PROVE  StreamInv'
<1> DEFINE old == stream[w]
           next == old.sent + 1
           size == Len(old.batch)
           l == Len(old.got)
<1>0. old.phase = "sending" /\ Open(w) /\ UNCHANGED <<vars, session, log>>
  BY DEF SendFrame, Open
<1>1. old \in Stream /\ Good(old)
  BY DEF StreamInv, StreamTyped
<1>2. old.session \in Sessions /\ old.credential \in Credentials
  BY <1>0, <1>1 DEF Good, Attached, OpenPhase
<1>3. PICK after \in Nat, cursor \in Nat, sent \in Nat :
        /\ after = old.after /\ cursor = old.cursor /\ sent = old.sent
        /\ old.got \in Seq(Nat) /\ old.batch \in Seq(Nat) /\ l \in Nat /\ size \in Nat
  BY <1>1 DEF Stream
<1>4. /\ size # 0 /\ sent <= size /\ cursor + sent = after + l
      /\ \A i \in 1..size : /\ old.batch[i] = cursor + i
                            /\ old.batch[i] \in 1..Len(log[old.session])
                            /\ old.credential \in log[old.session][old.batch[i]]
      /\ \A i \in 1..l : old.got[i] = after + i
  <2>1. BatchRead(old) /\ InOrder(old)
    BY <1>1 DEF Good
  <2>2. size # 0
    BY <1>0, <1>3, <2>1 DEF BatchRead
  <2>3. cursor + sent = after + l /\ \A i \in 1..l : old.got[i] = after + i
    BY <1>0, <1>3, <2>1 DEF InOrder, Sent, OpenPhase
  <2> QED
    BY <1>0, <1>3, <2>1, <2>2, <2>3 DEF BatchRead
<1>5. CASE Goto(w, "left")
  BY <1>0, <1>5, GotoStep DEF Phase, Reason, OpenPhase
<1>6. CASE /\ next <= size
           /\ stream' = [stream EXCEPT ![w].got = Append(@, old.batch[next]), ![w].sent = next]
  <2>1. PICK k \in Nat : k = sent + 1 /\ k = next /\ k \in 1..size
    <3>1. next = sent + 1 /\ size \in Nat /\ next <= size
      BY <1>3, <1>6
    <3> HIDE DEF next, size
    <3> QED
      BY <3>1
  <2>4. PICK n \in Nat : /\ n = old.batch[k] /\ n = cursor + k
                         /\ n \in 1..Len(log[old.session])
                         /\ old.credential \in log[old.session][n]
    <3>1. /\ old.batch[k] = cursor + k /\ old.batch[k] \in 1..Len(log[old.session])
          /\ old.credential \in log[old.session][old.batch[k]]
      <4> HIDE DEF old
      <4> QED
        BY <1>4, <2>1
    <3>2. cursor + k \in Nat
      BY <1>3, <2>1
    <3> QED
      BY <3>1, <3>2
  <2> DEFINE got == Append(old.got, n)
             r == [old EXCEPT !.got = got, !.sent = k]
  <2>2. /\ got \in Seq(Nat) /\ Len(got) = l + 1 /\ got[l + 1] = n
        /\ \A i \in 1..l : got[i] = old.got[i]
    BY <1>3
  <2>3. n = after + (l + 1) /\ cursor + k = after + (l + 1)
    <3>1. l \in Nat /\ cursor + sent = after + l /\ k = sent + 1 /\ n = cursor + k
      BY <1>3, <1>4, <2>1, <2>4
    <3> HIDE DEF l
    <3> QED
      BY <3>1
  <2>5. stream' = [stream EXCEPT ![w] = r]
    BY <1>1, <1>6, <2>1, <2>4 DEF StreamInv, StreamTyped, Stream
  <2>6. /\ r \in Stream /\ r.phase = old.phase /\ r.session = old.session
        /\ r.credential = old.credential /\ r.after = old.after
        /\ r.cursor = old.cursor /\ r.batch = old.batch /\ r.sent = k /\ r.got = got
    <3> HIDE DEF got
    <3> QED
      BY <1>1, <2>2 DEF Stream
  <2> HIDE DEF got, r, l
  <2>7. \A i \in 1..Len(got) : i \in 1..l \/ i = l + 1
    BY <1>3, <2>2
  <2>8. Attached(r) /\ BatchRead(r)
    BY <1>0, <1>1, <1>2, <2>1, <2>6 DEF Good, Attached, BatchRead
  <2>9. Entitled(r)
    <3>1. \A i \in 1..Len(got) :
            got[i] \in 1..Len(log[old.session]) /\ old.credential \in log[old.session][got[i]]
      BY <1>1, <2>2, <2>4, <2>7 DEF Good, Entitled, l
    <3> QED
      BY <2>6, <3>1 DEF Entitled
  <2>10. InOrder(r)
    <3>1. \A i \in 1..Len(got) : got[i] = after + i
      BY <1>4, <2>2, <2>3, <2>7 DEF l
    <3>2. cursor <= after + Len(got) /\ cursor + k = after + Len(got)
      BY <1>3, <2>1, <2>2, <2>3
    <3> QED
      BY <1>0, <1>3, <2>6, <3>1, <3>2 DEF InOrder, Sent
  <2> QED
    BY <1>0, <2>5, <2>6, <2>8, <2>9, <2>10, OneStream DEF Good
<1>7. CASE /\ next > size
           /\ stream' = [stream EXCEPT ![w].phase = "top", ![w].cursor = old.batch[size]]
  <2>1. PICK last \in Nat : last = old.batch[size] /\ last = after + l
    <3>1. size \in 1..size /\ sent = size
      <4> HIDE DEF size
      <4> QED
        BY <1>3, <1>4, <1>7
    <3>2. old.batch[size] = cursor + size
      BY <1>4, <3>1
    <3> QED
      BY <1>3, <1>4, <3>1, <3>2
  <2> DEFINE r == [old EXCEPT !.phase = "top", !.cursor = last]
  <2>2. stream' = [stream EXCEPT ![w] = r]
    BY <1>1, <1>7, <2>1 DEF StreamInv, StreamTyped, Stream
  <2>3. /\ r \in Stream /\ r.phase = "top" /\ r.session = old.session
        /\ r.credential = old.credential /\ r.after = old.after
        /\ r.cursor = last /\ r.got = old.got
    BY <1>1 DEF Stream, Phase
  <2> HIDE DEF r
  <2>4. Attached(r) /\ BatchRead(r) /\ Entitled(r)
    BY <1>1, <1>2, <2>3 DEF Good, Attached, BatchRead, Entitled
  <2>5. InOrder(r)
    <3>1. last <= after + l /\ last + 0 = after + l
      BY <1>3, <2>1
    <3> QED
      BY <1>3, <1>4, <2>3, <3>1 DEF InOrder, Sent
  <2> QED
    BY <1>0, <2>2, <2>3, <2>4, <2>5, OneStream DEF Good
<1> QED
  BY <1>5, <1>6, <1>7 DEF SendFrame, LastOf

(* Time passes, a client leaves or the loop rests.                          *)
LEMMA QuietSteps ==
  ASSUME StreamInv, NEW w \in Streams, Pause(w) \/ Elapse(w) \/ Disconnect(w)
  PROVE  StreamInv'
<1>1. stream[w] \in Stream
  BY DEF StreamInv, StreamTyped
<1>2. stream[w].due \in BOOLEAN /\ stream[w].gone \in BOOLEAN /\ stream[w].phase \in Phase
  BY <1>1 DEF Stream
<1>3. CASE Pause(w)
  <2>1. PICK p \in {"left", "top"} : Goto(w, p)
    BY <1>3 DEF Pause
  <2>2. Open(w) /\ stream[w].phase = "waiting" /\ UNCHANGED <<vars, session, log>>
    BY <1>3 DEF Pause, Open
  <2> QED
    BY <2>1, <2>2, GotoStep DEF Phase, Reason, OpenPhase
<1>4. CASE Elapse(w)
  <2>1. stream' = [stream EXCEPT ![w] =
                     [stream[w] EXCEPT !.phase = stream[w].phase, !.due = TRUE,
                                       !.gone = stream[w].gone]]
    BY <1>1, <1>4 DEF Elapse, Stream, StreamInv, StreamTyped
  <2>2. Open(w) /\ UNCHANGED <<vars, session, log>>
    BY <1>4 DEF Elapse
  <2> QED
    BY <1>2, <2>1, <2>2, QuietStep
<1>5. CASE Disconnect(w)
  <2>1. stream' = [stream EXCEPT ![w] =
                     [stream[w] EXCEPT !.phase = stream[w].phase, !.due = stream[w].due,
                                       !.gone = TRUE]]
    BY <1>1, <1>5 DEF Disconnect, Stream, StreamInv, StreamTyped
  <2>2. Open(w) /\ UNCHANGED <<vars, session, log>>
    BY <1>5 DEF Disconnect
  <2> QED
    BY <1>2, <2>1, <2>2, QuietStep
<1> QED
  BY <1>3, <1>4, <1>5

LEMMA RefuseStep ==
  ASSUME StreamInv, NEW w \in Streams, NEW k \in Credentials, NEW s \in Sessions,
         RefuseConnection(w, k, s)
  PROVE  StreamInv'
<1>1. PICK p \in {"unauthenticated", "unauthorized", "unavailable", "aborted"} : Goto(w, p)
  BY DEF RefuseConnection, Refusals
<1>2. UNCHANGED <<vars, session, log>>
  BY DEF RefuseConnection
<1> QED
  BY <1>1, <1>2, GotoStep DEF Phase, Reason, OpenPhase

-----------------------------------------------------------------------------
(* The invariant                                                            *)

LEMMA InitStream == StreamInit => StreamInv
<1> SUFFICES ASSUME StreamInit PROVE StreamInv
  OBVIOUS
<1>1. IdentityInv
  BY InitIdentity DEF StreamInit
<1>2. StreamTyped
  <2>1. [status |-> "none", device |-> NoDevice] \in SessionRow
    BY DEF SessionRow
  <2>2. <<>> \in Seq(SUBSET Credentials)
    OBVIOUS
  <2> QED
    BY NoStreamTyped, <2>1, <2>2 DEF StreamInit, StreamTyped
<1>3. Informed
  BY DEF StreamInit, Informed
<1>4. ASSUME NEW w \in Streams PROVE Good(stream[w])
  <2>1. stream[w] = NoStream
    BY DEF StreamInit
  <2> QED
    BY <2>1 DEF NoStream, Good, Attached, BatchRead, Entitled, InOrder, OpenPhase
<1> QED
  BY <1>1, <1>2, <1>3, <1>4 DEF StreamInv

LEMMA NextStream == StreamInv /\ [StreamNext]_allVars => StreamInv'
<1> SUFFICES ASSUME StreamInv, [StreamNext]_allVars PROVE StreamInv'
  OBVIOUS
<1>1. CASE Next /\ UNCHANGED streamVars
  BY <1>1, IdentityStep
<1>2. CASE \E s \in Sessions : \/ Emit(s) \/ CloseSession(s)
                               \/ \E d \in Devices : OpenSession(s, d)
  BY <1>2, WriterSteps, OpenSessionStep
<1>3. ASSUME NEW w \in Streams, Step(w) \/ Elapse(w) \/ Disconnect(w) PROVE StreamInv'
  <2>1. CASE Loop(w) \/ Replay(w) \/ CheckDelivery(w) \/ SendFrame(w)
    BY <2>1, LoopStep, ReplayStep, CheckDeliveryStep, SendFrameStep
  <2>2. CASE Pause(w) \/ Elapse(w) \/ Disconnect(w)
    BY <2>2, QuietSteps
  <2> QED
    BY <1>3, <2>1, <2>2 DEF Step
<1>4. ASSUME NEW w \in Streams, NEW k \in Credentials, NEW s \in Sessions,
             \/ RefuseConnection(w, k, s)
             \/ \E after \in 0..MaxEvents : Accept(w, k, s, after)
      PROVE  StreamInv'
  BY <1>4, RefuseStep, AcceptStep
<1>5. CASE UNCHANGED allVars
  <2>1. UNCHANGED vars /\ UNCHANGED streamVars
    BY <1>5 DEF allVars
  <2> QED
    BY <2>1, IdentityStep
<1> QED
  BY <1>1, <1>2, <1>3, <1>4, <1>5 DEF StreamNext

(* Every state of the composition satisfies the invariant.                  *)
THEOREM StreamSafe == StreamSpec => []StreamInv
<1> QED
  BY InitStream, NextStream, PTL DEF StreamSpec

(* However many connections, devices and rotations there are, a client is   *)
(* not sent an event of after the end of its access: between the replay and *)
(* the frames the loop holds no lock, only the answer of the revalidation.  *)
THEOREM NothingSentAfterRevocation == StreamSpec => []NothingAfterRevocation
<1>1. StreamInv => NothingAfterRevocation
  BY DEF StreamInv, Good, Entitled, NothingAfterRevocation
<1> QED
  BY <1>1, StreamSafe, PTL

(* What a client got are the events behind its cursor, each once and in     *)
(* order, whatever the batch size and however the log grows between the     *)
(* batches: the frames are those of the batches that were read.             *)
THEOREM EveryEventOnce == StreamSpec => []EachEventOnce
<1>1. ASSUME StreamInv PROVE EachEventOnce
  <2> SUFFICES ASSUME NEW w \in Streams
               PROVE  /\ \A n \in Got(w) : /\ n > stream[w].after
                                          /\ (stream[w].after + 1)..n \subseteq Got(w)
                      /\ \A i, j \in 1..Len(stream[w].got) :
                           i < j => stream[w].got[i] < stream[w].got[j]
                      /\ (stream[w].after + 1)..stream[w].cursor \subseteq Got(w)
    BY DEF EachEventOnce
  <2>1. stream[w] \in Stream /\ InOrder(stream[w])
    BY <1>1 DEF StreamInv, StreamTyped, Good
  <2>2. PICK after \in Nat, cursor \in Nat, l \in Nat :
          after = stream[w].after /\ cursor = stream[w].cursor /\ l = Len(stream[w].got)
    BY <2>1 DEF Stream
  <2>3. cursor <= after + l /\ \A i \in 1..l : stream[w].got[i] = after + i
    BY <2>1, <2>2 DEF InOrder
  <2>4. Got(w) = {after + i : i \in 1..l}
    BY <2>2, <2>3 DEF Got
  <2>5. \A n : n \in Got(w) <=> n \in (after + 1)..(after + l)
    <3>1. ASSUME NEW n \in (after + 1)..(after + l) PROVE n \in {after + i : i \in 1..l}
      <4>1. PICK i \in 1..l : i = n - after /\ n = after + i
        BY <2>2
      <4> QED
        BY <4>1
    <3>2. \A i \in 1..l : after + i \in (after + 1)..(after + l)
      BY <2>2
    <3> QED
      BY <2>4, <3>1, <3>2
  <2> QED
    BY <2>2, <2>3, <2>5
<1> QED
  BY <1>1, StreamSafe, PTL

-----------------------------------------------------------------------------
(* What the end of a stream rests on *)

(* An open stream knows rows that exist.                                    *)
Admissible(r) ==
    r.phase \in OpenPhase =>
        /\ credential[r.credential].status # "none"
        /\ session[r.session].status # "none"
AdmittedInv == StreamInv /\ \A w \in Streams : Admissible(stream[w])

(* When the access of a client ended it does not come back, and nothing but *)
(* the rest of the batch in hand can still be sent.                         *)
AccessEndsForGood ==
    \A w \in Streams : Open(w) /\ ~Revalidated(w) /\ Open(w)' =>
        /\ ~Revalidated(w)'
        /\ stream'[w].phase = "sending" =>
              stream[w].phase = "sending" /\ stream'[w].batch = stream[w].batch

(* A row that exists keeps what identifies it.                              *)
LEMMA DeviceStays ==
  ASSUME IdentityInv, [Next]_vars, NEW d \in Devices, device[d].status # "none"
  PROVE  device'[d].from = device[d].from
<1>1. device \in [Devices -> DeviceRow] /\ device[d] \in DeviceRow
  BY DEF IdentityInv, TypeOK
<1>2. ASSUME NEW q \in Slots, Redeem(q) PROVE device'[d] = device[d]
  <2>1. NewDevice # d
    BY <1>2 DEF Redeem, UnusedDevices, NewDevice
  <2> QED
    BY <1>1, <1>2, <2>1 DEF Redeem
<1>3. ASSUME NEW q \in Slots, Heartbeat(q) \/ Revoke(q) PROVE device'[d].from = device[d].from
  BY <1>1, <1>3 DEF Heartbeat, Revoke, DeviceRow
<1>4. ASSUME NEW q \in Slots, Serve(q) PROVE device'[d].from = device[d].from
  BY <1>2, <1>3, <1>4
     DEF Serve, InsertOwner, TakeLock, Refuse, ReadSelf, Rotate, rows
<1>5. ASSUME NEW q \in Slots, Arrive(q) \/ Abort(q) PROVE UNCHANGED device
  BY <1>5 DEF Arrive, CountOwners, ArriveRedeem, Authenticate, ArriveRevoke, Abort, rows
<1> QED
  BY <1>4, <1>5 DEF Next, CreateEnrollment, Expire, vars, rows

LEMMA CredentialStays ==
  ASSUME IdentityInv, [Next]_vars, NEW k \in Credentials, credential[k].status # "none"
  PROVE  credential'[k].device = credential[k].device /\ credential'[k].status # "none"
<1>1. credential \in [Credentials -> CredentialRow] /\ credential[k] \in CredentialRow
  BY DEF IdentityInv, TypeOK
<1>2. UnusedCredentials # {} => NewCredential # k
  BY DEF UnusedCredentials, NewCredential
<1>3. ASSUME NEW q \in Slots, Redeem(q) PROVE credential'[k] = credential[k]
  BY <1>1, <1>2, <1>3 DEF Redeem
<1>4. ASSUME NEW q \in Slots, Rotate(q)
      PROVE  credential'[k].device = credential[k].device /\ credential'[k].status # "none"
  <2> DEFINE new == [status |-> "live", device |-> request[q].device,
                     from |-> request[q].credential]
  <2>1. credential' = [credential EXCEPT ![request[q].credential].status = "revoked",
                                         ![NewCredential] = new]
    BY <1>4 DEF Rotate
  <2>2. NewCredential # k
    BY <1>2, <1>4 DEF Rotate
  <2> HIDE DEF new
  <2> QED
    BY <1>1, <2>1, <2>2 DEF CredentialRow
<1>5. ASSUME NEW q \in Slots, Revoke(q)
      PROVE  credential'[k].device = credential[k].device /\ credential'[k].status # "none"
  BY <1>1, <1>5 DEF Revoke, CredentialRow
<1>6. ASSUME NEW q \in Slots, Serve(q)
      PROVE  credential'[k].device = credential[k].device /\ credential'[k].status # "none"
  BY <1>3, <1>4, <1>5, <1>6
     DEF Serve, InsertOwner, TakeLock, Refuse, ReadSelf, Heartbeat, rows
<1>7. ASSUME NEW q \in Slots, Arrive(q) \/ Abort(q) PROVE UNCHANGED credential
  BY <1>7 DEF Arrive, CountOwners, ArriveRedeem, Authenticate, ArriveRevoke, Abort, rows
<1> QED
  BY <1>6, <1>7 DEF Next, CreateEnrollment, Expire, vars, rows

(* Access to a session that exists, with a credential that exists, is only  *)
(* lost.                                                                    *)
LEMMA AccessOnlyLost ==
  ASSUME IdentityInv, IdentityInv', [Next]_vars,
         NEW k \in Credentials, credential[k].status # "none", NEW s \in Sessions,
         session'[s].device = session[s].device,
         session'[s].status = "active" => session[s].status = "active",
         Allowed(k, s)'
  PROVE  Allowed(k, s)
<1>1. /\ credential'[k].device = credential[k].device
      /\ credential[k].status \in {"live", "revoked"}
  BY CredentialStays DEF IdentityInv, TypeOK, CredentialRow
<1>2. credential[k].status = "live"
  BY <1>1, RevokedStays DEF IdentityInv, Allowed, MayStream, Valid
<1>3. PICK d \in Devices : d = credential[k].device /\ device[d].status # "none"
  BY DEF IdentityInv, RowsAgree
<1>4. device[d].status = "active"
  BY <1>2, <1>3 DEF IdentityInv, OneLiveCredential, LiveOf
<1>5. device'[d].from = device[d].from
  BY <1>3, DeviceStays
<1> QED
  BY <1>1, <1>2, <1>3, <1>4, <1>5 DEF Allowed, MayStream, Valid, Belongs

(* What a step does to the stream a loop serves, and to its session.        *)
Kept(w) ==
    /\ Open(w)
    /\ stream'[w].credential = stream[w].credential
    /\ stream'[w].session = stream[w].session
    /\ stream'[w].phase = "sending" =>
         \/ stream[w].phase = "sending" /\ stream'[w].batch = stream[w].batch
         \/ Revalidated(w)
Fresh(w) ==
    /\ ~Open(w) /\ UNCHANGED <<vars, session>>
    /\ Allowed(stream'[w].credential, stream'[w].session)
    /\ stream'[w].credential \in Credentials /\ stream'[w].session \in Sessions

LEMMA LoopKeepsNames ==
  ASSUME StreamInv, [StreamNext]_allVars, NEW w \in Streams, Open(w)'
  PROVE  Kept(w) \/ Fresh(w)
<1>1. stream \in [Streams -> Stream]
  BY DEF StreamInv, StreamTyped
<1>2. CASE UNCHANGED stream
  BY <1>2 DEF Open, Kept
<1>3. ASSUME NEW x \in Streams, x # w,
             \/ Step(x) \/ Elapse(x) \/ Disconnect(x)
             \/ \E k \in Credentials, s \in Sessions :
                  \/ RefuseConnection(x, k, s)
                  \/ \E after \in 0..MaxEvents : Accept(x, k, s, after)
      PROVE  stream'[w] = stream[w]
  BY <1>1, <1>3
     DEF Step, Loop, Replay, CheckDelivery, SendFrame, Pause, Elapse, Disconnect,
         RefuseConnection, Accept, Rejected, Goto
<1>4. CASE Loop(w) \/ Replay(w) \/ SendFrame(w) \/ Pause(w)
  <2>1. Open(w)
    BY <1>4 DEF Loop, Replay, SendFrame, Pause, Open
  <2>2. /\ stream'[w].credential = stream[w].credential
        /\ stream'[w].session = stream[w].session
        /\ stream'[w].phase = "sending" =>
             stream[w].phase = "sending" /\ stream'[w].batch = stream[w].batch
    BY <1>1, <1>4 DEF Loop, Replay, SendFrame, Pause, Rejected, Refusals, Goto, Stream
  <2> QED
    BY <2>1, <2>2 DEF Kept
<1>5. CASE CheckDelivery(w)
  BY <1>1, <1>5 DEF CheckDelivery, Delivers, Rejected, Refusals, Goto, Open, Stream, Kept
<1>6. CASE Elapse(w) \/ Disconnect(w)
  BY <1>1, <1>6 DEF Elapse, Disconnect, Open, Stream, Kept
<1>7. ASSUME NEW k \in Credentials, NEW s \in Sessions, RefuseConnection(w, k, s) PROVE FALSE
  <2>1. PICK c \in {"unauthenticated", "unauthorized", "unavailable", "aborted"} : Goto(w, c)
    BY <1>7 DEF RefuseConnection, Refusals
  <2>2. stream'[w].phase = c
    BY <1>1, <2>1 DEF Goto
  <2> QED
    BY <2>2 DEF Open
<1>8. ASSUME NEW k \in Credentials, NEW s \in Sessions, NEW after \in 0..MaxEvents,
             Accept(w, k, s, after)
      PROVE  Fresh(w)
  <2>1. stream'[w].credential = k /\ stream'[w].session = s
    BY <1>1, <1>8 DEF Accept, NoStream
  <2> QED
    BY <1>8, <2>1 DEF Accept, Open, Fresh
<1>9. CASE \E s \in Sessions : \/ Emit(s) \/ CloseSession(s)
                               \/ \E d \in Devices : OpenSession(s, d)
  BY <1>2, <1>9 DEF Emit, CloseSession, OpenSession
<1>10. ASSUME NEW x \in Streams,
              \/ Step(x) \/ Elapse(x) \/ Disconnect(x)
              \/ \E k \in Credentials, s \in Sessions :
                   \/ RefuseConnection(x, k, s)
                   \/ \E after \in 0..MaxEvents : Accept(x, k, s, after),
              Open(w)'
       PROVE  \/ Kept(w)
              \/ Fresh(w)
  <2>1. CASE x # w
    BY <1>3, <1>10, <2>1 DEF Open, Kept
  <2>2. CASE x = w
    BY <1>4, <1>5, <1>6, <1>7, <1>8, <1>10, <2>2 DEF Step, Kept, Fresh
  <2> QED
    BY <2>1, <2>2
<1>11. CASE UNCHANGED streamVars
  BY <1>2, <1>11 DEF streamVars
<1> QED
  BY <1>9, <1>10, <1>11 DEF StreamNext, streamVars, allVars

LEMMA SessionStays ==
  ASSUME StreamInv, [StreamNext]_allVars, NEW s \in Sessions, session[s].status # "none"
  PROVE  /\ session'[s].device = session[s].device /\ session'[s].status # "none"
         /\ session'[s].status = "active" => session[s].status = "active"
<1>1. session \in [Sessions -> SessionRow] /\ session[s] \in SessionRow
  BY DEF StreamInv, StreamTyped
<1>2. ASSUME NEW x \in Sessions, NEW d \in Devices, OpenSession(x, d)
      PROVE  session'[s] = session[s]
  BY <1>1, <1>2 DEF OpenSession
<1>3. ASSUME NEW x \in Sessions, CloseSession(x)
      PROVE  /\ session'[s].device = session[s].device
             /\ session'[s].status \in {session[s].status, "closed"}
  BY <1>1, <1>3 DEF CloseSession, SessionRow
<1>4. ASSUME ~\E x \in Sessions : CloseSession(x) \/ \E d \in Devices : OpenSession(x, d)
      PROVE  session' = session
  BY <1>4
     DEF StreamNext, Emit, Step, Loop, Replay, CheckDelivery, SendFrame, Pause, Elapse,
         Disconnect, RefuseConnection, Accept, streamVars, allVars
<1> QED
  BY <1>2, <1>3, <1>4

LEMMA IdentityMoves ==
  ASSUME [StreamNext]_allVars
  PROVE  [Next]_vars
BY DEF StreamNext, Emit, CloseSession, OpenSession, Step, Loop, Replay, CheckDelivery,
       SendFrame, Pause, Elapse, Disconnect, RefuseConnection, Accept, allVars

LEMMA AccessStep ==
  ASSUME AdmittedInv, [StreamNext]_allVars
  PROVE  AdmittedInv' /\ AccessEndsForGood
<1>1. StreamInv /\ StreamInv' /\ IdentityInv /\ IdentityInv' /\ [Next]_vars
  BY NextStream, IdentityMoves DEF AdmittedInv, StreamInv
<1>2. ASSUME NEW w \in Streams, Open(w)'
      PROVE  /\ Admissible(stream[w])'
             /\ Open(w) /\ ~Revalidated(w) =>
                  /\ ~Revalidated(w)'
                  /\ stream'[w].phase = "sending" =>
                        stream[w].phase = "sending" /\ stream'[w].batch = stream[w].batch
  <2>1. CASE Kept(w)
    <3>1. PICK k \in Credentials, s \in Sessions :
            /\ k = stream[w].credential /\ s = stream[w].session
            /\ credential[k].status # "none" /\ session[s].status # "none"
      BY <1>1, <2>1
         DEF AdmittedInv, Admissible, Open, OpenPhase, StreamInv, Good, Attached, Kept
    <3>2. /\ credential'[k].status # "none" /\ session'[s].status # "none"
          /\ session'[s].device = session[s].device
          /\ session'[s].status = "active" => session[s].status = "active"
      BY <1>1, <3>1, CredentialStays, SessionStays
    <3>3. Allowed(k, s)' => Allowed(k, s)
      BY <1>1, <3>1, <3>2, AccessOnlyLost
    <3>4. Revalidated(w)' => Revalidated(w)
      BY <2>1, <3>1, <3>3 DEF Revalidated, Kept
    <3> QED
      BY <2>1, <3>1, <3>2, <3>4 DEF Admissible, Kept
  <2>2. CASE Fresh(w)
    <3>1. UNCHANGED credential
      BY <2>2 DEF vars, rows, Fresh
    <3> QED
      BY <2>2, <3>1 DEF Admissible, Allowed, MayStream, Valid, Belongs, Fresh
  <2> QED
    BY <1>1, <1>2, <2>1, <2>2, LoopKeepsNames
<1>3. ASSUME NEW w \in Streams PROVE Admissible(stream[w])'
  BY <1>2 DEF Admissible, Open, OpenPhase
<1> QED
  BY <1>1, <1>2, <1>3 DEF AdmittedInv, AccessEndsForGood

(* The end of a client's access is final for its stream, and from then on   *)
(* the loop enters no batch: what it may still send is the rest of the one  *)
(* it has checked, so every later revalidation closes the stream            *)
(* (revalidate_principal before each delivery, _websocket_principal).       *)
THEOREM EndedStreamsStartNothing == StreamSpec => [][AccessEndsForGood]_allVars
<1>1. StreamInit => AdmittedInv
  BY InitStream DEF StreamInit, NoStream, AdmittedInv, Admissible, OpenPhase
<1>2. AdmittedInv /\ [StreamNext]_allVars => AdmittedInv' /\ AccessEndsForGood
  BY AccessStep
<1> QED
  BY <1>1, <1>2, PTL DEF StreamSpec
=============================================================================
