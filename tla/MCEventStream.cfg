SPECIFICATION StreamSpec
CONSTANTS
    Slots = {q1, q2}
    Main = q1
    First = e1
    Enrollments = {e1, e2}
    Devices = {d1, d2}
    Credentials = {k1, k2, k3}
    NoEnrollment = NoEnrollment
    NoDevice = NoDevice
    NoCredential = NoCredential
    Capabilities = {mic}
    Approved <- MCApproved
    Scopes <- MCScopes
    StoreFails = TRUE
    Sessions = {s1}
    Streams = {w1}
    MaxEvents = 3
    ReplayLimit = 2
INVARIANTS
    EnrolledOnce
    OneLiveCredential
    NoLockCycle
    NothingAfterRevocation
    EachEventOnce
PROPERTIES
    RevocationIsFinal
    StreamEnds
    EventArrives
ACTION_CONSTRAINT GoesOn
CHECK_DEADLOCK FALSE
