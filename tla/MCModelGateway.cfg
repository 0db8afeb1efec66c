SPECIFICATION FairSpec
CONSTANTS
    Threads = {t1, t2}
    NoThread = NoThread
    CoreModels = {fast}
    Advanced = advanced
    MaxAttempts = 2
    Threshold = 2
    MaxFaults = 2
INVARIANTS
    TypeOK
    CircuitGuardsCalls
    CoreCircuitIsolated
    OneHeavyUnlessExposed
PROPERTIES
    CallEnds
    CircuitRecovers
