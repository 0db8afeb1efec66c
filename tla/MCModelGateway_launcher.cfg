SPECIFICATION Spec
CONSTANTS
    Threads = {t1}
    NoThread = NoThread
    CoreModels = {fast}
    Advanced = advanced
    MaxAttempts = 2
    Threshold = 2
    MaxFaults = 0
INVARIANT
    OneHeavyResident
