SPECIFICATION Spec
CONSTANTS
    Instance = {i1, i2}
    NoInstance = none
    Task = {t1}
    CleanupTask = t1
    Run = {r1, r2}
    LockTimeout = 3
    RefreshInterval = 1
    VerifyLatency = 1
SYMMETRY Symmetry
INVARIANTS
    TypeOK
    RefreshedLeaseLive
    NoLeakedRefresh
    OutcomeMatchesLog
PROPERTIES
    LiveLockRemovedByHolder
