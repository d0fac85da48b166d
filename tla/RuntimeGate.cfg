SPECIFICATION GateSpec
CONSTANTS
    t1 = t1
    t2 = t2
    Tasks <- TwoTv
    TVTasks <- TwoTv
    Loop = Loop
    NoTask = NoTask
    Never = Never
    Workers = 2
    LiveStartup = TRUE
    TTLs <- OneTtl
    MaxTime = 1
    MaxOps = 2
    MaxCrashes = 1
SYMMETRY TaskSymmetry
INVARIANTS
    TypeOK
    OneShotRowConsistent
    AdmissionJustified
    RefusalJustified
PROPERTIES
    SystemLockReplacesGrant
    LostGrantIsSpent
