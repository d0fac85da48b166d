SPECIFICATION LiveSpec
CONSTANTS
    t1 = t1
    t2 = t2
    Tasks <- Both
    TVTasks <- Both
    Loop = Loop
    NoTask = NoTask
    Never = Never
    Workers = 2
    LiveStartup = FALSE
    RequireOneShot = TRUE
    Acceptable <- First
    TTLs <- OneTtl
    MaxTime = 1
    MaxOps = 1
    MaxCrashes = 1
INVARIANTS
    GuardTypeOK
    LiveTradeHadGrant
PROPERTIES
    OneShotClosesAfterSignal
