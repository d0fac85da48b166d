SPECIFICATION Spec
CONSTANTS
    t1 = t1
    t2 = t2
    Tasks <- TwoTv
    TVTasks <- TwoTv
    Loop = Loop
    NoTask = NoTask
    Never = Never
    Workers = 2
    LiveStartup = FALSE
    TTLs <- OneTtl
    MaxTime = 1
    MaxOps = 2
    MaxCrashes = 0
INVARIANT
    OneShotAdmitsOneTvSignal
