SPECIFICATION Spec
CONSTANTS
    t1 = t1
    t2 = t2
    Tasks <- TwoTasks
    Signals <- MixedSignals
    PlanQty = 2
    ManualQty = 3
    EmergencyClose = TRUE
    Workers = 1
    MaxThin = 1
    MaxFaults = 2
SYMMETRY TaskSymmetry
CHECK_DEADLOCK FALSE
INVARIANTS
    TypeOK
    EntryWithinPlan
    OrderlyEndsAreCovered
    PositionsDoNotStack
PROPERTY
    EmergencyLeavesFlat
