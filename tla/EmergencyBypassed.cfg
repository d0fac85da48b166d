SPECIFICATION Spec
CONSTANTS
    t1 = t1
    t2 = t2
    Tasks <- OneTask
    Signals <- ReplaceBuy
    PlanQty = 2
    ManualQty = 3
    EmergencyClose = TRUE
    Workers = 1
    MaxThin = 0
    MaxFaults = 1
CHECK_DEADLOCK FALSE
PROPERTY
    FailedProtectionIsClosed
