SPECIFICATION OperationsSpec
CONSTANTS
    t1 = t1
    Tasks <- OneTask
    Signals <- LongAndShort
    PlanQty = 2
    ManualQty = 3
    EmergencyClose = TRUE
    Workers = 1
    MaxThin = 0
    MaxFaults = 1
    Requests <- AllRequests
    Backdrops <- TwoBackdrops
    Leftovers <- NoneOrOldStop
    StopShowsReduceOnly = TRUE
    MaxRequests = 2
    MaxInspections = 1
CHECK_DEADLOCK FALSE
INVARIANTS
    OperationsTypeOK
    EntryWithinPlan
    ClosedLeavesNothing
PROPERTIES
    MaintenanceOnlyReduces
    AuditReportsExposure
    ObservationReportsExposure
    AdvisedCleanupStripsNothing
