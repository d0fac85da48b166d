SPECIFICATION Spec
CONSTANTS
    t1 = t1
    t2 = t2
    t3 = t3
    s1 = s1
    s2 = s2
    s3 = s3
    Tasks <- ThreeTasks
    Symbols <- ThreeSymbols
    Settings <- SomeSettings
    Stopless <- AllOrNone
    Workers = 2
    Never = Never
    DayLength = 2
    MaxTime = 2
    MaxFaults = 1
SYMMETRY RiskSymmetry
CHECK_DEADLOCK FALSE
INVARIANTS
    TypeOK
    DailyTradesBounded
    OpenPositionsBounded
    CooldownBounded
    TotalRiskBounded
