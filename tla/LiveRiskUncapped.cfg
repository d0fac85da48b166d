SPECIFICATION Spec
CONSTANTS
    Payloads <- SignalsOfAllKinds
    Settings <- SettingsOfAllKinds
    Prices <- Around
    Unit = 100
    MaxNow = 2
    Tick = 2
    Step = 1
    MinQty = 1
    MinNotional = 5
    Cent = 10
    Fees <- FeeOfOne
    Selected = 1000
    Available = 400
    AutoMargin = 30
    MaxAutoLeverage = 4
    Brackets <- TwoBrackets
    AllowedEntries <- AnyEntry
    DefaultEntry = "market"
    Fallback = TRUE
CHECK_DEADLOCK FALSE
INVARIANT
    LiveRiskCapped
