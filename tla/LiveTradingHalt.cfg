CONSTANTS
    Symbols <- MCSymbols
    OrderIds <- MCOrderIds
    LedgerIds <- MCOrderIds
    StartHeld <- MCStartHeld
    StartCash = 0
    Runners = {service}
    Targets <- MCTargets
    Parts = 2
    WeightLimit = 2
    MaxOrders = 2
    PollAttempts = 2
    MaxCycles = 2
    MaxCrashes = 1
SPECIFICATION Spec
PROPERTY
    HaltStopsOrders
CHECK_DEADLOCK FALSE
