CONSTANTS
    Symbols <- MCSymbols
    OrderIds <- MCOrderIds
    LedgerIds <- MCOrderIds
    StartHeld <- MCNothingHeld
    StartCash = 4
    Runners = {service}
    Targets <- MCHalfInFirst
    Parts = 2
    WeightLimit = 2
    MaxOrders = 2
    PollAttempts = 2
    MaxCycles = 2
    MaxCrashes = 1
SPECIFICATION Spec
INVARIANT
    NoDoubleBuy
CHECK_DEADLOCK FALSE
