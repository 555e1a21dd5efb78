CONSTANTS
    Symbols <- MCSymbols
    OrderIds <- MCOrderIds
    LedgerIds <- MCOrderIds
    StartHeld <- MCStartHeld
    StartCash = 0
    Runners = {service, cli}
    Targets <- MCTargets
    Parts = 2
    WeightLimit = 2
    MaxOrders = 2
    PollAttempts = 2
    MaxCycles = 2
    MaxCrashes = 1
SPECIFICATION FairSpec
INVARIANTS
    TypeOK
    LedgerTruthful
    BudgetBound
    OnlyLateCyclesTrade
PROPERTY
    CycleEnds
CHECK_DEADLOCK FALSE
