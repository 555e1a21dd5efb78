SPECIFICATION FairSpec
CONSTANTS
    Days = 2
    Equities = {90, 100}
    LossLimit = 3
    MaxOrders = 1
    Script <- MCScript
    Watched = FALSE
    MaxEvents = 1
INVARIANTS TypeOK StopHolds ResumeHolds BudgetHolds CalendarStays OnceUnlessRestarted
PROPERTIES AutoStopHolds EveryCommandIsHandled
CHECK_DEADLOCK FALSE
