SPECIFICATION Spec
CONSTANTS
    Days = 2
    Equities = {90, 100}
    LossLimit = 3
    MaxOrders = 2
    Script <- MCScript
    Watched = TRUE
    MaxEvents = 0
INVARIANTS DailyLossStops
CHECK_DEADLOCK FALSE
