CONSTANTS
    Threads = {t1, t2}
    Unit = 2
    SafetyNum = 1
    SafetyDen = 2
    MinRate = 1
    DocLimits <- MCDocLimits
    ServerLimits <- MCServerLimits
    RetryAfters <- MCRetryAfters
    MaxTime = 5
SPECIFICATION Spec
PROPERTY
    RetryAfterHonoured
