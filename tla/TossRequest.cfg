CONSTANTS
    Keyed = {buy}
    Plain = {cancel}
    NoOne = NoOne
    NoKey = NoKey
    MaxRetries = 1
SPECIFICATION FairSpec
INVARIANTS
    TypeOK
    PlainOnce
    RetryHasNewToken
PROPERTIES
    OrderedOnce
    CallReturns
CHECK_DEADLOCK FALSE
