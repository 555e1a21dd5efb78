CONSTANTS
    Keyed = {buy}
    Plain = {}
    NoOne = NoOne
    NoKey = NoKey
    MaxRetries = 2
SPECIFICATION Spec
PROPERTY
    AuthRetriedOnce
CHECK_DEADLOCK FALSE
