CONSTANTS
    k1 = k1
    k2 = k2
    NULL = NULL
    Keys = {k1, k2}
    Limit = 2
    Window = 3
    Second = 2
    Lag = 1
    Horizon = 8
SPECIFICATION Spec
INVARIANTS
    TypeOK
    NeverOverLimit
    RetryAfterIsHonest
PROPERTIES
    RefusedOnlyWhenFull
