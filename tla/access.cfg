CONSTANTS
    NULL = NULL
    Requests = {1, 2}
    Organizations = {org1}
    Users = {alice, bob}
    Keys = {k1, k2}
    Ttls = {0, 2}
    DefaultTtl = 1
    MaxTtl = 1
    Resolution = 2
    Horizon = 5
SPECIFICATION Spec
SYMMETRY Symmetry
INVARIANTS
    TypeOK
    ActsAreBacked
PROPERTIES
    TokenWorksAsTold
CHECK_DEADLOCK FALSE
