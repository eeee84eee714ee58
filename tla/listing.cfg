CONSTANTS
    NULL = NULL
    Rows = {a, b, c}
    Limits = {1, 2}
    Horizon = 2
SPECIFICATION Spec
SYMMETRY Symmetry
INVARIANTS
    TypeOK
    NothingSkipped
    RepeatsArePushed
PROPERTIES
    PageKeepsPromise
CHECK_DEADLOCK FALSE
