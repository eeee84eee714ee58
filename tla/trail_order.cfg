CONSTANTS
    org1 = org1
    org2 = org2
    NULL = NULL
    Requests = {1, 2, 3, 4, 5, 6}
    Organizations = {org1}
    Memberships <- OneOwner
    Fields = {}
    Values = {"x"}
    PoolSize = 2
SPECIFICATION Spec
INVARIANTS
    LastActivationRuns
CONSTRAINT LastTwoOverlap
