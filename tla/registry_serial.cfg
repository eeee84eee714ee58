CONSTANTS
    org1 = org1
    org2 = org2
    NULL = NULL
    Requests = {1, 2, 3, 4}
    Organizations = {org1}
    Memberships <- OneOwner
    Fields = {"content"}
    Values = {"x", "y"}
    PoolSize = 1
SPECIFICATION Spec
INVARIANTS
    TypeOK
    
    TrailTellsRow
    LastActivationRuns
PROPERTIES
    ImplementsLifecycle
    DisabledIsTerminal
    ActivationNeverCollides
