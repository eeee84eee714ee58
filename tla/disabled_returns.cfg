CONSTANTS
    org1 = org1
    org2 = org2
    NULL = NULL
    Requests = {1, 2, 3}
    Organizations = {org1}
    Memberships <- OneOwner
    Fields = {"content"}
    Values = {"x"}
    PoolSize = 2
SPECIFICATION Spec
PROPERTIES
    DisabledIsTerminal
