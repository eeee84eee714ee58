CONSTANTS
    org1 = org1
    org2 = org2
    NULL = NULL
    Requests = {1, 2, 3, 4}
    Organizations = {org1, org2}
    Memberships <- TwoTenants
    Fields = {"content"}
    Values = {"x", "y"}
    PoolSize = 2
SPECIFICATION FairSpec
INVARIANTS
    OneTenantPerSkill
PROPERTIES
    OnlyTenantsWrite
    ImplementsOverlap
    OnceActiveStaysDisabled
    EveryRequestEnds
VIEW RowsView
