CONSTANTS
    abc = abc
    xyz = xyz
    alice = alice
    dave = dave
    NULL = NULL
    Replicas = {r1, r2}
    FIXTURE_ORGANIZATIONS = {abc, xyz}
    FIXTURE_MEMBERSHIPS <- Fixtures
    Versions = {v1}
    MaxStops = 3
    MaxDowngrades = 2
    MaxEdits = 2
SPECIFICATION FairSpec
INVARIANTS
    TypeOK
    SchemaMatchesRevision
    ServesSeeded
PROPERTIES
    SeedingOnlyAdds
    EveryReplicaServes
CHECK_DEADLOCK FALSE
