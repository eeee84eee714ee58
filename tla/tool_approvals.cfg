CONSTANTS
    NULL = NULL
    Requests = {1, 2, 3}
    Skills = {s1, s2}
    Versions = {v1, v2}
    Departments = {sales}
    Tools = {email}
    Overlap = TRUE
SPECIFICATION Spec
SYMMETRY Symmetry
VIEW RowsView
INVARIANTS
    TypeOK
    OneApproval
    ApprovalTrail
    ToolsAreGranted
PROPERTIES
    ServesAllSelected
    ImplementsGrants
