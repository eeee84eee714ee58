CONSTANTS
    NULL = NULL
    Requests = {1}
    Skills = {s1}
    Versions = {v1, v2}
    Departments = {sales, finance}
    Tools = {email}
    Overlap = FALSE
SPECIFICATION Spec
INVARIANTS
    RuntimeUsesSnapshot
