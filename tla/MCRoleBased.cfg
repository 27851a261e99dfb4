\* master then replica, every combination of valid and invalid conninfos,
\* a request deadline of 6 ticks (3 for the master's try).
CONSTANTS
    Roles <- MCRoles
    InfoOptions <- MCInfoOptions
    Budget = 6
SPECIFICATION Spec
\* The request ends once its handler has been called.
CHECK_DEADLOCK FALSE
INVARIANTS
    TypeOK
    RoleOrder
    ObserverFaithful
    FairShare
PROPERTIES
    Completes
