SPECIFICATION Spec
CONSTANTS
    Requests = {r1, r2}
    \* Nothing the properties say, and no guard, depends on the organization: one context.
    Orgs = {none}
    NoOrg = none
    Idle = 3
    Persist = 2
    CacheTtl = 1
    Lifetime = 6
    MaxRotations = 1
    LastRotation = 1
    MaxLatency = 1
    MaxTime = 6
SYMMETRY Symmetry
INVARIANTS
    TypeOK
    EndedSessionsAreRefused
    LagIsBounded
    IdleSessionsClose
PROPERTIES
    UsedSessionsStayOpen
CHECK_DEADLOCK FALSE
