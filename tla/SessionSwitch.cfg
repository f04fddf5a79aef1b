SPECIFICATION SwitchSpec
CONSTANTS
    Requests = {r1, r2}
    Orgs = {a}
    NoOrg = none
    Idle = 3
    Persist = 2
    CacheTtl = 1
    Lifetime = 6
    StaleWindow = 1
    MaxRotations = 0
    LastRotation = 0
    MaxLatency = 1
    MaxTime = 2
SYMMETRY Symmetry
INVARIANTS
    SwitchIsSeen
CHECK_DEADLOCK FALSE
