\* One job, two workers, one package, three authorizations, one fault.
SPECIFICATION FairSpec
CONSTANTS
    Workers = {w1, w2}
    Packages = {p1}
    NoOne = NoOne
    MaxGrants = 3
    MaxLocal = 1
    MaxFaults = 1
INVARIANTS
    TypeOK
    SatIsAskedOnce
PROPERTIES
    CancelSettles
CHECK_DEADLOCK FALSE
