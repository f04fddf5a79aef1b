\* One custody, two consumers, one reconciler, one fault.
SPECIFICATION FairSpec
CONSTANTS
    Consumers = {c1, c2}
    Cleaners = {w1}
    NoOne = NoOne
    MaxFaults = 1
INVARIANTS
    TypeOK
    CredentialUsedOnce
    LiveMaterialKept
PROPERTIES
    NoUnwrapAfterCleanup
    CustodyIsErased
CHECK_DEADLOCK FALSE
