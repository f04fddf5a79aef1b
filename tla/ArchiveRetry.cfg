SPECIFICATION CleanerSpec
CONSTANTS
    First = j1
    Retries = {j2}
    Execs = {x1}
    LastEntry = 2
    Contents <- MCContents
    Documents <- MCDocuments
    Uuids <- MCUuids
    UuidOf <- MCUuidOf
    Archives <- MCRetried
    None = None
    Root = Root
    MaxRetries = 0
    MaxReleases = 0
    MaxFailures = 1
INVARIANTS
    SourceKept
    ActiveInputsKept
PROPERTIES
    CleanupFinishes
CHECK_DEADLOCK FALSE
