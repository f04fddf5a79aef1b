SPECIFICATION FairSpec
CONSTANTS
    First = j1
    Retries = {}
    Execs = {x1}
    LastEntry = 2
    Contents <- MCContents
    Documents <- MCDocuments
    Uuids <- MCUuids
    UuidOf <- MCUuidOf
    Archives <- MCArchives
    None = None
    Root = Root
    MaxRetries = 1
    MaxReleases = 0
    MaxFailures = 0
PROPERTIES
    CancellationSettles
CHECK_DEADLOCK FALSE
