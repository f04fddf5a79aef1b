SPECIFICATION Spec
CONSTANTS
    First = j1
    Retries = {}
    Execs = {x1,x2}
    LastEntry = 2
    Contents <- MCContents
    Documents <- MCDocuments
    Uuids <- MCUuids
    UuidOf <- MCUuidOf
    Archives <- MCArchives
    None = None
    Root = Root
    MaxRetries = 1
    MaxReleases = 1
    MaxFailures = 1
INVARIANTS
    TypeOK
    DamagedPublishesNothing
    CountersAgree
    OneSourcePerUuid
PROPERTIES
    ResultsAreFinal
CHECK_DEADLOCK FALSE
