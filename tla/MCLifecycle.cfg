SPECIFICATION Spec
CONSTANTS
    h1 = h1
    l1 = l1
    Loop = Loop
    Hosts <- MCHosts
    Leases <- MCLeases
    MaxSnapshotLeases = 1
    Threshold = 1
    MaxRevision = 2
    MaxGeneration = 3
INVARIANTS
    TypeOK
    OneToken
    RefsAreExact
    SourcesStayOpen
    RequestNeverBlocks
PROPERTIES
    QuietAfterClose
    CloseCompletes
    RequestsEnd
CHECK_DEADLOCK FALSE
