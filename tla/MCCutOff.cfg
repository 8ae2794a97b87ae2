\* Connections of one lease under fair scheduling, whatever clients and PostgreSQL do.
\* The system comes to rest when every connection was made and ended.
SPECIFICATION ConnectionSpec
CHECK_DEADLOCK FALSE
CONSTANTS
    LeaseIds = {l1}
    NoLease = NoLease
    Requests = {r1, r2}
    InitialSlots = 1
    StarvationThreshold = 0
    GrowBatchSize = 0
    ClaimTimeoutEnabled = TRUE
    MaxLeaseRecords = 2
    MaxConns = 2
    MaxDatabaseId = 2
    Releases = {x1}
    MaxFailures = 0
    ShutdownAllowed = FALSE
PROPERTIES
    ReleasedConnectionsClose
