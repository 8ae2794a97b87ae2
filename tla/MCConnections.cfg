\* Connections of a lease against its expiry and its release, with no room for a second record.
\* The system comes to rest when every connection was made and ended.
SPECIFICATION ConnectionSpec
SYMMETRY Symmetry
CHECK_DEADLOCK FALSE
CONSTANTS
    LeaseIds = {l1, l2}
    NoLease = NoLease
    Requests = {r1, r2}
    InitialSlots = 2
    StarvationThreshold = 0
    GrowBatchSize = 0
    ClaimTimeoutEnabled = TRUE
    MaxLeaseRecords = 1
    MaxConns = 2
    MaxDatabaseId = 2
    Releases = {x1}
    MaxFailures = 0
    ShutdownAllowed = FALSE
INVARIANTS
    ConnsMatchSessions
    LiveSessionsKeepTheirDatabase
    ReleaseIsFinal
    ReasonsHold
