\* Expiry, cleanup and shutdown against everything one lease can have under way.
\* The system comes to rest when every call has been made and answered.
SPECIFICATION FairSpec
CHECK_DEADLOCK FALSE
CONSTANTS
    LeaseIds = {l1}
    NoLease = NoLease
    Requests = {r1}
    InitialSlots = 1
    StarvationThreshold = 0
    GrowBatchSize = 1
    ClaimTimeoutEnabled = TRUE
    MaxLeaseRecords = 2
    MaxConns = 2
    MaxDatabaseId = 5
    Releases = {x1}
    MaxFailures = 1
    ShutdownAllowed = TRUE
INVARIANTS
    InventoryMatchesPostgres
    StoppedIsQuiet
PROPERTIES
    ShutdownCompletes
    LeasesExpire
    RetiredIsDropped
