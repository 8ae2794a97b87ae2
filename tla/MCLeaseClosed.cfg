\* What a caller is told when its lease expired.
\* The system comes to rest when every call has been made and answered.
SPECIFICATION SystemSpec
SYMMETRY Symmetry
CHECK_DEADLOCK FALSE
CONSTANTS
    LeaseIds = {l1}
    NoLease = NoLease
    Requests = {r1}
    InitialSlots = 1
    StarvationThreshold = 0
    GrowBatchSize = 0
    ClaimTimeoutEnabled = TRUE
    MaxLeaseRecords = 2
    MaxConns = 2
    MaxDatabaseId = 1
    Releases = {}
    MaxFailures = 0
    ShutdownAllowed = FALSE
INVARIANTS
    LeaseClosedMeansReleased
