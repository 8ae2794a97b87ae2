\* Waiting leases, growth and failing creations.  Attach calls have no deadline:
\* growth has to serve them.
\* The system comes to rest when every call has been made and answered.
SPECIFICATION FairSpec
CHECK_DEADLOCK FALSE
CONSTANTS
    LeaseIds = {l1, l2}
    NoLease = NoLease
    Requests = {r1, r2}
    InitialSlots = 0
    StarvationThreshold = 0
    GrowBatchSize = 1
    ClaimTimeoutEnabled = FALSE
    MaxLeaseRecords = 2
    MaxConns = 2
    MaxDatabaseId = 9
    Releases = {}
    MaxFailures = 1
    ShutdownAllowed = FALSE
INVARIANTS
    ReservationsAreBacked
    SupplyCoversDemand
    SupplyBounded
PROPERTIES
    AttachEnds
