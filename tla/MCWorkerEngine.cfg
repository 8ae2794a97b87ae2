\* Every message in every order, with more leases than records.  The engine stops when it is told to shut down.
SPECIFICATION Spec
SYMMETRY Symmetry
CHECK_DEADLOCK FALSE
CONSTANTS
    LeaseIds = {l1, l2, l3}
    NoLease = NoLease
    Requests = {r1, r2, r3}
    InitialSlots = 1
    StarvationThreshold = 0
    GrowBatchSize = 1
    ClaimTimeoutEnabled = TRUE
    MaxLeaseRecords = 2
    MaxConns = 2
    MaxDatabaseId = 3
INVARIANTS
    TypeOK
    OnePlacePerDatabase
    Isolation
    NoDirtyReuse
    TokensFollowLeases
    WaiterQueue
    NoLostCall
PROPERTIES
    ImplementsLeasePool
