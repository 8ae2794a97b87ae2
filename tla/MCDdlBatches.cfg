\* Two create batches and a drop batch.  Everything may be over.
SPECIFICATION FairSpec
CHECK_DEADLOCK FALSE
CONSTANTS
    CreateBatches = {c1, c2}
    DropBatches = {d1}
    MaxAmount = 3
    CreationPool = 2
    CleanupPool = 1
    PipelineDepth = 2
    MaxFailures = 1
INVARIANTS
    EachReportedOnce
    WindowIsKept
    ConnectionsAreAccounted
PROPERTIES
    BatchEnds
