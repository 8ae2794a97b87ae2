SPECIFICATION Spec
CONSTANTS
    Bytes <- AllBytes
    MaxIdentifier = 7
    GeneratedIdLen = 1
    DiscriminatorLen = 1
    Continuation <- Bytes2
    Template <- Long
    Others <- None
    Ids <- ThreeIds
    Discriminators <- TwoDiscriminators
    InitialSlots = 1
    PipelineDepth = 2
    MaxStarts = 2
    MaxGrown = 0
    MaxFailures = 0
INVARIANT LeftoversAreSwept
CHECK_DEADLOCK FALSE
