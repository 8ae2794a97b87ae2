SPECIFICATION FairSpec
CONSTANTS
    Bytes <- AllBytes
    MaxIdentifier = 7
    GeneratedIdLen = 1
    DiscriminatorLen = 1
    Continuation <- Bytes2
    Template <- Short
    Others <- Neighbours
    Ids <- FiveIds
    Discriminators <- OneDiscriminator
    InitialSlots = 2
    PipelineDepth = 2
    MaxStarts = 2
    MaxGrown = 1
    MaxFailures = 1
INVARIANTS LeftoversAreSwept OwnDatabasesExist
PROPERTIES TemplateSurvives StartupIsComplete StartupEnds
CHECK_DEADLOCK FALSE
