\* connect is over, or waits for a PostgreSQL that went silent.
SPECIFICATION Spec
CHECK_DEADLOCK FALSE
CONSTANTS
    Answers <- PostgresAnswers
    ClientParams <- Params
    MaxAuthLength = 16
    MaxLength = 19
    MaxUsize = 22
INVARIANTS
    ChunksAreInvisible
PROPERTIES
    ConnectReturns
