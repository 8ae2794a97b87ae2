\* The connection is over when the client leaves.
SPECIFICATION Spec
CHECK_DEADLOCK FALSE
CONSTANTS
    MaxLeaseIdBytes = 3
    WideSymbols <- Wide
    TextSymbols <- Symbols
    MaxText = 3
    StatementNames = {"", "s"}
    PortalNames = {""}
    Queries <- Texts
    DeclaredTypes <- Types
    BoundParameters <- Parameters
    FormatCodes <- Formats
    Null <- NullParameter
INVARIANTS
    PipelineInStep
    RepliesInStep
    PortalsAreExecutable
    TextsAreReadExactly
    ReleasesAreReachable
