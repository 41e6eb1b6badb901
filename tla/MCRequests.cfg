SPECIFICATION FairSpec
CONSTANTS
    c1 = c1  c2 = c2
    Caller = {c1, c2}
    Added <- Kinds
    Width = 3
    ClientConfig <- Client
    NodeConfig <- Retry
    SelectLag = 1
    RetryChanSize = 1
    ToolIndex = {0, 1}
    MaxChunks = 2
INVARIANTS
    TypeOK
    AnswerIsOneAttempts
    GivesUpOnlyWhenSpent
    CancelledCallsStop
    ResultsAreComplete
    StatusTellsResult
PROPERTIES
    RunReturns
CHECK_DEADLOCK FALSE
