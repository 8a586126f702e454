SPECIFICATION FairSpec
CONSTANTS
    MaxMsg = 5
    BatchSize = 2
    RetryAttempts = 1
INVARIANTS
    TypeOK
    InOrder
    HTTP3Rested
PROPERTIES
    EventuallyHandled
    CloseReturns
CHECK_DEADLOCK FALSE
