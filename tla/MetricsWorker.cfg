SPECIFICATION FairSpec
CONSTANTS
    w1 = w1
    w2 = w2
    Worker <- Workers
    Parsed <- AllButTwo
    BatchSize = 2
    Full = 2
    Decoding = {TRUE, FALSE}
    MaxMetric = 4
    MaxFault = 2
    MaxRestart = 1
INVARIANTS
    TypeOK
    AcknowledgedIsKept
    SentAgainUnanswered
PROPERTY
    NoMetricBlocks
CHECK_DEADLOCK FALSE
