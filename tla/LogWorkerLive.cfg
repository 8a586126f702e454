SPECIFICATION FairSpec
CONSTANTS
    w1 = w1
    w2 = w2
    p1 = p1
    p2 = p2
    NoWorker = NoWorker
    Worker = {w1, w2}
    Process = {p1}
    Host <- OneProcess
    MaxMsg = 2
    BatchSize = 1
    PageSize = 1
    Stamped = {1}
    LastDay = 1
    EventDay = 0
    FastBatches = TRUE
    MaxFault = 1
    MaxDown = 1
INVARIANTS
    SingleHolder
    StampedOnce
PROPERTIES
    EventuallyAcked
    ShutdownDrains
