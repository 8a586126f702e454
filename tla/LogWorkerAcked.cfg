SPECIFICATION Spec
CONSTANTS
    w1 = w1
    w2 = w2
    p1 = p1
    p2 = p2
    NoWorker = NoWorker
    Worker = {w1, w2}
    Process = {p1}
    Host <- OneProcess
    MaxMsg = 2
    BatchSize = 2
    PageSize = 2
    Stamped = {1}
    LastDay = 1
    EventDay = 0
    FastBatches = TRUE
    MaxFault = 0
    MaxDown = 0
INVARIANTS
    AckedIsIndexed
