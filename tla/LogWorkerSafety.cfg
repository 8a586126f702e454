SPECIFICATION Spec
CONSTANTS
    w1 = w1
    w2 = w2
    p1 = p1
    p2 = p2
    NoWorker = NoWorker
    Worker = {w1, w2}
    Process = {p1, p2}
    Host <- TwoReplicas
    MaxMsg = 3
    BatchSize = 2
    PageSize = 1
    Stamped = {1}
    LastDay = 0
    EventDay = 0
    FastBatches = FALSE
    MaxFault = 1
    MaxDown = 1
INVARIANTS
    TypeOK
    UntriedIsPending
PROPERTIES
    QueueSpec
SYMMETRY Swap
