SPECIFICATION FairSpec
CONSTANTS
    t1 = t1
    t2 = t2
    t3 = t3
    NoTask = NoTask
    Task = {t1, t2, t3}
    MaxRetries = 2
    MaxOps = 3
INVARIANTS
    TypeOK
    OneInside
    CurrentToken
PROPERTIES
    OperationsEnd
CHECK_DEADLOCK FALSE
