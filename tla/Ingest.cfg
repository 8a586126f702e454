SPECIFICATION Spec
CONSTANTS
    t1 = t1
    t2 = t2
    Thread = {t1, t2}
    MaxRequest = 3
    MaxRecords = 2
    MaxRestart = 1
INVARIANTS
    TypeOK
    StreamedIsStored
    AcceptedIsKept
    CountedIsPushed
SYMMETRY Alike
CHECK_DEADLOCK FALSE
