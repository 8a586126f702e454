SPECIFICATION LicensingSpec
CONSTANTS
    t1 = t1
    t2 = t2
    f1 = f1
    f2 = f2
    Thread = {t1, t2}
    Feature = {f1, f2}
    TTL = 2
    Timeout = 1
SYMMETRY Alike
INVARIANTS
    LicensingTypeOK
    AnswersRecent
