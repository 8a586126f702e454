SPECIFICATION Spec
CONSTANTS
    t1 = t1
    t2 = t2
    u1 = u1
    u2 = u2
    Request = {t1, t2}
    User = {u1, u2}
    NoUser = NoUser
    MaxToken = 2
    MaxKey = 1
SYMMETRY Alike
INVARIANTS
    TypeOK
    BarredGetNothing
PROPERTY
    WithdrawnStays
