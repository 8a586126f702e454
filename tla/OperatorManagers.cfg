SPECIFICATION Spec
CONSTANTS
    m1 = m1
    m2 = m2
    Manager = {m1, m2}
    Spec0 <- SpecsThatFit
    Unset = ""
    DefaultDatabase = "killkrill"
    DefaultStorage = "10Gi"
    NoObject = NoObject
    MaxApply = 1
    MaxEdit = 1
    MaxFault = 0
PROPERTY
    ReadyIsCurrent
SYMMETRY Alike
VIEW InUse
CHECK_DEADLOCK FALSE
