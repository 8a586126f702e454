SPECIFICATION FairSpec
CONSTANTS
    m1 = m1
    m2 = m2
    Manager = {m1}
    Spec0 <- Specs
    Unset = ""
    DefaultDatabase = "killkrill"
    DefaultStorage = "10Gi"
    NoObject = NoObject
    MaxApply = 2
    MaxEdit = 1
    MaxFault = 1
INVARIANT
    TypeOK
PROPERTIES
    ReadyIsCurrent
    Converges
    NothingLeft
CHECK_DEADLOCK FALSE
