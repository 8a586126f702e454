SPECIFICATION FairSpec
CONSTANTS
    Thread = {t1, t2}
    Kind <- OneOfEach
    Override = {"other"}
    MaxProvider = 2
INVARIANTS
    TypeOK
    OneFreeEach
    ChatsReachLive
PROPERTY
    RequestsEnd
