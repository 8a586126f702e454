SPECIFICATION XdpSpec
CONSTANTS
    NCpu = 2
    Bytes = 2
    Packet <- MCPacket
    Config <- MCConfig
    MaxRules = 2
    MaxPorts = 2
    Mixed = Mixed
    NoPacket = NoPacket
    MaxPacket = 2
    MaxReload = 2
    MaxFailure = 1
INVARIANTS
    XdpTypeOK
    SettledVerdict
    VerdictsKeepUp
CHECK_DEADLOCK FALSE
