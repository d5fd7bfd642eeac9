CONSTANTS
    u1 = u1
    u2 = u2
    p1 = p1
    b1 = b1
    Callers <- MCCallers
    Peers <- MCPeers
    Locals <- MCNoConns
    BasePorts <- MCBasePorts
    MaxPort = 2
    MaxRetry = 1
    MaxCalls = 3
SYMMETRY MCSymmetry
SPECIFICATION NodeSpec
CHECK_DEADLOCK FALSE
INVARIANTS
    OneServer
    StateFollowsServer
    AnnouncesConfiguredPort
