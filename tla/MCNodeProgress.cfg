CONSTANTS
    u1 = u1
    u2 = u2
    p1 = p1
    b1 = b1
    Callers <- MCCaller
    Peers <- MCPeers
    Locals <- MCLocals
    BasePorts <- MCOnePort
    MaxPort = 1
    MaxRetry = 0
    MaxCalls = 2
SPECIFICATION NodeSpec
CHECK_DEADLOCK FALSE
PROPERTIES
    CallsReturnUnlessHandlerAsks
    SpeakerIsAccepted
    StoppedNodeFallsSilent
