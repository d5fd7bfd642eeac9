CONSTANTS
    l1 = l1
    l2 = l2
    l3 = l3
    c1 = c1
    c2 = c2
    Listeners <- MCListeners
    Senders <- MCSenders
    Loops = 1
    MaxCloses = 2
    NoOne = NoOne
    d1 = d1
    d2 = d2
    d3 = d3
    Dials = {d1, d2, d3}
    Holders = {d1, d2}
    V4 = {d1, d2, d3}
    Tls = {d2}
    ConnIds = {1, 2}
    None = None
SPECIFICATION RelaySpec
CHECK_DEADLOCK FALSE
INVARIANTS
    RegisteredBeforeSplice
    
    TunnelReachesTarget
    PeerConnectionsAccountedFor
PROPERTIES
    FoundSenderIsServed
    ReceiverStaysReachable
    GoneClientsForgotten
