CONSTANTS
    a = a
    b = b
    pub = pub
    far = far
    lan1 = lan1
    Nodes = {a, b}
    Publics = {pub, far}
    PublicOf <- MCPublicOf
    AliasOf <- MCAliasOf
    Segment <- MCSegment
    Https = {b}
    RelayUsers = {a, b}
    Senders = {b}
    Stopping = {a, b}
    Probe = Probe
    Loopback = Loopback
    RelayHost = RelayHost
    Tunnels = {Loopback}
    NoDevice = NoDevice
    None = None
    MaxStarts <- MCMaxStarts
    MaxFaults = 1
SPECIFICATION Spec
INVARIANTS ListIsCurrent
PROPERTIES LanPeersMeet PlainPeersReachable
CHECK_DEADLOCK FALSE
