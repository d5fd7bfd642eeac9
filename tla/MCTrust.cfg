CONSTANTS
    x1 = x1
    x2 = x2
    p1 = p1
    p2 = p2
    c1 = c1
    c2 = c2
    any = any
    OwnCerts <- MCOwnCerts
    PeerCerts <- MCPeerCerts
    Conns <- MCConns
    Unanchored = {any}
    None = None
    Torn = Torn
SYMMETRY MCSymmetry
SPECIFICATION Spec
INVARIANTS
    AnnouncedPeersRecognised
    OneIdentity
