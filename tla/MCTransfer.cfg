CONSTANTS
    Direct = Direct
    Relayed = Relayed
    Vias = {"local", "turn", "stun"}
    f1 = f1
    f2 = f2
    Ids <- MCIds
    MaxRecv = 2
    MaxCopies = 0
    NoFile = NoFile
    NoId = NoId
    Nobody = Nobody
    Mixed = Mixed
    Files <- MCFiles
    MaxUploads = 2
SYMMETRY MCSymmetry
SPECIFICATION TransferSpec
CHECK_DEADLOCK FALSE
INVARIANTS
    SenderClaimsHold
    StoredAtMostOnce
    DriverSettlesSession
