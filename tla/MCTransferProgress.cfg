CONSTANTS
    Direct = Direct
    Relayed = Relayed
    Vias = {"turn"}
    f1 = f1
    f2 = f2
    Ids <- MCIds
    MaxRecv = 1
    MaxCopies = 0
    NoFile = NoFile
    NoId = NoId
    Nobody = Nobody
    Mixed = Mixed
    Files = {f1}
    MaxUploads = 1
SPECIFICATION TransferSpec
CHECK_DEADLOCK FALSE
PROPERTIES
    CancelEndsDriver
    GrantedTransferEnds
    AbandonedOfferEnds
    AbortedSessionStopsUploads
