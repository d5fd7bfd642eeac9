CONSTANTS
    id1 = id1
    id2 = id2
    f1 = f1
    Ids <- MCIds
    Files <- MCFiles
    MaxUploads = 2
    MaxRecv = 1
    MaxCopies = 1
    NoFile = NoFile
    NoId = NoId
    Nobody = Nobody
    Mixed = Mixed
SYMMETRY MCSymmetry
SPECIFICATION ServerSpec
CHECK_DEADLOCK FALSE
INVARIANTS
    OutcomeMatchesUploads
    GuardMindsItsRequest
PROPERTIES
    ImplementsSessionManager
