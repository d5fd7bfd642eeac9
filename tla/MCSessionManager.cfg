CONSTANTS
    id1 = id1
    id2 = id2
    f1 = f1
    f2 = f2
    Ids <- MCIds
    Files <- MCFiles
    MaxRecv = 1
    NoFile = NoFile
SYMMETRY MCSymmetry
CONSTRAINT FewFiles
SPECIFICATION Spec
INVARIANTS
    OnlyConsentedFilesMove
    VerdictMatchesState
    FinishedExactlyWhenComplete
    TokenCancelledIffAborted
    IndexIsCurrent
PROPERTIES
    EndedSessionsFrozen
    ImplementsLifecycle
