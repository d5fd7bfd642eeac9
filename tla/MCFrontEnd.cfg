CONSTANTS
    id1 = id1
    id2 = id2
    f1 = f1
    Ids <- MCIds
    Files <- MCFiles
    MaxRecv = 2
    NoFile = NoFile
    Modes = {"tui", "receive", "once", "send", "app"}
    Contents <- MCContents
    Own = id1
    QueueCap = 1
SPECIFICATION FrontSpec
INVARIANTS
    ReportedEndsHappened
PROPERTIES
    FocusFollowsUser
    FrontEndsCatchUp
CHECK_DEADLOCK FALSE
