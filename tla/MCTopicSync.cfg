CONSTANTS
    n1 = n1
    n2 = n2
    x1 = x1
    p = p
    Actor <- NodeAndForeigner
    Foreign <- Foreigner
    Quad <- MCQuad
    ChangeSets <- MCChangeSets
    LocalKinds = {"Changes", "Delete", "Control"}
    ForeignKinds = {"Changes", "Bad", "Policy"}
    MaxRecords = 3
    PageRecords = 2
    MaxFaults = 2
SPECIFICATION Spec
INVARIANTS
    StoreFollowsTopic
    CursorIsBacked
PROPERTIES
    DiskIsKept
CHECK_DEADLOCK FALSE
