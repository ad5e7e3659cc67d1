CONSTANTS
    n1 = n1
    n2 = n2
    x1 = x1
    p = p
    Actor <- NodeAndForeigner
    Foreign <- Foreigner
    Quad <- MCQuad
    ChangeSets <- MCInserts
    LocalKinds = {"Changes"}
    ForeignKinds = {"Changes"}
    MaxRecords = 4
    PageRecords = 1
    MaxFaults = 2
SPECIFICATION Spec
INVARIANTS
    ClockMeansApplied
CHECK_DEADLOCK FALSE
