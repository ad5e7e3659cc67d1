CONSTANTS
    n1 = n1
    n2 = n2
    x1 = x1
    p = p
    Actor <- TwoNodes
    Foreign <- Nobody
    Quad <- MCQuad
    ChangeSets <- MCChangeSets
    LocalKinds = {"Changes"}
    ForeignKinds = {}
    MaxRecords = 3
    PageRecords = 3
    MaxFaults = 0
SPECIFICATION Spec
INVARIANTS
    Convergence
CHECK_DEADLOCK FALSE
