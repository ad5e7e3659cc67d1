CONSTANTS
    n1 = n1
    n2 = n2
    x1 = x1
    p = p
    Actor <- MCActor
    Replica <- MCReplica
    Quad <- MCQuad
    ChangeSets <- MCChangeSets
    MaxEvents = 3
    MaxSnaps = 2
SPECIFICATION ReplaceSpec
INVARIANT Convergence
CHECK_DEADLOCK FALSE
