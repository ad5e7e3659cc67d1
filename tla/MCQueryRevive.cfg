CONSTANTS
    Writer = {w1, w2}
    Worker = Worker
    MaxCommits = 3
    DeltaLimit = 1
    MaxFaults = 0
SPECIFICATION Spec
INVARIANT TrustedIsExact
