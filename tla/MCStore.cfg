CONSTANTS
    Parts = {"policy", "batch", "index", "gate", "receipts", "request", "topic"}
    private = private
    open = open
    shared = shared
    p = p
    r = r
    w1 = w1
    w2 = w2
    Peer <- MCPeer
    Caller <- MCCaller
    Home <- MCHome
    Policy <- MCPolicy
    Default = private
    MaxWrites = 3
    Actor <- MCActor
    Quad <- MCQuad
    Batches <- MCBatches
    Writer <- MCWriter
    Worker = Worker
    MaxCommits = 3
    DeltaLimit = 2
    MaxFaults = 1
    Client = {1, 2, 3}
    MaxGenerations = 5
    MutationId = {1, 2}
    Instant = {1, 2}
    Retention = 1
    TrimRows = 1
    MaxAdmissions = 3
    Request = {1, 2}
    QueryLimit = 1
    DeadlineLimit = 1
    MaxNow = 2
SPECIFICATION StoreSpec
CHECK_DEADLOCK FALSE
INVARIANTS
    FreshPolicyConverges StagedIsApplyOps IndexIsLive ExactUnlessRevived GateIsAnswered AppliedOnce
    OutcomeIsHonest
PROPERTIES
    SwitchIsExact GateIsFifoLock Recovers TopicReconciled
