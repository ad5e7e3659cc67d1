CONSTANTS
    Parts = {"search", "worker", "orphan", "shacl"}
    Caller = {1, 2}
    Entity = {1, 2}
    MaxWrites = 2
    MaxCrashes = 1
    MaxFailures = 1
    Call = {1, 2}
    MaxPending = 2
    MaxDirty = 1
    MaxTrouble = 1
SPECIFICATION SettleSpec
CHECK_DEADLOCK FALSE
INVARIANTS
    SearchOwesWrites FlushesAreCovered DiagnosticsAreExact
PROPERTIES
    WritesAreCertified FlushesReturn VisibilitySettles BindingsSettle
