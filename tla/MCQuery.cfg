CONSTANTS
    Parts = {"read", "delta", "count", "join", "dataset", "verify", "plan", "update", "find", "fts",
             "budget", "pool"}
SPECIFICATION QuerySpec
CHECK_DEADLOCK FALSE
INVARIANTS
    ReadsAreExact ShortcutsAreExact DatasetIsExact DiagnosisIsExact PlanIsEquivalent
    SearchIsExact
PROPERTIES
    UpdateIsAuthorized LimitsHold
