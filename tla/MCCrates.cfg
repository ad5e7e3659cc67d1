CONSTANTS
    Parts = {"evaluate", "compile", "cache", "shacl", "rules", "crate"}
SPECIFICATION CrateSpec
CHECK_DEADLOCK FALSE
INVARIANTS
    IncrementalIsFull RulesAreExact DocumentsAreExact
PROPERTIES
    CacheHolds ReportsAreCurrent VerdictsAreCurrent
