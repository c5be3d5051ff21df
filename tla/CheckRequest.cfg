CONSTANTS
    None = None
    Role <- MCRole
    Scope <- MCScope
    Lineage <- MCLineage
    Parents <- MCParents
    DRParents <- MCDRParents
    DRCond <- MCDRCond
    Variable = "c"
    Tables <- MCTables
    Requests <- MCRequests
SPECIFICATION Spec
INVARIANTS
    TypeOK
    CachesHold
    DecidesAsDeclared
    StrictNeverAllowsMore
    StrictAllowsWithoutErrors
CHECK_DEADLOCK FALSE
