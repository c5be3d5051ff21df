CONSTANTS
    None = None
    Role <- MCRole
    Scope <- MCScope
    Lineage <- MCLineage
    Parents <- MCParents
    DRParents <- MCDRParents
    DRCond <- MCDRCond
    Variable = "c"
    Tables <- RoleTables
    Requests <- OneRole
SPECIFICATION Spec
INVARIANTS UnlistedDenied
CHECK_DEADLOCK FALSE
