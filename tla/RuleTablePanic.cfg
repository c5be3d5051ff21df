\* A policy is deleted while the table is rebuilt.
CONSTANTS
    None = None
    Module = {"R", "P"}
    Scope <- MCScope
    Role <- MCRole
    Kind <- MCKind
    ScopeOf <- MCScopeOf
    RoleOf <- MCRoleOf
    Defs <- ScopesDefs
    Ancestors <- MCAncestors
    RootOf <- MCRootOf
    Source = {w1}
    Transitive = FALSE
    LoaderCanFail = FALSE
    MaxChanges = 4
SPECIFICATION Spec
INVARIANTS RebuildSurvives
CHECK_DEADLOCK FALSE
