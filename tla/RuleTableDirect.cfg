\* Events that name the direct dependents only.
CONSTANTS
    None = None
    Module = {"R", "D", "V"}
    Scope <- MCScope
    Role <- MCRole
    Kind <- MCKind
    ScopeOf <- MCScopeOf
    RoleOf <- MCRoleOf
    Defs <- ImportsDefs
    Ancestors <- MCAncestors
    RootOf <- MCRootOf
    Source = {w1}
    Transitive = FALSE
    LoaderCanFail = FALSE
    MaxChanges = 4
SPECIFICATION Spec
INVARIANTS ImportersRecompiled
CHECK_DEADLOCK FALSE
