\* A policy that stops using derived roles.
CONSTANTS
    None = None
    Module = {"R", "D"}
    Scope <- MCScope
    Role <- MCRole
    Kind <- MCKind
    ScopeOf <- MCScopeOf
    RoleOf <- MCRoleOf
    Defs <- ImportsDefs
    Ancestors <- MCAncestors
    RootOf <- MCRootOf
    Source = {w1}
    Transitive = TRUE
    LoaderCanFail = FALSE
    MaxChanges = 3
SPECIFICATION Spec
INVARIANTS InSync
CHECK_DEADLOCK FALSE
