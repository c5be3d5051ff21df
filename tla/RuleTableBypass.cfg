\* A rejected policy whose import changes.
CONSTANTS
    None = None
    Module = {"R", "P", "D"}
    Scope <- MCScope
    Role <- MCRole
    Kind <- MCKind
    ScopeOf <- MCScopeOf
    RoleOf <- MCRoleOf
    Defs <- BypassDefs
    Ancestors <- MCAncestors
    RootOf <- MCRootOf
    Source = {w1}
    Transitive = TRUE
    LoaderCanFail = FALSE
    MaxChanges = 4
SPECIFICATION Spec
INVARIANTS ScopesAgree
CHECK_DEADLOCK FALSE
