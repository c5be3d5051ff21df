\* Two versions of a role policy.
CONSTANTS
    None = None
    Module = {"L", "L2"}
    Scope <- MCScope
    Role <- MCRole
    Kind <- MCKind
    ScopeOf <- MCScopeOf
    RoleOf <- MCRoleOf
    Defs <- RoleDefs
    Ancestors <- MCAncestors
    RootOf <- MCRootOf
    Source = {w1}
    Transitive = TRUE
    LoaderCanFail = FALSE
    MaxChanges = 3
SPECIFICATION Spec
INVARIANTS ParentRolesKept
CHECK_DEADLOCK FALSE
