\* Policies that share a scope, and one that imports derived roles.
CONSTANTS
    None = None
    Module = {"R", "P", "L", "R.sub", "D"}
    Scope <- MCScope
    Role <- MCRole
    Kind <- MCKind
    ScopeOf <- MCScopeOf
    RoleOf <- MCRoleOf
    Defs <- ScopesDefs
    Ancestors <- MCAncestors
    RootOf <- MCRootOf
    Source = {w1}
    Transitive = TRUE
    LoaderCanFail = TRUE
    MaxChanges = 4
SPECIFICATION Spec
INVARIANTS TypeOK ScopesAgree SettingIsDeclared InSync ScopePermsMirrorPolicies IndexMirrorsPolicies
CHECK_DEADLOCK FALSE
