------------------------------ MODULE RuleTable ------------------------------
(***************************************************************************)
(* ruletable.RuleTable (internal/ruletable/ruletable.go) and the part of   *)
(* manager.go that takes a policy out of it: the table as a record and the *)
(* operations that add a compiled policy to it and delete one from it.     *)
(*                                                                         *)
(* A compiled policy (RunnablePolicySet) is a record r: r.id its module,   *)
(* r.sp its scopePermissions, r.dr the names of the derived roles it uses, *)
(* r.schemas its schemas or None, r.parents the parent roles of a role     *)
(* policy, r.rows the contents of its rule rows.  Kind, scope and role are *)
(* parts of the name of a module and therefore constant.  Conditions,      *)
(* variables and outputs are inside the content of a row.                  *)
(***************************************************************************)
EXTENDS ScopePerms

CONSTANTS
    Role,       \* the role names
    Kind,       \* Module -> kind of policy
    ScopeOf,    \* Module -> scope of the policy
    RoleOf      \* Module -> role of a role policy, None otherwise

Kinds == {"resource", "principal", "role", "derived_roles", "export"}

ASSUME RuleTableAssumption ==
    /\ Kind \in [Module -> Kinds]
    /\ ScopeOf \in [Module -> Scope]
    /\ RoleOf \in [Module -> Role \cup {None}]
    /\ \A m \in Module : Kind[m] = "role" => RoleOf[m] \in Role

(* The fields: Meta, Schemas, PolicyDerivedRoles and ScopeParentRoles of   *)
(* the protobuf table; policyDerivedRoles, the two scope maps, the tracker *)
(* and scopeScopePermissions of the RuleTable; the rows of the index by    *)
(* policy and the parent roles the index was last given.                   *)
EmptyTable ==
    [meta |-> [m \in Module |-> None],
     schemas |-> [m \in Module |-> None],
     pdr |-> [m \in Module |-> {}],
     parents |-> [s \in Scope |-> [r \in Role |-> None]],
     dr |-> [m \in Module |-> {}],
     principalScopes |-> {},
     resourceScopes |-> {},
     tracker |-> NewTracker,
     ssp |-> [s \in Scope |-> None],
     idx |-> [m \in Module |-> {}],
     parentRoles |-> [s \in Scope |-> [r \in Role |-> None]]]

(* addResourcePolicy, addPrincipalPolicy, addRolePolicy                    *)
AddPolicy(t, r) ==
    [t EXCEPT
        !.meta[r.id] = r,
        !.schemas[r.id] = IF Kind[r.id] = "resource" /\ r.schemas # None
                          THEN r.schemas ELSE @,
        !.pdr[r.id] = IF Kind[r.id] = "resource" /\ r.dr # {} THEN r.dr ELSE @,
        !.parents = IF Kind[r.id] = "role"
                    THEN [@ EXCEPT ![ScopeOf[r.id]][RoleOf[r.id]] = r.parents] ELSE @]

(* Mutant: the parent roles are not given to the index again.              *)
IndexParentRolesNever(t) == t

(* idx.IndexParentRoles(rt.ScopeParentRoles)                               *)
IndexParentRoles(t) == [t EXCEPT !.parentRoles = t.parents]

(* indexRules for the rows of r: what is done for every row, and at the    *)
(* end.                                                                    *)
indexRules(t, r) ==
    LET m == r.id
        s == ScopeOf[m]
    IN  IndexParentRoles(
          IF r.rows = {} THEN t
          ELSE [t EXCEPT
                !.dr[m] = IF Kind[m] = "resource" THEN @ \cup t.pdr[m] ELSE @,
                !.tracker = Add(@, Kind[m], m, s, r.sp),
                !.ssp[s] = IF Kind[m] = "role" THEN @ ELSE Normalise(r.sp),
                !.principalScopes = IF Kind[m] = "principal" THEN @ \cup {s} ELSE @,
                !.resourceScopes = IF Kind[m] # "principal" THEN @ \cup {s} ELSE @,
                !.idx[m] = @ \cup r.rows])

(* None stands for a nil policy set: the module is not an executable one.  *)
ingestPolicy(t, r) == IF r = None THEN t ELSE indexRules(AddPolicy(t, r), r)

(* finalizeBuild, as far as the fields go.                                 *)
finalizeBuild(t) == [t EXCEPT !.pdr = [m \in Module |-> {}]]

checkScopePermissions(t, r, ignored) ==
    Check(t.tracker, Kind[r.id], r.id, ScopeOf[r.id], r.sp, ignored)

(* idx.GetScopes: the scopes that still have a row, of whatever kind.      *)
GetScopes(idx) == {ScopeOf[m] : m \in {x \in Module : idx[x] # {}}}

(* doDeletePolicy: parent roles of a role policy.                          *)
withoutParents(t, m) ==
    IF Kind[m] # "role" THEN t
    ELSE IndexParentRoles([t EXCEPT !.parents[ScopeOf[m]][RoleOf[m]] = None])

(* Mutant: scopeScopePermissions keeps the setting of an empty scope.      *)
doDeletePolicyKeepsSetting(t, m) ==
    IF t.meta[m] = None THEN t
    ELSE [withoutParents(t, m) EXCEPT
            !.idx[m] = {},
            !.tracker = Remove(@, m),
            !.schemas[m] = None,
            !.meta[m] = None,
            !.dr[m] = {}]

(* Mutant: the setting of the scope goes with any of its policies.         *)
doDeletePolicyDropsSetting(t, m) ==
    IF t.meta[m] = None THEN t
    ELSE LET idx == [t.idx EXCEPT ![m] = {}]
         IN  [withoutParents(t, m) EXCEPT
                !.idx = idx,
                !.principalScopes = @ \cap GetScopes(idx),
                !.resourceScopes = @ \cap GetScopes(idx),
                !.tracker = Remove(@, m),
                !.ssp[ScopeOf[m]] = None,
                !.schemas[m] = None,
                !.meta[m] = None,
                !.dr[m] = {}]

doDeletePolicy(t, m) ==
    IF t.meta[m] = None THEN t
    ELSE LET idx == [t.idx EXCEPT ![m] = {}]
             tracker == Remove(t.tracker, m)
         IN  [withoutParents(t, m) EXCEPT
                !.idx = idx,
                !.principalScopes = @ \cap GetScopes(idx),
                !.resourceScopes = @ \cap GetScopes(idx),
                !.tracker = tracker,
                !.ssp[ScopeOf[m]] = IF Tracked(tracker, ScopeOf[m]) THEN @ ELSE None,
                !.schemas[m] = None,
                !.meta[m] = None,
                !.dr[m] = {}]
=============================================================================
