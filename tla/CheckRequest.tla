---------------------------- MODULE CheckRequest ----------------------------
(***************************************************************************)
(* RuleTable.check (internal/ruletable/check.go): the effect of every      *)
(* action of a request, computed by loops over the actions, the policy     *)
(* kinds, the roles, the scopes and the rows the index returns, with three *)
(* caches.  Request and policies are chosen by Init.                       *)
(*                                                                         *)
(* A rule of a policy is a record: kind, name, version and scope; matches, *)
(* whether its resource pattern covers the requested kind; roles ("*" for  *)
(* a principal's), drs its derived roles, acts its actions, effect, and    *)
(* cond, an expression or None.  An expression is an atom whose value is a *)
(* part of the request, "runtime" (are there effective derived roles?) or  *)
(* "variable", which all policies import with the expression Variable.     *)
(* The condition of a derived role is an atom; its variables, cached under *)
(* the derived role, are a part of it.  The value "error" is an error of   *)
(* CEL; "unable" is any other one: the expression cannot be compiled, or   *)
(* the context of the request is done.  Rules of other principals and      *)
(* outputs are left out.                                                   *)
(***************************************************************************)
EXTENDS Naturals, Sequences, Functions, FiniteSetsExt

CONSTANTS
    None,           \* nil, and "no entry"
    Role,           \* the roles
    Scope,          \* the scopes
    Lineage,        \* Scope -> the scope followed by its parents
    Parents,        \* Scope -> role -> parent roles, from the role policies
    DRParents,      \* derived role -> its parent roles
    DRCond,         \* derived role -> its condition
    Variable,       \* the expression of the imported variable
    Tables,         \* the policies to check with: rules, and sp of each scope
    Requests(_)     \* the requests to make of a set of rules

Allow == "EFFECT_ALLOW"
Deny == "EFFECT_DENY"
NoMatch == "EFFECT_NO_MATCH"
Override == "override_parent"
Consent == "require_parental_consent"
Values == {"true", "false", "error", "unable"}

ASSUME CheckAssumption ==
    /\ \A s \in Scope : Lineage[s] \in Seq(Scope) /\ Lineage[s] # <<>>
    /\ Parents \in [Scope -> [Role -> SUBSET Role]]
    /\ DRParents \in [DOMAIN DRCond -> SUBSET Role]
    /\ \A t \in Tables : \A q \in Requests(t.rules) : q.actions # <<>> /\ q.roles # <<>>

VARIABLES
    rules,          \* the rules of the policies
    sp,             \* the scope permissions of each scope
    req,            \* the request
    rows,           \* the rows of the index
    pc,             \* what is done next
    pos,            \* the loop variables: action, pt, role, scope
    bindings,       \* the rows of the scope that are not evaluated yet
    hasAllow,       \* a row of the scope allows the action
    roleEffect,     \* roleEffectInfo
    actionEffect,   \* actionEffectInfo
    evalCtx,        \* the derived roles expressions see, and the failed ones
    scopedDerivedRoles,  \* processedScopedDerivedRoles, None if not processed
    varCache,       \* the variable's value, None if not evaluated
    conditionCache, \* the evaluation keys known to be satisfied or not
    effects         \* the result: the effect of each action

vars == <<rules, sp, req, rows, pc, pos, bindings, hasAllow, roleEffect, actionEffect,
          evalCtx, scopedDerivedRoles, varCache, conditionCache, effects>>
input == <<rules, sp, req, rows>>
caches == <<evalCtx, scopedDerivedRoles, varCache, conditionCache>>
-----------------------------------------------------------------------------
(* The table.  A row is a rule for one role and at most one derived role.  *)

(* Under parental consent a conditional allow is a denial where its        *)
(* condition does not hold.                                                *)
converted(rule) ==
    /\ rule.kind # "role"
    /\ sp[rule.scope] = Consent
    /\ rule.effect = Allow
    /\ rule.cond # None

Row(rule, r, d) ==
    [rule |-> rule, role |-> r, dr |-> d, neg |-> converted(rule),
     effect |-> IF converted(rule) THEN Deny ELSE rule.effect]

rowsOf(rule) ==
    {Row(rule, r, None) : r \in rule.roles}
        \cup UNION {{Row(rule, r, d) : r \in DRParents[d]} : d \in rule.drs}

(* Mutant: the key of a derived role's row is that of the rule.            *)
evalKeyOfRule(b) ==
    <<b.rule.kind, b.rule.version, b.rule.scope, b.rule.name>>

(* The evaluation key of a row: conditions are cached under it.            *)
evalKey(b) ==
    <<b.rule.kind, b.rule.version, b.rule.scope, b.rule.name, b.dr,
      IF b.rule.kind = "role" THEN b.role ELSE None>>

(* The row kinds of a policy type: role policies go with resource ones.    *)
ofType(b, pt) == (b.rule.kind = "principal") = (pt = "principal")

SelectsRole(b, roles) == b.role \in roles \cup {"*"}

(* compileParentRoleAncestors: the parents of the parents included.        *)
Ancestors(s, r) ==
    LET closed(S) == Parents[s][r] \subseteq S /\ \A x \in S : Parents[s][x] \subseteq S
    IN  {x \in Role : \A S \in SUBSET Role : closed(S) => x \in S}

(* AddParentRoles: the parents are those of the resource's scope.          *)
withParents(rs) == rs \cup UNION {Ancestors(req.rscope, r) : r \in rs}

(* The denial of an action that no rule of the role policy lists.          *)
noMatchRolePolicyDeny(q, s) ==
    [rule |-> [kind |-> "role", name |-> None, version |-> req.rversion, scope |-> s,
               matches |-> TRUE, roles |-> {q}, drs |-> {}, acts |-> {}, effect |-> Deny,
               cond |-> None],
     role |-> q, dr |-> None, neg |-> FALSE, effect |-> Deny]

(* appendRolePolicyDenies                                                  *)
rolePolicyDenies(s, a, roles) ==
    LET candidates == {b \in rows : /\ b.rule.kind = "role"
                                    /\ b.rule.version = req.rversion
                                    /\ b.rule.scope = s
                                    /\ b.role \in roles}
        matched(q) == {b \in candidates : b.role = q /\ b.rule.matches /\ a \in b.rule.acts}
        denies(q) ==
            IF matched(q) = {} THEN {noMatchRolePolicyDeny(q, s)}
            ELSE {[b EXCEPT !.effect = Deny, !.neg = TRUE] :
                     b \in {x \in matched(q) : x.rule.cond # None}}
    IN  UNION {denies(q) : q \in {b.role : b \in candidates}}

(* What the index finds in all dimensions but the action.                  *)
base(s, roles, pt) ==
    {b \in rows : /\ b.rule.version = req.rversion
                  /\ b.rule.scope = s
                  /\ b.rule.matches
                  /\ SelectsRole(b, roles)
                  /\ ofType(b, pt)}

(* Query: nothing, if no row is left before the action is looked at;       *)
(* otherwise the denials of role policies come first.  Rows come in the    *)
(* order of their identifiers, which is any order.                         *)
Query(s, a, roles, pt) ==
    [denies |-> IF pt = "principal" \/ base(s, roles, pt) = {} THEN {}
                ELSE rolePolicyDenies(s, a, roles),
     regular |-> {b \in base(s, roles, pt) : b.rule.kind # "role" /\ a \in b.rule.acts}]

NoBindings == [denies |-> {}, regular |-> {}]

(* GetAllScopes                                                            *)
scopeMap(pt) == {b.rule.scope : b \in {x \in rows : ofType(x, pt)}}

startScope(pt) == IF pt = "principal" THEN req.pscope ELSE req.rscope

GetAllScopes(pt) ==
    IF startScope(pt) \notin scopeMap(pt) /\ ~req.lenient THEN <<>>
    ELSE SelectSeq(Lineage[startScope(pt)], LAMBDA s : s \in scopeMap(pt))

ScopedExists(pt) ==
    \E b \in rows : /\ ofType(b, pt)
                    /\ b.rule.scope \in Range(GetAllScopes(pt))
                    /\ IF pt = "principal" THEN b.rule.version = req.pversion
                       ELSE b.rule.version = req.rversion /\ b.rule.matches
-----------------------------------------------------------------------------
(* Expressions and conditions                                              *)

NoCtx == [roles |-> {}, err |-> {}]

Truth(p) == IF p THEN "true" ELSE "false"

(* lazyRuntime fails when a derived role could not be computed.            *)
ExprValue(x, ctx, variable) ==
    CASE x = "runtime" -> IF ctx.err # {} THEN "error" ELSE Truth(ctx.roles # {})
      [] x = "variable" -> variable
      [] OTHER -> req.val[x]

(* SatisfiesCondition of x, or of none(x).  An error of CEL is an error    *)
(* only in strict evaluation; otherwise the expression is not true.  Any   *)
(* other error is always one.                                              *)
SatisfiesCondition(x, neg, ctx, variable) ==
    LET v == ExprValue(x, ctx, variable)
    IN  CASE x = None -> "true"
          [] x # None /\ (v = "unable" \/ (v = "error" /\ req.strict)) -> "error"
          [] OTHER -> Truth((v = "true") # neg)

(* evaluatePrograms: an error leaves the variable unset and shows where it *)
(* is used.                                                                *)
cachedVariable == IF varCache = None THEN ExprValue(Variable, evalCtx, "error") ELSE varCache

(* The derived roles the resource policy of the scope refers to, as far as *)
(* the principal's roles, parents included, activate them.                 *)
candidateRoles(s) ==
    {d \in UNION {rule.drs : rule \in {x \in rules : /\ x.kind = "resource"
                                                     /\ x.version = req.rversion
                                                     /\ x.scope = s
                                                     /\ x.matches}} :
        DRParents[d] \cap withParents(Range(req.roles)) # {}}

derivedRoleValue(d) == SatisfiesCondition(DRCond[d], FALSE, NoCtx, None)

effectiveDerivedRoles(s) ==
    [roles |-> {d \in candidateRoles(s) : derivedRoleValue(d) = "true"},
     err |-> {d \in candidateRoles(s) : derivedRoleValue(d) = "error" /\ req.strict}]
-----------------------------------------------------------------------------
Info(e, p, s) == [effect |-> e, policy |-> p, scope |-> s]
NoInfo == Info(NoMatch, "noPolicyMatch", None)
Default == Info(Deny, "noPolicyMatch", None)

action == req.actions[pos.action]
scopes == GetAllScopes(pos.pt)
scope == scopes[pos.scope]

Init ==
    /\ \E t \in Tables : rules = t.rules /\ sp = t.sp
    /\ req \in Requests(rules)
    /\ rows = UNION {rowsOf(rule) : rule \in rules}
    /\ pc = "start"
    /\ pos = [action |-> 1, pt |-> "principal", role |-> 1, scope |-> 1]
    /\ bindings = NoBindings
    /\ hasAllow = FALSE
    /\ roleEffect = NoInfo
    /\ actionEffect = NoInfo
    /\ evalCtx = NoCtx
    /\ scopedDerivedRoles = [s \in Scope |-> None]
    /\ varCache = None
    /\ conditionCache = [yes |-> {}, no |-> {}]
    /\ effects = [a \in Range(req.actions) |-> Default]

(* A "policy" exists, regardless of matching rules.                        *)
startRole(pt) ==
    /\ roleEffect' = [NoInfo EXCEPT !.policy = IF ScopedExists(pt) THEN pt ELSE @]
    /\ hasAllow' = FALSE
    /\ bindings' = NoBindings
    /\ pc' = "scope"

Goto(i, pt, r) ==
    /\ pos' = [action |-> i, pt |-> pt, role |-> r, scope |-> 1]
    /\ startRole(pt)

Stop(reason) ==
    /\ pc = "start"
    /\ pc' = reason
    /\ UNCHANGED <<input, pos, bindings, hasAllow, roleEffect, actionEffect, caches>>

NoScopes == GetAllScopes("principal") = <<>> /\ GetAllScopes("resource") = <<>>

(* No policy in any scope, or none for this version and resource kind.     *)
NoPolicies ==
    /\ NoScopes \/ (~ScopedExists("principal") /\ ~ScopedExists("resource"))
    /\ Stop("done")
    /\ UNCHANGED effects

(* ValidateCheckInput returns an error; there is no output.                *)
ValidationFails ==
    /\ ~NoScopes
    /\ Stop("failed")
    /\ UNCHANGED effects

(* ValidateCheckInput rejects the request.                                 *)
Reject ==
    /\ ~NoScopes
    /\ Stop("rejected")
    /\ effects' = [a \in DOMAIN effects |-> Info(Deny, "resource", None)]

Evaluate ==
    /\ pc = "start"
    /\ ScopedExists("principal") \/ ScopedExists("resource")
    /\ Goto(1, "principal", 1)
    /\ UNCHANGED <<input, actionEffect, caches, effects>>

(* The top of the loop over the scopes.  The test for an effect found in   *)
(* an earlier scope is left out: whatever sets one leaves the loop.        *)
EnterScope ==
    /\ pc = "scope"
    /\ pos.scope <= Len(scopes)
    /\ IF pos.pt = "principal" THEN UNCHANGED <<evalCtx, scopedDerivedRoles>>
       ELSE LET sdr == IF scopedDerivedRoles[scope] # None THEN scopedDerivedRoles[scope]
                       ELSE effectiveDerivedRoles(scope)
            IN  /\ evalCtx' = sdr
                /\ scopedDerivedRoles' = [scopedDerivedRoles EXCEPT ![scope] = sdr]
    /\ bindings' = Query(scope, action, withParents({req.roles[pos.role]}), pos.pt)
    /\ pc' = "bindings"
    /\ UNCHANGED <<input, pos, hasAllow, roleEffect, actionEffect, varCache,
                   conditionCache, effects>>

setEffect(info) == effects' = [effects EXCEPT ![action] = info]

(* The next action, or the end.                                            *)
finishAction(info) ==
    /\ setEffect(info)
    /\ actionEffect' = NoInfo
    /\ IF pos.action < Len(req.actions) THEN Goto(pos.action + 1, "principal", 1)
       ELSE /\ pc' = "done"
            /\ UNCHANGED <<pos, bindings, hasAllow, roleEffect>>

nextBindings == IF bindings.denies # {} THEN bindings.denies ELSE bindings.regular

(* The condition of a row: from the cache, or the derived role's condition *)
(* first.                                                                  *)
conditionOf(b) ==
    LET dr == IF b.dr = None THEN "true" ELSE derivedRoleValue(b.dr)
    IN  CASE evalKey(b) \in conditionCache.yes -> "true"
          [] evalKey(b) \in conditionCache.no -> "false"
          [] OTHER -> IF dr # "true" THEN dr
                      ELSE SatisfiesCondition(b.rule.cond, b.neg, evalCtx, cachedVariable)

(* The denials of unlisted actions have no parameters to evaluate.         *)
evaluateVariables(b) == varCache' = IF b.rule.name = None THEN varCache ELSE cachedVariable

SkipBinding(b) ==
    /\ evaluateVariables(b)
    /\ bindings' = [denies |-> bindings.denies \ {b}, regular |-> bindings.regular \ {b}]
    /\ UNCHANGED <<input, pc, pos, hasAllow, roleEffect, actionEffect, evalCtx,
                   scopedDerivedRoles, conditionCache, effects>>

DenyOnError(b) ==
    /\ evaluateVariables(b)
    /\ finishAction(Info(Deny, b.rule.kind, scope))
    /\ UNCHANGED <<input, evalCtx, scopedDerivedRoles, conditionCache>>

(* Mutant: an error in a principal policy skips the row.                   *)
BindingFailsResource(b) ==
    /\ conditionOf(b) = "error"
    /\ IF req.strict /\ pos.pt = "resource" THEN DenyOnError(b) ELSE SkipBinding(b)

(* Mutant: an error of a derived role's condition skips the row.           *)
BindingFailsCondition(b) ==
    /\ conditionOf(b) = "error"
    /\ IF req.strict /\ (b.dr = None \/ derivedRoleValue(b.dr) # "error")
       THEN DenyOnError(b) ELSE SkipBinding(b)

(* An error of the condition or of the derived role's: strict evaluation   *)
(* denies the action, otherwise the row is skipped and nothing is cached.  *)
BindingFails(b) ==
    /\ conditionOf(b) = "error"
    /\ IF req.strict THEN DenyOnError(b) ELSE SkipBinding(b)

(* A row that denies ends the loop over the scopes.                        *)
EvalBinding(b) ==
    LET satisfied == conditionOf(b) = "true"
        field == IF satisfied THEN "yes" ELSE "no"
    IN  /\ conditionOf(b) # "error"
        /\ evaluateVariables(b)
        /\ conditionCache' = [conditionCache EXCEPT ![field] = @ \cup {evalKey(b)}]
        /\ hasAllow' = (hasAllow \/ (satisfied /\ b.effect = Allow))
        /\ bindings' = [denies |-> bindings.denies \ {b}, regular |-> bindings.regular \ {b}]
        /\ IF satisfied /\ b.effect = Deny
           THEN /\ roleEffect' = Info(Deny, IF b.rule.kind = "role" THEN "role"
                                            ELSE roleEffect.policy, scope)
                /\ pc' = "role"
           ELSE UNCHANGED <<roleEffect, pc>>
        /\ UNCHANGED <<input, pos, actionEffect, evalCtx, scopedDerivedRoles, effects>>

Bind ==
    /\ pc = "bindings"
    /\ \E b \in nextBindings : BindingFails(b) \/ EvalBinding(b)

(* The variables of the policy, or of a derived role, cannot be evaluated  *)
(* for a reason other than an error of CEL: check returns the error.       *)
VariablesFail ==
    /\ \/ /\ pc = "scope"
          /\ pos.scope <= Len(scopes)
          /\ pos.pt = "resource"
          /\ scopedDerivedRoles[scope] = None
          /\ candidateRoles(scope) # {}
       \/ /\ pc = "bindings"
          /\ \E b \in nextBindings :
                \/ b.rule.name # None /\ varCache = None
                \/ b.dr # None /\ evalKey(b) \notin conditionCache.yes \cup conditionCache.no
    /\ pc' = "failed"
    /\ UNCHANGED <<input, pos, bindings, hasAllow, roleEffect, actionEffect, caches, effects>>

(* After the rows of a scope: an allow stands, or it needs the consent of  *)
(* a parent scope and is forgotten.                                        *)
EndScope ==
    /\ pc = "bindings"
    /\ nextBindings = {}
    /\ IF hasAllow /\ sp[scope] = Override
       THEN /\ roleEffect' = [roleEffect EXCEPT !.effect = Allow, !.scope = scope]
            /\ pc' = "role"
            /\ UNCHANGED <<pos, hasAllow>>
       ELSE /\ hasAllow' = FALSE
            /\ pos' = [pos EXCEPT !.scope = @ + 1]
            /\ pc' = "scope"
            /\ UNCHANGED roleEffect
    /\ UNCHANGED <<input, bindings, actionEffect, caches, effects>>

ScopesDone == pc = "role" \/ (pc = "scope" /\ pos.scope > Len(scopes))

(* Mutant: the effect of the last role counts.                             *)
combinedLast == roleEffect

(* The first effect of a role, and an allow before any other.  The case of *)
(* noMatchScopePermissions is left out: a row so marked is a denial and    *)
(* never sets that policy.                                                 *)
combined ==
    IF actionEffect.effect = NoMatch \/ roleEffect.effect = Allow THEN roleEffect
    ELSE actionEffect

(* Mutant: an allow does not end the loop over the roles.                  *)
lastRoleGoesOn == pos.pt = "principal" \/ pos.role = Len(req.roles)

(* Principal rows have the role "*": one round covers them all.            *)
lastRole == pos.pt = "principal" \/ pos.role = Len(req.roles) \/ roleEffect.effect = Allow

NextRole ==
    /\ ScopesDone
    /\ ~lastRole
    /\ actionEffect' = combined
    /\ Goto(pos.action, pos.pt, pos.role + 1)
    /\ UNCHANGED <<input, caches, effects>>

(* Principal policies that decide nothing leave it to resource policies.   *)
NextKind ==
    /\ ScopesDone
    /\ lastRole
    /\ pos.pt = "principal"
    /\ combined.effect = NoMatch
    /\ actionEffect' = combined
    /\ Goto(pos.action, "resource", 1)
    /\ UNCHANGED <<input, caches, effects>>

EndAction ==
    /\ ScopesDone
    /\ lastRole
    /\ pos.pt = "resource" \/ combined.effect # NoMatch
    /\ finishAction(IF combined.effect = NoMatch THEN [combined EXCEPT !.effect = Deny]
                    ELSE combined)
    /\ UNCHANGED <<input, caches>>

Next ==
    \/ NoPolicies \/ ValidationFails \/ Reject \/ Evaluate
    \/ EnterScope \/ VariablesFail \/ Bind \/ EndScope
    \/ NextRole \/ NextKind \/ EndAction

Spec == Init /\ [][Next]_vars
-----------------------------------------------------------------------------
TypeOK ==
    /\ pc \in {"start", "scope", "bindings", "role", "done", "rejected", "failed"}
    /\ pos.action \in DOMAIN req.actions
    /\ pos.pt \in {"principal", "resource"}
    /\ pos.role \in DOMAIN req.roles
    /\ pos.scope \in 1 .. Len(scopes) + 1
    /\ varCache \in Values \cup {None}
    /\ roleEffect.effect \in {Allow, Deny, NoMatch}
    /\ actionEffect.effect \in {Deny, NoMatch}
    /\ bindings.regular \subseteq rows
    /\ \A b \in bindings.denies : b.rule.kind = "role" /\ b.effect = Deny
    /\ \A a \in DOMAIN effects : effects[a].effect \in {Allow, Deny}
-----------------------------------------------------------------------------
(* What the documents promise (evaluation.adoc, scope_permissions.adoc,    *)
(* role_policies.adoc), of rules rather than rows: no loops, no caches, no *)
(* order, no rewritten conditions.  Evaluation is not strict.              *)

Own(s) == {d \in candidateRoles(s) : req.val[DRCond[d]] = "true"}

Holds(rule) ==
    CASE rule.cond = None -> TRUE
      [] rule.cond = "runtime" -> rule.kind = "resource" /\ Own(rule.scope) # {}
      [] rule.cond = "variable" -> req.val[Variable] = "true"
      [] OTHER -> req.val[rule.cond] = "true"

(* The version of the principal's policies, or of the resource's.          *)
VersionFor(pt) == IF pt = "principal" THEN req.pversion ELSE req.rversion

(* The rule is about the action, and about one of the roles directly or by *)
(* way of a derived role.                                                  *)
Concerns(rule, s, a, pt, roles) ==
    /\ rule.kind = pt
    /\ rule.scope = s
    /\ rule.version = VersionFor(pt)
    /\ rule.matches
    /\ a \in rule.acts
    /\ \/ rule.roles \cap (roles \cup {"*"}) # {}
       \/ \E d \in rule.drs : DRParents[d] \cap roles # {} /\ req.val[DRCond[d]] = "true"

Denied(s, a, pt, roles) ==
    \E rule \in rules :
        /\ Concerns(rule, s, a, pt, roles)
        /\ \/ rule.effect = Deny /\ Holds(rule)
           \/ rule.effect = Allow /\ sp[s] = Consent /\ ~Holds(rule)

Allowed(s, a, pt, roles) ==
    \E rule \in rules : /\ Concerns(rule, s, a, pt, roles)
                        /\ rule.effect = Allow
                        /\ Holds(rule)

(* The policy of the role q in the scope, and what it says of the action.  *)
RolePolicy(s, q) ==
    {rule \in rules : /\ rule.kind = "role"
                      /\ rule.version = req.rversion
                      /\ rule.scope = s
                      /\ q \in rule.roles}

Listing(s, a, q) == {rule \in RolePolicy(s, q) : rule.matches /\ a \in rule.acts}

Unlisted(s, a, q) == RolePolicy(s, q) # {} /\ Listing(s, a, q) = {}

(* The policy of one of the roles does not list the action, or lists it    *)
(* with a condition that does not hold.                                    *)
DeniedByRole(s, a, pt, roles) ==
    /\ pt = "resource"
    /\ \E q \in roles : Unlisted(s, a, q) \/ \E rule \in Listing(s, a, q) : ~Holds(rule)

(* The scopes, by their place in the lineage, that decide for the roles.   *)
Deciding(a, pt, roles) ==
    {i \in DOMAIN GetAllScopes(pt) :
        LET s == GetAllScopes(pt)[i]
        IN  \/ Denied(s, a, pt, roles)
            \/ DeniedByRole(s, a, pt, roles)
            \/ Allowed(s, a, pt, roles) /\ sp[s] = Override}

(* The most specific scope that decides does; denials come first.          *)
Verdict(a, pt, roles) ==
    LET s == GetAllScopes(pt)[Min(Deciding(a, pt, roles))]
        policy == IF ScopedExists(pt) THEN pt ELSE "noPolicyMatch"
    IN  IF Deciding(a, pt, roles) = {} THEN Info(NoMatch, policy, None)
        ELSE IF DeniedByRole(s, a, pt, roles) THEN Info(Deny, "role", s)
        ELSE Info(IF Denied(s, a, pt, roles) THEN Deny ELSE Allow, policy, s)

(* A principal policy that decides is final; otherwise an allow for any of *)
(* the roles wins; otherwise the first denial stands, or the default.      *)
Decision(a) ==
    LET principal == Verdict(a, "principal", {})
        byRole(i) == Verdict(a, "resource", withParents({req.roles[i]}))
        having(es) == {i \in DOMAIN req.roles : byRole(i).effect \in es}
    IN  CASE principal.effect # NoMatch -> principal
          [] OTHER -> IF having({Allow}) # {} THEN byRole(Min(having({Allow})))
                      ELSE IF having({Deny}) # {} THEN byRole(Min(having({Deny})))
                      ELSE [byRole(1) EXCEPT !.effect = Deny]

(* Where the code is known to go another way than the documents.  Query    *)
(* looks at the role policies of a scope only if the scope has a rule for  *)
(* the resource and one of the roles (UnlistedDenied), and it finds the    *)
(* rules of principal policies by the version of the resource.  And the    *)
(* documents do not say what a condition means that cannot be evaluated.   *)
Overlooked(s, a, roles) ==
    /\ DeniedByRole(s, a, "resource", roles)
    /\ ~ \E rule \in rules :
           /\ rule.kind # "principal"
           /\ rule.scope = s
           /\ rule.version = req.rversion
           /\ rule.matches
           /\ (rule.roles \cup UNION {DRParents[d] : d \in rule.drs}) \cap (roles \cup {"*"}) # {}

Documented ==
    /\ "unable" \notin Range(req.val)
    /\ req.pversion = req.rversion \/ \A rule \in rules : rule.kind # "principal"
    /\ \A s \in Range(GetAllScopes("resource")), a \in DOMAIN effects, r \in Range(req.roles) :
           ~Overlooked(s, a, withParents({r}))

(* Every decision made is the one the documents describe, with its scope   *)
(* and policy, in whatever order rows are met, whatever was cached for     *)
(* earlier roles, scopes and actions (check, Query): for requests whose    *)
(* principal and resource versions are the same where there are principal  *)
(* policies, and where no denial of a role policy is overlooked.           *)
DecidesAsDeclared ==
    /\ pc = "done"
    /\ ~req.strict
    /\ Documented
    /\ ScopedExists("principal") \/ ScopedExists("resource")
    => \A a \in DOMAIN effects : effects[a] = Decision(a)

(* "Any resource and action pair not defined in this list is immediately   *)
(* denied for that role" (role_policies.adoc): an action that the policy   *)
(* of each of the principal's roles, in the scope of the resource, does    *)
(* not list for the resource is denied, unless a principal policy decides  *)
(* (appendRolePolicyDenies, Query).                                        *)
UnlistedDenied ==
    pc = "done" => \A a \in DOMAIN effects :
        effects[a].effect = Allow /\ effects[a].policy # "principal" =>
            \E r \in Range(req.roles) : ~Unlisted(req.rscope, a, r)

(* Strict evaluation, where an error denies the action, never allows an    *)
(* action that evaluation with errors taken as false would not allow.      *)
StrictNeverAllowsMore ==
    pc = "done" /\ req.strict /\ Documented => \A a \in DOMAIN effects :
        effects[a].effect = Allow => Decision(a).effect = Allow

(* Evaluating the rule for the roles meets an error.                       *)
CondFails(rule) ==
    CASE rule.cond = None -> FALSE
      [] rule.cond = "runtime" -> \E d \in candidateRoles(rule.scope) : req.val[DRCond[d]] = "error"
      [] rule.cond = "variable" -> req.val[Variable] = "error"
      [] OTHER -> req.val[rule.cond] = "error"

Fails(rule, a, roles) ==
    /\ rule.version = req.rversion
    /\ rule.matches
    /\ a \in rule.acts
    /\ \/ rule.roles \cap (roles \cup {"*"}) # {} /\ CondFails(rule)
       \/ \E d \in rule.drs : /\ DRParents[d] \cap roles # {}
                              /\ \/ req.val[DRCond[d]] = "error"
                                 \/ req.val[DRCond[d]] = "true" /\ CondFails(rule)

(* Strict evaluation allows an action only on a path without errors: for   *)
(* the role that allows it, the first for which it is allowed with errors  *)
(* taken as false, no rule of the scopes up to the one that allows failed, *)
(* nor a derived role that a rule looked at (check).                       *)
StrictAllowsWithoutErrors ==
    pc = "done" /\ req.strict /\ Documented => \A a \in DOMAIN effects :
        LET pt == effects[a].policy
            chain == GetAllScopes(pt)
            upTo(s) == {chain[j] : j \in 1 .. CHOOSE i \in DOMAIN chain : chain[i] = s}
            rolesOf(i) == withParents({req.roles[i]})
            allowing == {i \in DOMAIN req.roles : Verdict(a, pt, rolesOf(i)).effect = Allow}
        IN  effects[a].effect = Allow =>
              /\ allowing # {}
              /\ \A rule \in rules :
                    (rule.kind = "principal") = (pt = "principal")
                        /\ rule.scope \in upTo(effects[a].scope)
                    => ~Fails(rule, a, IF pt = "principal" THEN {} ELSE rolesOf(Min(allowing)))

(* A condition answered from the cache is what evaluating it in its own    *)
(* policy's scope gives, although the cache outlives roles and actions.    *)
CachesHold ==
    \A b \in rows :
        LET ctx == scopedDerivedRoles[b.rule.scope]
            drHolds == b.dr = None \/ req.val[DRCond[b.dr]] = "true"
        IN  b.rule.kind = "resource" /\ ctx # None =>
              /\ evalKey(b) \in conditionCache.yes =>
                    /\ drHolds
                    /\ SatisfiesCondition(b.rule.cond, b.neg, ctx, req.val[Variable]) = "true"
              /\ evalKey(b) \in conditionCache.no =>
                    \/ ~drHolds
                    \/ SatisfiesCondition(b.rule.cond, b.neg, ctx, req.val[Variable]) = "false"
=============================================================================
