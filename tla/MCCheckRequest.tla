--------------------------- MODULE MCCheckRequest ---------------------------
(* One resource kind, a scope and its parent, two roles of which the first *)
(* has the parent role "p" in the scope, one derived role.                 *)
EXTENDS CheckRequest

MCRole == {"r1", "r2", "p"}
MCScope == {"sub", ""}
MCLineage == [s \in Scope |-> IF s = "sub" THEN <<"sub", "">> ELSE <<"">>]
MCParents == [s \in Scope |-> [r \in Role |-> IF s = "sub" /\ r = "r1" THEN {"p"} ELSE {}]]
MCDRParents == [d \in {"D"} |-> {"r2", "p"}]
MCDRCond == [d \in {"D"} |-> "d"]

Rule == [kind |-> "resource", name |-> "n", version |-> "v", scope |-> "sub", matches |-> TRUE,
         roles |-> {}, drs |-> {}, acts |-> {"a", "b"}, effect |-> Allow, cond |-> None]

Conds == {None, "c", "runtime", "variable"}

ResourceRules ==
    {[Rule EXCEPT !.scope = s, !.roles = w[1], !.drs = w[2], !.effect = e, !.cond = x] :
        s \in Scope, e \in {Allow, Deny}, x \in Conds,
        w \in {<<{"r1"}, {}>>, <<{"r2"}, {"D"}>>, <<{"p"}, {}>>}}

PrincipalRules ==
    {[Rule EXCEPT !.kind = "principal", !.scope = s, !.roles = {"*"}, !.acts = {"a"},
                  !.effect = e, !.cond = x] :
        s \in Scope, e \in {Allow, Deny}, x \in {None, "c"}}

RoleRules ==
    {[Rule EXCEPT !.kind = "role", !.scope = s, !.roles = {r}, !.matches = m, !.acts = {"b"},
                  !.effect = NoMatch, !.cond = x] :
        s \in Scope, r \in {"r1", "p"}, m \in BOOLEAN, x \in {None, "c"}}

Named(r, n) == [r EXCEPT !.name = n]

Uses(rs, x) ==
    \E rule \in rs : IF x = "d" THEN rule.drs # {} ELSE rule.cond \in {"c", "variable"}

(* The values of atoms that are used.                                      *)
Vals(rs) ==
    {v \in [{"c", "d"} -> Values \ {"unable"}] :
        \A x \in {"c", "d"} : Uses(rs, x) \/ v[x] = "true"}

(* One atom cannot be evaluated.  It is not that of the variable, which is *)
(* evaluated in another way.                                               *)
UnableVals(rs) ==
    {[x \in {"c", "d"} |-> IF x = y THEN "unable" ELSE "true"] :
        y \in {x \in {"c", "d"} : Uses(rs, x) /\ \A rule \in rs : rule.cond # "variable"}}

Request ==
    [actions |-> <<"a", "b">>, roles |-> <<"r1", "r2">>, pscope |-> "sub", rscope |-> "sub",
     pversion |-> "v", rversion |-> "v", lenient |-> TRUE, strict |-> FALSE, val |-> <<>>]

(* For rules without conditions, also other scopes and versions.           *)
Elsewhere ==
    {[Request EXCEPT !.val = [x \in {"c", "d"} |-> "true"], !.pscope = s, !.rscope = t,
                     !.lenient = FALSE, !.rversion = v] :
        s \in Scope, t \in Scope, v \in {"v", "w"}}

MCRequests(rs) ==
    {[Request EXCEPT !.val = v] : v \in Vals(rs) \cup UnableVals(rs)} \cup
    {[Request EXCEPT !.val = v, !.strict = TRUE] : v \in {w \in Vals(rs) : "error" \in Range(w)}}
    \cup IF \A rule \in rs : rule.cond = None THEN Elsewhere ELSE {}

Allows == {x \in ResourceRules : x.effect = Allow}
ForAll == [Rule EXCEPT !.scope = "", !.roles = {"r1", "r2"}]

(* An allow and any rule; an allow of the parent scope, a rule of the      *)
(* scope and a principal's or a role's rule.                               *)
RuleSets ==
    {{Named(x, 1), Named(y, 2)} :
        x \in Allows, y \in ResourceRules \cup PrincipalRules \cup RoleRules}
    \cup
    {{Named(ForAll, 1), Named(x, 2), Named(y, 3)} :
        x \in {r \in ResourceRules : r.scope = "sub"}, y \in PrincipalRules \cup RoleRules}

MCTables ==
    {[rules |-> rs, sp |-> [s \in Scope |-> IF s = "sub" THEN p ELSE Override]] :
        rs \in RuleSets, p \in {Override, Consent}}

(* A role policy of the scope, and an allow of the parent scope for all.   *)
RoleTables ==
    {[rules |-> {Named(ForAll, 1), Named(x, 2)}, sp |-> [s \in Scope |-> Override]] :
        x \in {r \in RoleRules : r.scope = "sub" /\ r.cond = None}}

OneRole(rs) ==
    {[Request EXCEPT !.val = [x \in {"c", "d"} |-> "true"], !.roles = <<"r1">>]}
=============================================================================
