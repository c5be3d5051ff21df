------------------------- MODULE MCRuleTableManager -------------------------
(* Small policy repositories for RuleTableManager.  A module is a string;  *)
(* its first letter is its kind: resource, principal, L for a role policy, *)
(* D for derived roles, V for exported variables.                          *)
EXTENDS RuleTableManager

Def == [sp |-> Override, imports |-> {}, ver |-> 1, state |-> "ok",
        parents |-> {}, schemas |-> None, rules |-> 1]

MCRole == {"manager", "employee"}
MCScope == {"", "sub"}

KindOf(m) ==
    CASE m \in {"R", "R.sub"} -> "resource"
      [] m = "P" -> "principal"
      [] m \in {"L", "L2"} -> "role"
      [] m = "D" -> "derived_roles"
      [] m = "V" -> "export"

MCKind == [m \in Module |-> KindOf(m)]
MCScopeOf == [m \in Module |-> IF m = "R.sub" THEN "sub" ELSE ""]
MCRoleOf == [m \in Module |-> IF KindOf(m) = "role" THEN "manager" ELSE None]
MCAncestors == [m \in Module |-> IF m = "R.sub" THEN {"R"} ELSE {}]
MCRootOf == [m \in Module |-> IF m = "R.sub" THEN "R" ELSE m]

(* Policies that share a scope, with either setting; a role policy with    *)
(* and without rules; and, in a scope of its own, a policy that imports    *)
(* derived roles.                                                          *)
ScopesDefs == [m \in Module |->
    CASE m = "L" -> {[Def EXCEPT !.parents = {"employee"}, !.rules = n] : n \in {0, 1}}
      [] m = "R.sub" -> {[Def EXCEPT !.imports = {"D"}]}
      [] m = "D" -> {Def, [Def EXCEPT !.ver = 2], [Def EXCEPT !.state = "bad"]}
      [] OTHER -> {[Def EXCEPT !.sp = p] : p \in {Unspecified, Consent}}]

(* R imports D, which imports V, or stops importing it.                    *)
ImportsDefs == [m \in Module |->
    CASE m = "R" -> {[Def EXCEPT !.imports = {"D"}], Def}
      [] m = "D" -> {[Def EXCEPT !.imports = {"V"} \cap Module], [Def EXCEPT !.state = "bad"]}
      [] OTHER -> {Def, [Def EXCEPT !.ver = 2]}]

(* R shares its scope with P and imports D.                                *)
BypassDefs == [m \in Module |->
    CASE m = "R" -> {[Def EXCEPT !.sp = Consent, !.imports = {"D"}]}
      [] m = "P" -> {Def}
      [] OTHER -> {Def, [Def EXCEPT !.ver = 2]}]

(* Two versions of the policy of one role.                                 *)
RoleDefs == [m \in Module |-> {[Def EXCEPT !.parents = {"employee"}]}]
=============================================================================
