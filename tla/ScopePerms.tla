----------------------------- MODULE ScopePerms -----------------------------
(***************************************************************************)
(* scopeperms.Tracker (internal/policy/scopeperms/scopeperms.go): which    *)
(* policy uses which scopePermissions setting in which scope.              *)
(*                                                                         *)
(* A policy key stands for the module it names.  A Go map from A to B is a *)
(* function on A whose value is None where the map has no entry; an empty  *)
(* inner map and a missing one are the same, as they are for the code.     *)
(***************************************************************************)
CONSTANTS
    Module,     \* the policies
    Scope,      \* the scopes
    None        \* no entry

Override == "override_parent"
Consent == "require_parental_consent"
Unspecified == "unspecified"
Settings == {Override, Consent}
SourceSettings == Settings \cup {Unspecified}

ASSUME ScopePermsAssumption ==
    /\ None \notin Scope
    /\ None \notin SourceSettings

(* Mutant: the unspecified setting is kept as it is.                       *)
NormaliseNever(sp) == sp

Normalise(sp) == IF sp = Unspecified THEN Override ELSE sp

Constrained(kind) == kind \in {"resource", "principal"}

Trackers == [scopes : [Scope -> [Module -> Settings \cup {None}]],
             policies : [Module -> Scope \cup {None}]]

NewTracker == [scopes |-> [s \in Scope |-> [m \in Module |-> None]],
               policies |-> [m \in Module |-> None]]

Remove(t, key) ==
    IF t.policies[key] = None THEN t
    ELSE [scopes |-> [t.scopes EXCEPT ![t.policies[key]][key] = None],
          policies |-> [t.policies EXCEPT ![key] = None]]

Add(t, kind, key, scope, sp) ==
    IF ~Constrained(kind) \/ t.scopes[scope][key] = Normalise(sp) THEN t
    ELSE [scopes |-> [Remove(t, key).scopes EXCEPT ![scope][key] = Normalise(sp)],
          policies |-> [t.policies EXCEPT ![key] = scope]]

(* Check: the policies of the scope that would disagree with the setting.  *)
Others(t, key, scope, sp, ignored) ==
    {k \in Module \ {key, ignored} : t.scopes[scope][k] \notin {None, Normalise(sp)}}

Check(t, kind, key, scope, sp, ignored) ==
    Constrained(kind) /\ Others(t, key, scope, sp, ignored) # {}

Tracked(t, scope) == \E k \in Module : t.scopes[scope][k] # None

disagree(settings) ==
    \E j, k \in Module : /\ settings[j] # None
                         /\ settings[k] # None
                         /\ settings[j] # settings[k]

Conflicts(t) == {s \in Scope : disagree(t.scopes[s])}
=============================================================================
