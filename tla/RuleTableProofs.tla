--------------------------- MODULE RuleTableProofs ---------------------------
(***************************************************************************)
(* Proofs about the rule table and its manager.                            *)
(***************************************************************************)
EXTENDS RuleTableManager, TLAPS

Fields == {"meta", "schemas", "pdr", "parents", "dr", "principalScopes",
           "resourceScopes", "tracker", "ssp", "idx", "parentRoles"}

(* A record with the fields of a rule table.                               *)
Shape(t) == t = [x \in Fields |-> t[x]]

(* What the steps of adding and deleting a policy do to the fields about   *)
(* scopePermissions.                                                       *)
LEMMA AddPolicyFields ==
    ASSUME NEW t, NEW r, Shape(t)
    PROVE  /\ Shape(AddPolicy(t, r))
           /\ AddPolicy(t, r).meta = [t.meta EXCEPT ![r.id] = r]
           /\ AddPolicy(t, r).tracker = t.tracker
           /\ AddPolicy(t, r).ssp = t.ssp
BY ZenonT(40) DEF Shape, Fields, AddPolicy

LEMMA IndexParentRolesFields ==
    ASSUME NEW t, Shape(t)
    PROVE  /\ Shape(IndexParentRoles(t))
           /\ \A x \in Fields \ {"parentRoles"} : IndexParentRoles(t)[x] = t[x]
           /\ IndexParentRoles(t).parentRoles = t.parents
BY DEF Shape, Fields, IndexParentRoles

LEMMA indexRulesFields ==
    ASSUME NEW t, NEW r, Shape(t), r.rows # {}
    PROVE  /\ Shape(indexRules(t, r))
           /\ indexRules(t, r).meta = t.meta
           /\ indexRules(t, r).tracker = Add(t.tracker, Kind[r.id], r.id, ScopeOf[r.id], r.sp)
           /\ indexRules(t, r).ssp = [t.ssp EXCEPT ![ScopeOf[r.id]] =
                  IF Kind[r.id] = "role" THEN @ ELSE Normalise(r.sp)]
<1> DEFINE m == r.id
           s == ScopeOf[m]
           u == [t EXCEPT
                !.dr[m] = IF Kind[m] = "resource" THEN @ \cup t.pdr[m] ELSE @,
                !.tracker = Add(@, Kind[m], m, s, r.sp),
                !.ssp[s] = IF Kind[m] = "role" THEN @ ELSE Normalise(r.sp),
                !.principalScopes = IF Kind[m] = "principal" THEN @ \cup {s} ELSE @,
                !.resourceScopes = IF Kind[m] # "principal" THEN @ \cup {s} ELSE @,
                !.idx[m] = @ \cup r.rows]
<1>1. indexRules(t, r) = IndexParentRoles(u)
  BY DEF indexRules
<1>2. Shape(u)
  BY ZenonT(60) DEF Shape, Fields
<1>3. u.meta = t.meta /\ u.tracker = Add(t.tracker, Kind[m], m, s, r.sp)
  BY Zenon DEF Shape, Fields
<1>4. u.ssp = [t.ssp EXCEPT ![s] = IF Kind[m] = "role" THEN @ ELSE Normalise(r.sp)]
  BY Zenon DEF Shape, Fields
<1> HIDE DEF u
<1> QED BY <1>1, <1>2, <1>3, <1>4, IndexParentRolesFields DEF Fields

LEMMA withoutParentsFields ==
    ASSUME NEW t, NEW m, Shape(t)
    PROVE  /\ Shape(withoutParents(t, m))
           /\ \A x \in Fields \ {"parentRoles", "parents"} : withoutParents(t, m)[x] = t[x]
<1> DEFINE u == [t EXCEPT !.parents[ScopeOf[m]][RoleOf[m]] = None]
<1>1. /\ Shape(u)
      /\ \A x \in Fields \ {"parents"} : u[x] = t[x]
  BY DEF Shape, Fields
<1>2. withoutParents(t, m) = IF Kind[m] # "role" THEN t ELSE IndexParentRoles(u)
  BY DEF withoutParents
<1> HIDE DEF u
<1> QED BY <1>1, <1>2, IndexParentRolesFields DEF Fields

LEMMA doDeletePolicyFields ==
    ASSUME NEW t, NEW m, Shape(t), t.meta[m] # None
    PROVE  /\ Shape(doDeletePolicy(t, m))
           /\ doDeletePolicy(t, m).meta = [t.meta EXCEPT ![m] = None]
           /\ doDeletePolicy(t, m).tracker = Remove(t.tracker, m)
           /\ doDeletePolicy(t, m).ssp = [t.ssp EXCEPT ![ScopeOf[m]] =
                  IF Tracked(Remove(t.tracker, m), ScopeOf[m]) THEN @ ELSE None]
<1> DEFINE w == withoutParents(t, m)
           idx == [t.idx EXCEPT ![m] = {}]
           tracker == Remove(t.tracker, m)
           setting == IF Tracked(tracker, ScopeOf[m]) THEN w.ssp[ScopeOf[m]] ELSE None
           u == doDeletePolicy(t, m)
<1>1. Shape(w) /\ w.meta = t.meta /\ w.ssp = t.ssp
  BY withoutParentsFields DEF Fields
<1>2. u = [w EXCEPT
              !.idx = idx,
              !.principalScopes = @ \cap GetScopes(idx),
              !.resourceScopes = @ \cap GetScopes(idx),
              !.tracker = tracker,
              !.ssp[ScopeOf[m]] = setting,
              !.schemas[m] = None,
              !.meta[m] = None,
              !.dr[m] = {}]
  BY DEF doDeletePolicy
<1> HIDE DEF w, idx, tracker, setting, u
<1>3. Shape(u)
  BY ZenonT(40), <1>1, <1>2 DEF Shape, Fields
<1>4. /\ u.meta = [w.meta EXCEPT ![m] = None]
      /\ u.tracker = tracker
      /\ u.ssp = [w.ssp EXCEPT ![ScopeOf[m]] = setting]
  BY <1>1, <1>2 DEF Shape, Fields
<1> QED BY <1>1, <1>3, <1>4 DEF w, tracker, setting, u
-----------------------------------------------------------------------------
(* A table whose tracker and settings say of every scope what its policies *)
(* say; policies is the inverse that Remove relies on.                     *)
Good(t) ==
    /\ Shape(t)
    /\ DOMAIN t.meta = Module
    /\ \A m \in Module : t.meta[m] # None =>
          t.meta[m].id = m /\ t.meta[m].sp \in Settings
    /\ t.tracker \in Trackers
    /\ t.ssp \in [Scope -> Settings \cup {None}]
    /\ \A m \in Module :
          t.tracker.policies[m] =
              IF t.meta[m] # None /\ Constrained(Kind[m]) THEN ScopeOf[m] ELSE None
    /\ \A s \in Scope, m \in Module :
          t.tracker.scopes[s][m] =
              IF t.meta[m] # None /\ Constrained(Kind[m]) /\ ScopeOf[m] = s
              THEN t.meta[m].sp ELSE None
    /\ \A s \in Scope : t.ssp[s] # None <=> Tracked(t.tracker, s)

(* What the compiler returns.                                              *)
Result(r) ==
    \/ r = None
    \/ /\ r.id \in Module
       /\ r.sp \in Settings
       /\ \/ Kind[r.id] = "role"
          \/ Constrained(Kind[r.id]) /\ r.rows # {}

USE ScopePermsAssumption, RuleTableAssumption

LEMMA EmptyGood == Good(EmptyTable)
BY Zenon DEF Good, EmptyTable, Shape, Fields, NewTracker, Trackers, Tracked

LEMMA RemoveTracker ==
    ASSUME NEW t \in Trackers, NEW m \in Module
    PROVE  /\ Remove(t, m) \in Trackers
           /\ Remove(t, m).policies = [t.policies EXCEPT ![m] = None]
           /\ \A s \in Scope, k \in Module :
                 Remove(t, m).scopes[s][k] =
                     IF k = m /\ t.policies[m] = s THEN None ELSE t.scopes[s][k]
BY DEF Remove, Trackers

(* The policy m has a setting in its own scope at most.                    *)
OneScope(t, m) == \A s \in Scope : s # t.policies[m] => t.scopes[s][m] = None

LEMMA AddTracker ==
    ASSUME NEW t \in Trackers, NEW m \in Module, NEW s \in Scope,
           NEW sp \in Settings, NEW kind, Constrained(kind),
           OneScope(t, m)
    PROVE  /\ Add(t, kind, m, s, sp) \in Trackers
           /\ Add(t, kind, m, s, sp).policies = [t.policies EXCEPT ![m] = s]
           /\ \A x \in Scope, k \in Module :
                 Add(t, kind, m, s, sp).scopes[x][k] =
                     IF k # m THEN t.scopes[x][k]
                     ELSE IF x = s THEN sp ELSE None
<1>1. Normalise(sp) = sp
  BY DEF Normalise, Settings, Override, Consent, Unspecified
<1>2. CASE t.scopes[s][m] = sp
  BY <1>1, <1>2 DEF Add, Trackers, SourceSettings, OneScope
<1>3. CASE t.scopes[s][m] # sp
  <2> DEFINE u == Remove(t, m)
  <2>1. /\ u \in Trackers
        /\ \A x \in Scope, k \in Module :
              u.scopes[x][k] = IF k = m /\ t.policies[m] = x THEN None ELSE t.scopes[x][k]
    BY ZenonT(40), RemoveTracker
  <2>2. Add(t, kind, m, s, sp) =
            [scopes |-> [u.scopes EXCEPT ![s][m] = sp],
             policies |-> [t.policies EXCEPT ![m] = s]]
    BY <1>1, <1>3 DEF Add
  <2> HIDE DEF u
  <2> QED BY <2>1, <2>2 DEF Trackers, OneScope
<1> QED BY <1>2, <1>3

(* Deleting a policy keeps a table good (doDeletePolicy).                  *)
LEMMA DeleteGood ==
    ASSUME NEW t, NEW m \in Module, Good(t)
    PROVE  Good(doDeletePolicy(t, m))
<1>1. CASE t.meta[m] = None
  BY <1>1 DEF doDeletePolicy
<1>2. CASE t.meta[m] # None
  <2> DEFINE u == doDeletePolicy(t, m)
             s == ScopeOf[m]
  <2>0. Shape(t) /\ t.tracker \in Trackers
    BY DEF Good
  <2>1. /\ Shape(u)
        /\ u.meta = [t.meta EXCEPT ![m] = None]
        /\ u.tracker = Remove(t.tracker, m)
        /\ u.ssp = [t.ssp EXCEPT ![s] =
              IF Tracked(Remove(t.tracker, m), s) THEN @ ELSE None]
    BY <1>2, <2>0, doDeletePolicyFields
  <2>2. /\ u.tracker \in Trackers
        /\ u.tracker.policies = [t.tracker.policies EXCEPT ![m] = None]
        /\ \A x \in Scope, k \in Module :
              u.tracker.scopes[x][k] =
                  IF k = m /\ t.tracker.policies[m] = x THEN None
                  ELSE t.tracker.scopes[x][k]
    <3> DEFINE w == t.tracker
               v == Remove(w, m)
    <3>1. w \in Trackers
      BY <2>0
    <3> HIDE DEF u, w
    <3>2. v \in Trackers /\ v.policies = [w.policies EXCEPT ![m] = None]
      BY Zenon, <3>1, RemoveTracker
    <3>3. \A x \in Scope, k \in Module :
              v.scopes[x][k] = IF k = m /\ w.policies[m] = x THEN None ELSE w.scopes[x][k]
      BY ZenonT(40), <3>1, RemoveTracker
    <3> QED BY <2>1, <3>2, <3>3 DEF w
  <2> HIDE DEF u
  <2>3. /\ DOMAIN u.meta = Module
        /\ \A k \in Module : u.meta[k] = IF k = m THEN None ELSE t.meta[k]
    BY <2>1 DEF Good
  <2>4. \A k \in Module :
            u.tracker.policies[k] =
                IF u.meta[k] # None /\ Constrained(Kind[k]) THEN ScopeOf[k] ELSE None
    BY ZenonT(40), <2>2, <2>3 DEF Good, Trackers
  <2>5. \A x \in Scope, k \in Module :
            u.tracker.scopes[x][k] =
                IF u.meta[k] # None /\ Constrained(Kind[k]) /\ ScopeOf[k] = x
                THEN u.meta[k].sp ELSE None
    <3> TAKE x \in Scope, k \in Module
    <3>1. CASE k = m
      BY <1>2, <2>2, <2>3, <3>1 DEF Good
    <3>2. CASE k # m
      BY <2>2, <2>3, <3>2 DEF Good
    <3> QED BY <3>1, <3>2
  <2>6. \A x \in Scope : x # s => (Tracked(u.tracker, x) <=> Tracked(t.tracker, x))
    BY SMTT(40), <2>2 DEF Good, Tracked
  <2>7. \A x \in Scope : Tracked(u.tracker, x) => Tracked(t.tracker, x)
    BY <2>2 DEF Good, Tracked
  <2>8. \A x \in Scope : u.ssp[x] # None <=> Tracked(u.tracker, x)
    <3> TAKE x \in Scope
    <3>1. CASE x = s
      BY <2>1, <2>7, <3>1 DEF Good
    <3>2. CASE x # s
      BY <2>1, <2>6, <3>2 DEF Good
    <3> QED BY <3>1, <3>2
  <2>9. u.ssp \in [Scope -> Settings \cup {None}]
    BY <2>1 DEF Good
  <2>10. \A k \in Module : u.meta[k] # None => u.meta[k].id = k /\ u.meta[k].sp \in Settings
    BY <2>3 DEF Good
  <2>11. Good(u)
    BY <2>1, <2>2, <2>3, <2>4, <2>5, <2>8, <2>9, <2>10 DEF Good
  <2> QED BY <2>11 DEF u
<1> QED BY <1>1, <1>2

(* A table that only got a policy that has no part in scopePermissions.    *)
LEMMA GoodUnconstrained ==
    ASSUME NEW t, Good(t), NEW u, NEW m \in Module, NEW r,
           r.id = m, r.sp \in Settings, ~Constrained(Kind[m]),
           Shape(u), DOMAIN u.meta = Module,
           \A k \in Module : u.meta[k] = IF k = m THEN r ELSE t.meta[k],
           u.tracker = t.tracker,
           u.ssp = t.ssp
    PROVE  Good(u)
<1>1. \A k \in Module : Constrained(Kind[k]) => u.meta[k] = t.meta[k]
  OBVIOUS
<1>2. \A k \in Module : u.meta[k] # None => u.meta[k].id = k /\ u.meta[k].sp \in Settings
  BY DEF Good
<1>3. \A k \in Module :
          u.tracker.policies[k] =
              IF u.meta[k] # None /\ Constrained(Kind[k]) THEN ScopeOf[k] ELSE None
  BY <1>1 DEF Good
<1>4. \A s \in Scope, k \in Module :
          u.tracker.scopes[s][k] =
              IF u.meta[k] # None /\ Constrained(Kind[k]) /\ ScopeOf[k] = s
              THEN u.meta[k].sp ELSE None
  <2> TAKE s \in Scope, k \in Module
  <2>1. CASE Constrained(Kind[k])
    BY <1>1, <2>1 DEF Good
  <2>2. CASE ~Constrained(Kind[k])
    BY <2>2 DEF Good
  <2> QED BY <2>1, <2>2
<1> QED BY <1>2, <1>3, <1>4 DEF Good

(* A table that got a policy and its setting.                              *)
LEMMA GoodConstrained ==
    ASSUME NEW t, Good(t), NEW u, NEW m \in Module, NEW r,
           r # None, r.id = m, r.sp \in Settings, Constrained(Kind[m]),
           Shape(u), DOMAIN u.meta = Module,
           \A k \in Module : u.meta[k] = IF k = m THEN r ELSE t.meta[k],
           u.tracker = Add(t.tracker, Kind[m], m, ScopeOf[m], r.sp),
           u.ssp = [t.ssp EXCEPT ![ScopeOf[m]] = r.sp]
    PROVE  Good(u)
<1> DEFINE v == u.tracker
           s == ScopeOf[m]
<1>1. /\ t.tracker \in Trackers
      /\ OneScope(t.tracker, m)
  BY DEF Good, OneScope
<1>2. /\ v \in Trackers
      /\ v.policies = [t.tracker.policies EXCEPT ![m] = s]
      /\ \A x \in Scope, k \in Module :
            v.scopes[x][k] = IF k # m THEN t.tracker.scopes[x][k]
                             ELSE IF x = s THEN r.sp ELSE None
  <2> DEFINE w == Add(t.tracker, Kind[m], m, s, r.sp)
  <2>1. /\ w \in Trackers
        /\ w.policies = [t.tracker.policies EXCEPT ![m] = s]
        /\ \A x \in Scope, k \in Module :
              w.scopes[x][k] = IF k # m THEN t.tracker.scopes[x][k]
                               ELSE IF x = s THEN r.sp ELSE None
    <3>1. s \in Scope
      OBVIOUS
    <3> HIDE DEF s
    <3> QED BY <1>1, <3>1, AddTracker
  <2> HIDE DEF w
  <2>2. v = w
    BY DEF w
  <2> HIDE DEF v
  <2> QED BY <2>1, <2>2
<1>3. \A k \in Module :
          v.policies[k] =
              IF u.meta[k] # None /\ Constrained(Kind[k]) THEN ScopeOf[k] ELSE None
  <2> TAKE k \in Module
  <2>1. CASE k = m
    BY <1>1, <1>2, <2>1 DEF Trackers
  <2>2. CASE k # m
    BY <1>1, <1>2, <2>2 DEF Good, Trackers
  <2> QED BY <2>1, <2>2
<1>4. \A x \in Scope, k \in Module :
          v.scopes[x][k] =
              IF u.meta[k] # None /\ Constrained(Kind[k]) /\ ScopeOf[k] = x
              THEN u.meta[k].sp ELSE None
  <2> TAKE x \in Scope, k \in Module
  <2>1. CASE k = m
    BY <1>2, <2>1
  <2>2. CASE k # m
    BY <1>2, <2>2 DEF Good
  <2> QED BY <2>1, <2>2
<1>5. \A x \in Scope : u.ssp[x] # None <=> Tracked(v, x)
  <2> TAKE x \in Scope
  <2>1. CASE x = s
    BY <1>2, <2>1 DEF Good, Tracked, SourceSettings
  <2>2. CASE x # s
    <3>1. Tracked(v, x) <=> Tracked(t.tracker, x)
      <4>1. \A k \in Module : v.scopes[x][k] = t.tracker.scopes[x][k]
        <5>1. t.tracker.scopes[x][m] = None
          BY <2>2 DEF Good
        <5> HIDE DEF v, s
        <5> QED
          <6> TAKE k \in Module
          <6>1. CASE k = m
            BY <1>2, <2>2, <5>1, <6>1
          <6>2. CASE k # m
            BY <1>2, <6>2
          <6> QED BY <6>1, <6>2
      <4> QED BY <4>1 DEF Tracked
    <3> QED BY <2>2, <3>1 DEF Good
  <2> QED BY <2>1, <2>2
<1>6. \A k \in Module : u.meta[k] # None => u.meta[k].id = k /\ u.meta[k].sp \in Settings
  BY DEF Good
<1>7. u.ssp \in [Scope -> Settings \cup {None}]
  BY DEF Good
<1> QED BY <1>2, <1>3, <1>4, <1>5, <1>6, <1>7 DEF Good

(* Adding a compiled policy keeps a table good (ingestPolicy).             *)
LEMMA IngestGood ==
    ASSUME NEW t, NEW r, Good(t), Result(r)
    PROVE  Good(ingestPolicy(t, r))
<1>1. CASE r = None
  BY <1>1 DEF ingestPolicy
<1>2. CASE r # None
  <2> DEFINE m == r.id
             s == ScopeOf[m]
             a == AddPolicy(t, r)
             u == indexRules(a, r)
  <2>1. /\ m \in Module
        /\ r.sp \in Settings
        /\ Kind[m] = "role" \/ (Constrained(Kind[m]) /\ r.rows # {})
        /\ ~(Kind[m] = "role" /\ Constrained(Kind[m]))
    BY <1>2 DEF Result, Constrained
  <2>2. ingestPolicy(t, r) = u
    BY <1>2 DEF ingestPolicy
  <2>3. /\ Shape(a)
        /\ a.meta = [t.meta EXCEPT ![m] = r]
        /\ a.tracker = t.tracker
        /\ a.ssp = t.ssp
    BY Zenon, AddPolicyFields DEF Good
  <2>4. /\ DOMAIN a.meta = Module
        /\ \A k \in Module : a.meta[k] = IF k = m THEN r ELSE t.meta[k]
    BY <2>1, <2>3 DEF Good
  <2> HIDE DEF a
  <2>5. CASE r.rows = {}
    <3>1. u = IndexParentRoles(a)
      BY <2>5 DEF indexRules
    <3>2. /\ Shape(u) /\ u.meta = a.meta /\ u.tracker = t.tracker /\ u.ssp = t.ssp
      BY <2>3, <3>1, IndexParentRolesFields DEF Fields
    <3> HIDE DEF u
    <3>3. ~Constrained(Kind[m]) /\ r.id = m
      BY <2>1, <2>5
    <3>4. DOMAIN u.meta = Module /\ \A k \in Module : u.meta[k] = IF k = m THEN r ELSE t.meta[k]
      BY <2>4, <3>2
    <3> HIDE DEF m
    <3>5. Good(u)
      BY <2>1, <3>2, <3>3, <3>4, GoodUnconstrained
    <3> QED BY <2>2, <3>5
  <2>6. CASE r.rows # {}
    <3>1. /\ Shape(u) /\ u.meta = a.meta
          /\ u.tracker = Add(t.tracker, Kind[m], m, s, r.sp)
          /\ u.ssp = [a.ssp EXCEPT ![s] = IF Kind[m] = "role" THEN @ ELSE Normalise(r.sp)]
      <4>1. u.tracker = Add(a.tracker, Kind[m], m, s, r.sp)
        BY ZenonT(40), <2>3, <2>6, indexRulesFields
      <4>2. /\ Shape(u) /\ u.meta = a.meta
            /\ u.ssp = [a.ssp EXCEPT ![s] = IF Kind[m] = "role" THEN @ ELSE Normalise(r.sp)]
        BY <2>3, <2>6, indexRulesFields
      <4> HIDE DEF u
      <4> QED BY <2>3, <4>1, <4>2
    <3> HIDE DEF u
    <3>2. CASE Kind[m] = "role"
      <4>1. u.tracker = t.tracker
        BY <2>1, <3>1, <3>2 DEF Add
      <4>2. u.ssp = t.ssp
        BY <2>3, <3>1, <3>2 DEF Good
      <4> QED BY <2>1, <2>2, <2>4, <3>1, <3>2, <4>1, <4>2, GoodUnconstrained
    <3>3. CASE Constrained(Kind[m])
      <4>1. u.ssp = [t.ssp EXCEPT ![s] = r.sp]
        BY <2>1, <2>3, <3>1, <3>3
           DEF Normalise, Settings, Override, Consent, Unspecified
      <4> QED BY <1>2, <2>1, <2>2, <2>4, <3>1, <3>3, <4>1, GoodConstrained
    <3> QED BY <2>1, <3>2, <3>3
  <2> QED BY <2>5, <2>6
<1> QED BY <1>1, <1>2
-----------------------------------------------------------------------------
(* The manager: the types of its state, with a good table in it.           *)
Events == {e \in [kind : {"update", "delete", "reload"}, id : Module \cup {None},
                  old : Module \cup {None}, deps : SUBSET Module] :
              e.kind # "reload" => e.id \in Module}

WorkerFields == {"pc", "evt", "rps", "todo", "toReload", "new"}

WorkerOK(v) ==
    /\ v = [x \in WorkerFields |-> v[x]]
    /\ v.pc \in {"load", "check", "delete"} => v.evt.id \in Module
    /\ v.evt.old \in Module \cup {None}
    /\ v.pc = "deleteOld" => v.evt.old # None
    /\ v.evt.deps \subseteq Module
    /\ Result(v.rps)
    /\ v.todo \subseteq Module
    /\ \A r \in v.toReload : Result(r)
    /\ Good(v.new)

DefsOK ==
    /\ DOMAIN defs = Module
    /\ \A m \in Module : defs[m] \in Defs[m] \cup {None}

WorkersOK ==
    /\ DOMAIN worker = Source
    /\ \A w \in Source : WorkerOK(worker[w])

Outcomes == [Module -> {"applied", "unloaded", "rejected"}]

IInv ==
    /\ DefsOK
    /\ queue \in [Source -> Seq(Events)]
    /\ Good(table)
    /\ WorkersOK
    /\ lastReloadErr \in {"nil", "failed"}
    /\ changes \in 0 .. MaxChanges
    /\ outcome \in Outcomes

USE ManagerAssumption

LEMMA IdleOK == WorkerOK(Idle)
BY Zenon, EmptyGood DEF WorkerOK, Idle, NoEvent, WorkerFields, Result

(* What compile returns can be added to a good table.                      *)
LEMMA CompileResult ==
    ASSUME DefsOK, NEW m \in Module
    PROVE  Result(compile(m).rps)
<1>1. CASE defs[m] = None
  BY <1>1 DEF compile, Result
<1>2. CASE defs[m] # None /\ ~loadable(m)
  BY <1>2 DEF compile, Result
<1>3. CASE defs[m] # None /\ loadable(m) /\ ~valid(m)
  BY <1>3 DEF compile, Result
<1>4. CASE defs[m] # None /\ loadable(m) /\ valid(m)
  <2>1. compile(m).rps = IF Kind[m] \in {"derived_roles", "export"} THEN None ELSE policySet(m)
    BY <1>4 DEF compile
  <2>2. Kind[m] \notin {"derived_roles", "export"} => Result(policySet(m))
    <3>1. defs[m].sp \in SourceSettings
      BY <1>4 DEF DefsOK
    <3>2. Normalise(defs[m].sp) \in Settings
      BY <3>1 DEF Normalise, Settings, SourceSettings
    <3>3. policySet(m).id = m /\ policySet(m).sp \in Settings
      BY <3>2 DEF policySet
    <3>4. Kind[m] # "role" => policySet(m).rows # {}
      BY Zenon DEF policySet
    <3>5. Kind[m] \in Kinds
      OBVIOUS
    <3> QED BY <3>3, <3>4, <3>5 DEF Result, Constrained, Kinds
  <2> QED BY <2>1, <2>2 DEF Result
<1> QED BY <1>1, <1>2, <1>3, <1>4

LEMMA UpdateWorker ==
    ASSUME WorkersOK, NEW w \in Source, NEW x, WorkerOK(x),
           worker' = [worker EXCEPT ![w] = x]
    PROVE  WorkersOK'
BY DEF WorkersOK

LEMMA ReturnOK ==
    ASSUME WorkersOK, NEW w \in Source, Return(w)
    PROVE  WorkersOK'
BY Zenon, UpdateWorker, IdleOK DEF Return

LEMMA GotoOK ==
    ASSUME WorkersOK, NEW w \in Source, NEW pc, Goto(w, pc),
           pc \in {"load", "check", "delete"} => worker[w].evt.id \in Module,
           pc = "deleteOld" => worker[w].evt.old # None
    PROVE  WorkersOK'
<1> DEFINE x == [worker[w] EXCEPT !.pc = pc]
<1>1. worker' = [worker EXCEPT ![w] = x]
  BY DEF Goto
<1>2. WorkerOK(worker[w])
  BY DEF WorkersOK
<1>3. WorkerOK(x)
  BY <1>2 DEF WorkerOK, WorkerFields
<1> HIDE DEF x
<1> QED BY Zenon, <1>1, <1>3, UpdateWorker

LEMMA ToDependentsOK ==
    ASSUME WorkersOK, NEW w \in Source, ToDependents(w)
    PROVE  WorkersOK'
BY ReturnOK, GotoOK DEF ToDependents

LEMMA AfterDeleteOK ==
    ASSUME WorkersOK, NEW w \in Source, AfterDelete(w)
    PROVE  WorkersOK'
BY GotoOK, ToDependentsOK DEF AfterDelete

LEMMA RecordOK ==
    ASSUME outcome \in Outcomes, NEW ms, NEW o \in {"applied", "unloaded", "rejected"},
           Record(ms, o)
    PROVE  outcome' \in Outcomes
BY DEF Record, Outcomes

(* finalizeBuild keeps a table good.                                       *)
LEMMA FinalizeGood ==
    ASSUME NEW t, Good(t)
    PROVE  Good(finalizeBuild(t))
<1> DEFINE u == finalizeBuild(t)
<1>1. Shape(t)
  BY DEF Good
<1>2. Shape(u) /\ u.meta = t.meta /\ u.tracker = t.tracker /\ u.ssp = t.ssp
  BY Zenon, <1>1 DEF Shape, Fields, finalizeBuild
<1> HIDE DEF u
<1>3. Good(u)
  BY <1>2 DEF Good
<1> QED BY <1>3 DEF u
-----------------------------------------------------------------------------
LEMMA NotifyOK ==
    ASSUME queue \in [Source -> Seq(Events)], NEW w \in Source,
           NEW kind \in {"update", "delete"}, NEW m \in Module,
           NEW old \in Module \cup {None}, NEW ds, Notify(w, kind, m, old, ds)
    PROVE  queue' \in [Source -> Seq(Events)]
<1>1. Dependents(ds, m) \subseteq Module
  BY DEF Dependents, Importers
<1> DEFINE e == [kind |-> kind, id |-> m, old |-> old, deps |-> Dependents(ds, m)]
<1>2. e \in Events
  BY <1>1 DEF Events
<1>3. queue' = [queue EXCEPT ![w] = Append(@, e)]
  BY DEF Notify
<1> HIDE DEF e
<1> QED BY <1>2, <1>3

LEMMA StoreChangesOK ==
    ASSUME IInv, StoreChanges
    PROVE  IInv'
<1>1. PICK w \in Source :
        \/ \E m \in Module : \/ \E d \in Defs[m] : AddOrUpdate(w, m, d)
                             \/ Delete(w, m)
                             \/ \E o \in Module, d \in Defs[m] : Rename(w, o, m, d)
        \/ NotifyReload(w)
  BY DEF StoreChanges
<1>2. Changed => /\ Good(table)' /\ WorkersOK' /\ outcome' \in Outcomes
                 /\ lastReloadErr' \in {"nil", "failed"}
                 /\ changes' \in 0 .. MaxChanges
  BY DEF Changed, IInv, WorkersOK
<1>3. ASSUME NEW m \in Module, NEW d \in Defs[m], AddOrUpdate(w, m, d)
      PROVE  IInv'
  <2>1. queue' \in [Source -> Seq(Events)]
    BY Zenon, <1>3, NotifyOK DEF AddOrUpdate, IInv
  <2>2. DefsOK'
    BY <1>3 DEF AddOrUpdate, Notify, DefsOK, IInv
  <2> QED BY <1>2, <1>3, <2>1, <2>2 DEF IInv, AddOrUpdate
<1>4. ASSUME NEW m \in Module, Delete(w, m)
      PROVE  IInv'
  <2>1. queue' \in [Source -> Seq(Events)]
    BY Zenon, <1>4, NotifyOK DEF Delete, IInv
  <2>2. DefsOK'
    BY <1>4 DEF Delete, Notify, DefsOK, IInv
  <2> QED BY <1>2, <1>4, <2>1, <2>2 DEF IInv, Delete
<1>5. ASSUME NEW m \in Module, NEW o \in Module, NEW d \in Defs[m], Rename(w, o, m, d)
      PROVE  IInv'
  <2>1. queue' \in [Source -> Seq(Events)]
    BY <1>5, NotifyOK DEF Rename, IInv
  <2>2. DefsOK'
    BY <1>5 DEF Rename, Notify, DefsOK, IInv
  <2> QED BY <1>2, <1>5, <2>1, <2>2 DEF IInv, Rename
<1>6. ASSUME NotifyReload(w)
      PROVE  IInv'
  <2> DEFINE e == [NoEvent EXCEPT !.kind = "reload"]
  <2>1. e \in Events
    BY DEF NoEvent, Events
  <2>2. queue' = [queue EXCEPT ![w] = Append(@, e)]
    BY <1>6 DEF NotifyReload
  <2> HIDE DEF e
  <2>3. queue' \in [Source -> Seq(Events)]
    BY <2>1, <2>2 DEF IInv
  <2>4. DefsOK'
    BY <1>6 DEF NotifyReload, DefsOK, IInv
  <2> QED BY <1>2, <1>6, <2>3, <2>4 DEF IInv, NotifyReload
<1> QED BY <1>1, <1>3, <1>4, <1>5, <1>6

(* A step that leaves the store alone and keeps the table good.            *)
LEMMA Assemble ==
    ASSUME IInv, UNCHANGED <<defs, changes>>,
           queue' \in [Source -> Seq(Events)], Good(table'), WorkersOK',
           lastReloadErr' \in {"nil", "failed"}, outcome' \in Outcomes
    PROVE  IInv'
BY DEF IInv, DefsOK

LEMMA ReceiveOK ==
    ASSUME IInv, NEW w \in Source, Receive(w)
    PROVE  IInv'
<1> DEFINE evt == Head(queue[w])
<1>1. evt \in Events /\ queue' \in [Source -> Seq(Events)]
  BY DEF Receive, IInv
<1>2. WorkersOK'
  <2> DEFINE x == CASE evt.kind = "update" -> [Idle EXCEPT !.pc = "load", !.evt = evt]
                    [] evt.kind = "delete" -> [Idle EXCEPT !.pc = "delete", !.evt = evt]
                    [] OTHER -> [Idle EXCEPT !.pc = "build", !.evt = evt,
                                             !.todo = toCompile]
  <2>1. worker' = [worker EXCEPT ![w] = x]
    BY DEF Receive
  <2> HIDE DEF evt
  <2>2. evt.old \in Module \cup {None} /\ evt.deps \subseteq Module
    BY <1>1 DEF Events
  <2>3. CASE evt.kind = "update"
    <3>1. evt.id \in Module
      BY <1>1, <2>3 DEF Events
    <3>2. x = [Idle EXCEPT !.pc = "load", !.evt = evt]
      BY <2>3
    <3>3. WorkerOK(x)
      BY ZenonT(40), <2>2, <3>1, <3>2, EmptyGood DEF WorkerOK, Idle, WorkerFields, Result
    <3> HIDE DEF x
    <3> QED BY Zenon, <2>1, <3>3, UpdateWorker DEF IInv
  <2>4. CASE evt.kind = "delete"
    <3>1. evt.id \in Module
      BY <1>1, <2>4 DEF Events
    <3>2. x = [Idle EXCEPT !.pc = "delete", !.evt = evt]
      BY <2>4
    <3>3. WorkerOK(x)
      BY Zenon, <2>2, <3>1, <3>2, EmptyGood DEF WorkerOK, Idle, WorkerFields, Result
    <3> HIDE DEF x
    <3> QED BY Zenon, <2>1, <3>3, UpdateWorker DEF IInv
  <2>5. CASE evt.kind \notin {"update", "delete"}
    <3>2. x = [Idle EXCEPT !.pc = "build", !.evt = evt,
                           !.todo = toCompile]
      BY <2>5
    <3>3. WorkerOK(x)
      BY ZenonT(40), <2>2, <3>2, EmptyGood DEF WorkerOK, Idle, WorkerFields, Result, toCompile
    <3> HIDE DEF x
    <3> QED BY Zenon, <2>1, <3>3, UpdateWorker DEF IInv
  <2> QED BY <2>3, <2>4, <2>5
<1> QED BY <1>1, <1>2, Assemble DEF Receive, IInv

LEMMA LoadOK ==
    ASSUME IInv, NEW w \in Source, Load(w)
    PROVE  IInv'
<1> DEFINE res == compile(worker[w].evt.id)
<1>1. WorkerOK(worker[w]) /\ worker[w].evt.id \in Module
  BY DEF Load, IInv, WorkersOK, WorkerOK
<1>2. Result(res.rps)
  BY <1>1, CompileResult DEF IInv
<1>3. CASE res.err = "nil"
  <2> DEFINE x == [worker[w] EXCEPT !.pc = "check", !.rps = res.rps]
  <2>1. worker' = [worker EXCEPT ![w] = x] /\ UNCHANGED outcome
    BY Zenon, <1>3 DEF Load
  <2> HIDE DEF res
  <2>2. WorkerOK(x)
    BY Zenon, <1>1, <1>2 DEF WorkerOK, WorkerFields
  <2> HIDE DEF x
  <2>3. WorkersOK'
    BY Zenon, <2>1, <2>2, UpdateWorker DEF IInv
  <2> QED BY <2>1, <2>3, Assemble DEF Load, IInv
<1>4. CASE res.err # "nil"
  <2>1. WorkersOK'
    BY <1>4, ReturnOK DEF Load, IInv
  <2>2. outcome' \in Outcomes
    BY <1>4, RecordOK DEF Load, IInv
  <2> QED BY <2>1, <2>2, Assemble DEF Load, IInv
<1> QED BY <1>3, <1>4

LEMMA LoaderFailsOK ==
    ASSUME IInv, NEW w \in Source, LoaderFails(w)
    PROVE  IInv'
<1>1. WorkersOK'
  BY ReturnOK DEF LoaderFails, IInv
<1>2. outcome' \in Outcomes
  BY RecordOK DEF LoaderFails, IInv
<1> QED BY <1>1, <1>2, Assemble DEF LoaderFails, IInv

LEMMA checkPolicyOK ==
    ASSUME IInv, NEW w \in Source, checkPolicy(w)
    PROVE  IInv'
<1>1. WorkerOK(worker[w]) /\ worker[w].evt.id \in Module
  BY DEF checkPolicy, IInv, WorkersOK, WorkerOK
<1>2. CASE Return(w) /\ Record(EventModules(w), "rejected")
  <2>1. WorkersOK' /\ outcome' \in Outcomes
    BY <1>2, ReturnOK, RecordOK DEF IInv
  <2> QED BY <2>1, Assemble DEF checkPolicy, IInv
<1>3. CASE Goto(w, "delete") /\ UNCHANGED outcome
  <2>1. WorkersOK'
    BY <1>1, <1>3, GotoOK DEF IInv
  <2> QED BY <1>3, <2>1, Assemble DEF checkPolicy, IInv
<1> QED BY <1>2, <1>3 DEF checkPolicy

LEMMA deletePolicyOK ==
    ASSUME IInv, NEW w \in Source, deletePolicy(w)
    PROVE  IInv'
<1>1. WorkerOK(worker[w]) /\ worker[w].evt.id \in Module
  BY DEF deletePolicy, IInv, WorkersOK, WorkerOK
<1>2. Good(table')
  BY <1>1, DeleteGood DEF deletePolicy, IInv
<1>3. WorkersOK'
  BY GotoOK, AfterDeleteOK DEF deletePolicy, IInv
<1>4. outcome' \in Outcomes
  BY RecordOK DEF deletePolicy, IInv
<1> QED BY <1>2, <1>3, <1>4, Assemble DEF deletePolicy, IInv

LEMMA deleteOldPolicyOK ==
    ASSUME IInv, NEW w \in Source, deleteOldPolicy(w)
    PROVE  IInv'
<1>1. worker[w].evt.old \in Module
  BY DEF deleteOldPolicy, IInv, WorkersOK, WorkerOK
<1>2. Good(table')
  BY <1>1, DeleteGood DEF deleteOldPolicy, IInv
<1>3. WorkersOK'
  BY AfterDeleteOK DEF deleteOldPolicy, IInv
<1>4. outcome' \in Outcomes
  BY RecordOK DEF deleteOldPolicy, IInv
<1> QED BY <1>2, <1>3, <1>4, Assemble DEF deleteOldPolicy, IInv

LEMMA addPolicyOK ==
    ASSUME IInv, NEW w \in Source, addPolicy(w)
    PROVE  IInv'
<1>1. Result(worker[w].rps)
  BY DEF IInv, WorkersOK, WorkerOK
<1>2. Good(table')
  BY <1>1, IngestGood DEF addPolicy, IInv
<1>3. WorkersOK'
  BY ToDependentsOK DEF addPolicy, IInv
<1> QED BY <1>2, <1>3, Assemble DEF addPolicy, IInv

LEMMA LoadDependentsOK ==
    ASSUME IInv, NEW w \in Source, LoadDependents(w)
    PROVE  IInv'
<1> DEFINE deps == worker[w].evt.deps
           rs == {compile(m).rps : m \in deps} \ {None}
<1>1. WorkerOK(worker[w]) /\ deps \subseteq Module
  BY DEF IInv, WorkersOK, WorkerOK
<1>2. \A r \in rs : Result(r)
  BY <1>1, CompileResult DEF IInv
<1>3. CASE \A m \in deps : compile(m).err = "nil"
  <2> DEFINE x == [worker[w] EXCEPT !.pc = "deleteDependents", !.todo = deps, !.toReload = rs]
  <2>1. worker' = [worker EXCEPT ![w] = x] /\ Record(deps, "applied")
    BY Zenon, <1>3 DEF LoadDependents
  <2> HIDE DEF rs
  <2>2. WorkerOK(x)
    BY Zenon, <1>1, <1>2 DEF WorkerOK, WorkerFields
  <2> HIDE DEF x
  <2>3. WorkersOK' /\ outcome' \in Outcomes
    BY Zenon, <2>1, <2>2, UpdateWorker, RecordOK DEF IInv
  <2> QED BY <2>3, Assemble DEF LoadDependents, IInv
<1>4. CASE ~(\A m \in deps : compile(m).err = "nil")
  <2>1. Return(w) /\ Record(deps, "unloaded")
    BY <1>4 DEF LoadDependents
  <2>2. WorkersOK' /\ outcome' \in Outcomes
    BY <2>1, ReturnOK, RecordOK DEF IInv
  <2> QED BY <2>2, Assemble DEF LoadDependents, IInv
<1> QED BY <1>3, <1>4

LEMMA deleteDependentOK ==
    ASSUME IInv, NEW w \in Source, NEW m \in Module, deleteDependent(w, m)
    PROVE  IInv'
<1> DEFINE p == IF worker[w].todo = {m} THEN "addDependents" ELSE worker[w].pc
           x == [worker[w] EXCEPT !.todo = @ \ {m}, !.pc = p]
<1>1. worker' = [worker EXCEPT ![w] = x]
  BY Zenon DEF deleteDependent
<1>2. WorkerOK(worker[w])
  BY DEF IInv, WorkersOK
<1>3. p \in {"addDependents", "deleteDependents"}
  BY DEF deleteDependent
<1> HIDE DEF p
<1>4. WorkerOK(x)
  BY Zenon, <1>2, <1>3 DEF WorkerOK, WorkerFields
<1> HIDE DEF x
<1>5. WorkersOK'
  BY Zenon, <1>1, <1>4, UpdateWorker DEF IInv
<1>6. Good(table')
  BY DeleteGood DEF deleteDependent, IInv
<1> QED BY <1>5, <1>6, Assemble DEF deleteDependent, IInv

LEMMA addDependentOK ==
    ASSUME IInv, NEW w \in Source, NEW r, addDependent(w, r)
    PROVE  IInv'
<1> DEFINE x == [worker[w] EXCEPT !.toReload = @ \ {r}]
<1>1. worker' = [worker EXCEPT ![w] = x]
  BY DEF addDependent
<1>2. WorkerOK(worker[w])
  BY DEF IInv, WorkersOK
<1>3. WorkerOK(x)
  BY Zenon, <1>2 DEF WorkerOK, WorkerFields
<1> HIDE DEF x
<1>4. WorkersOK'
  BY Zenon, <1>1, <1>3, UpdateWorker DEF IInv
<1>5. Result(r)
  BY <1>2 DEF addDependent, WorkerOK
<1>6. Good(table')
  BY <1>5, IngestGood DEF addDependent, IInv
<1> QED BY <1>4, <1>6, Assemble DEF addDependent, IInv

LEMMA DependentsDoneOK ==
    ASSUME IInv, NEW w \in Source, DependentsDone(w)
    PROVE  IInv'
<1>1. WorkersOK'
  BY ReturnOK DEF DependentsDone, IInv
<1> QED BY <1>1, Assemble DEF DependentsDone, IInv

LEMMA BuildUnitOK ==
    ASSUME IInv, NEW w \in Source, NEW m \in Module, BuildUnit(w, m)
    PROVE  IInv'
<1> DEFINE todo == IF compile(m).err = "compile" THEN {} ELSE worker[w].todo \ {m}
           p == IF compile(m).err = "compile" THEN "reloadFailed" ELSE worker[w].pc
           new == ingestPolicy(worker[w].new, compile(m).rps)
           x == [worker[w] EXCEPT !.todo = todo, !.pc = p, !.new = new]
<1>1. worker' = [worker EXCEPT ![w] = x]
  BY Zenon DEF BuildUnit
<1>2. WorkerOK(worker[w])
  BY DEF IInv, WorkersOK
<1>3. p \in {"reloadFailed", "build"} /\ todo \subseteq Module
  BY Zenon, <1>2 DEF BuildUnit, WorkerOK
<1>4. Good(new)
  BY <1>2, IngestGood, CompileResult DEF IInv, WorkerOK
<1> HIDE DEF p, todo, new
<1>5. WorkerOK(x)
  BY Zenon, <1>2, <1>3, <1>4 DEF WorkerOK, WorkerFields
<1> HIDE DEF x
<1>6. WorkersOK'
  BY Zenon, <1>1, <1>5, UpdateWorker DEF IInv
<1> QED BY <1>6, Assemble DEF BuildUnit, IInv

LEMMA BuildPanicsOK ==
    ASSUME IInv, NEW w \in Source, NEW m \in Module, BuildPanics(w, m)
    PROVE  IInv'
<1>1. WorkersOK'
  BY Zenon, GotoOK DEF BuildPanics, IInv
<1> QED BY <1>1, Assemble DEF BuildPanics, IInv

LEMMA BuildFailsOK ==
    ASSUME IInv, NEW w \in Source, BuildFails(w)
    PROVE  IInv'
<1>1. WorkersOK'
  BY Zenon, GotoOK DEF BuildFails, IInv
<1> QED BY <1>1, Assemble DEF BuildFails, IInv

LEMMA BuildDoneOK ==
    ASSUME IInv, NEW w \in Source, BuildDone(w)
    PROVE  IInv'
<1>1. CASE Goto(w, "reloadFailed")
  <2>1. WorkersOK'
    BY Zenon, <1>1, GotoOK DEF IInv
  <2> QED BY <2>1, Assemble DEF BuildDone, IInv
<1>2. CASE worker' = [worker EXCEPT ![w].pc = "swap", ![w].new = finalizeBuild(@)]
  <2> DEFINE new == finalizeBuild(worker[w].new)
             x == [worker[w] EXCEPT !.pc = "swap", !.new = new]
  <2>1. worker' = [worker EXCEPT ![w] = x]
    BY Zenon, <1>2
  <2>2. WorkerOK(worker[w])
    BY DEF IInv, WorkersOK
  <2>3. Good(new)
    BY <2>2, FinalizeGood DEF WorkerOK
  <2> HIDE DEF new
  <2>4. WorkerOK(x)
    BY Zenon, <2>2, <2>3 DEF WorkerOK, WorkerFields
  <2> HIDE DEF x
  <2>5. WorkersOK'
    BY Zenon, <2>1, <2>4, UpdateWorker DEF IInv
  <2> QED BY <2>5, Assemble DEF BuildDone, IInv
<1> QED BY <1>1, <1>2 DEF BuildDone

LEMMA reloadOK ==
    ASSUME IInv, NEW w \in Source, reload(w)
    PROVE  IInv'
<1>1. WorkersOK'
  BY ReturnOK DEF reload, IInv
<1>2. Good(worker[w].new)
  BY DEF IInv, WorkersOK, WorkerOK
<1>3. CASE worker[w].pc = "swap"
  <2>1. Good(table') /\ lastReloadErr' = "nil"
    BY <1>2, <1>3 DEF reload
  <2>2. outcome' \in Outcomes
    BY <1>3 DEF reload, Outcomes
  <2> QED BY <1>1, <2>1, <2>2, Assemble DEF reload, IInv
<1>4. CASE worker[w].pc # "swap"
  <2>1. UNCHANGED <<table, outcome>> /\ lastReloadErr' = "failed"
    BY <1>4 DEF reload
  <2> QED BY <1>1, <2>1, Assemble DEF reload, IInv
<1> QED BY <1>3, <1>4
-----------------------------------------------------------------------------
LEMMA InitOK == Init => IInv
BY EmptyGood, IdleOK DEF Init, IInv, DefsOK, WorkersOK, Outcomes

LEMMA NextOK == IInv /\ [Next]_vars => IInv'
<1> SUFFICES ASSUME IInv, [Next]_vars
             PROVE  IInv'
  OBVIOUS
<1>1. CASE StoreChanges
  BY <1>1, StoreChangesOK
<1>2. ASSUME NEW w \in Source, OnStorageEvent(w)
      PROVE  IInv'
  BY <1>2, ReceiveOK, LoadOK, LoaderFailsOK, checkPolicyOK, deletePolicyOK,
     deleteOldPolicyOK, addPolicyOK, LoadDependentsOK, deleteDependentOK,
     addDependentOK, DependentsDoneOK, BuildUnitOK, BuildPanicsOK, BuildFailsOK, BuildDoneOK,
     reloadOK DEF OnStorageEvent
<1>3. CASE UNCHANGED vars
  BY <1>3 DEF vars, IInv, DefsOK, WorkersOK
<1> QED BY <1>1, <1>2, <1>3 DEF Next

(* For any number of event sources: every state of the manager has its     *)
(* types.                                                                  *)
THEOREM TypeCorrect == Spec => []TypeOK
<1>1. IInv => TypeOK
  BY DEF IInv, TypeOK, DefsOK, Good, Outcomes
<1> QED BY <1>1, InitOK, NextOK, PTL DEF Spec

(* For any number of event sources, policies and scopes, whatever fails    *)
(* and however the steps of the sources are interleaved: the tracker and   *)
(* scopeScopePermissions say what the policies in the table say.           *)
THEOREM MirrorsPolicies == Spec => []ScopePermsMirrorPolicies
<1>1. IInv => ScopePermsMirrorPolicies
  <2> SUFFICES ASSUME IInv, NEW s \in Scope
               PROVE  /\ \A m \in Module :
                           table.tracker.scopes[s][m] =
                             IF /\ table.meta[m] # None
                                /\ Constrained(Kind[m])
                                /\ ScopeOf[m] = s
                             THEN table.meta[m].sp ELSE None
                      /\ (table.ssp[s] # None) = Tracked(table.tracker, s)
    BY DEF ScopePermsMirrorPolicies
  <2>1. Good(table)
    BY DEF IInv
  <2>2. (table.ssp[s] # None) = Tracked(table.tracker, s)
    BY Zenon, <2>1 DEF Good, Tracked
  <2> QED BY <2>1, <2>2 DEF Good
<1> QED BY <1>1, InitOK, NextOK, PTL DEF Spec
=============================================================================
