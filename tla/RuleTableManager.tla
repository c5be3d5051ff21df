--------------------------- MODULE RuleTableManager ---------------------------
(***************************************************************************)
(* ruletable.Manager (internal/ruletable/manager.go): the subscriber that  *)
(* keeps the rule table up to date with the policy store.  Every storage   *)
(* event is a delta, but what it says is loaded from the store as it is    *)
(* when the event is processed.  An action is what the code does between   *)
(* taking and releasing mgr.mu, or one call of the policy loader; requests *)
(* (Check, Plan) read the table under the read lock, so they see every     *)
(* state of the variable table.                                            *)
(*                                                                         *)
(* A Source is a SubscriptionManager: a queue of events and one goroutine. *)
(* The store's content and the events it sends are the environment; the    *)
(* compiler is modelled by what makes it fail and what its result holds.   *)
(***************************************************************************)
EXTENDS Naturals, Sequences, RuleTable

CONSTANTS
    Source,         \* the subscription managers the manager is subscribed to
    Defs,           \* Module -> the definitions its policy file can have
    Ancestors,      \* Module -> the modules of its parent scopes
    RootOf,         \* Module -> the last of its ancestors, or itself
    Transitive,     \* do events name the dependents of dependents?
    LoaderCanFail,  \* may a call of the loader fail because of the store?
    MaxChanges      \* bound on the changes of the store

ASSUME ManagerAssumption ==
    /\ Ancestors \in [Module -> SUBSET Module]
    /\ RootOf \in [Module -> Module]
    /\ Transitive \in BOOLEAN
    /\ LoaderCanFail \in BOOLEAN
    /\ MaxChanges \in Nat
    /\ \A m \in Module : \A d \in Defs[m] : d # None /\ d.sp \in SourceSettings

VARIABLES
    defs,           \* the store: each module's definition, or None
    queue,          \* each source's events that are not processed yet
    table,          \* mgr.RuleTable
    lastReloadErr,  \* mgr.lastReloadErr
    worker,         \* each source's goroutine inside OnStorageEvent
    changes,        \* how often the store was changed
    outcome         \* history: what became of each module's last event

vars == <<defs, queue, table, lastReloadErr, worker, changes, outcome>>

NoEvent == [kind |-> "nop", id |-> None, old |-> None, deps |-> {}]
Idle == [pc |-> "idle", evt |-> NoEvent, rps |-> None, todo |-> {},
         toReload |-> {}, new |-> EmptyTable]

Init ==
    /\ defs = [m \in Module |-> None]
    /\ queue = [w \in Source |-> <<>>]
    /\ table = EmptyTable
    /\ lastReloadErr = "nil"
    /\ worker = [w \in Source |-> Idle]
    /\ changes = 0
    /\ outcome = [m \in Module |-> "applied"]
-----------------------------------------------------------------------------
(* The policy loader: compile.Manager over the store's current content.    *)

(* Imports go two levels deep: a policy imports derived roles, which       *)
(* import constants and variables, which import nothing.                   *)
Dependencies(m) ==
    defs[m].imports \cup
        UNION {defs[d].imports : d \in {x \in defs[m].imports : defs[x] # None}}

Unit(m) == {m} \cup Ancestors[m]

loadable(m) ==
    \A a \in Unit(m) : /\ defs[a] # None
                       /\ \A d \in Dependencies(a) : defs[d] # None

valid(m) ==
    \A a \in Unit(m) : /\ defs[a].state = "ok"
                       /\ \A d \in Dependencies(a) : defs[d].state = "ok"

policySet(m) ==
    [id |-> m,
     sp |-> Normalise(defs[m].sp),
     dr |-> {d \in defs[m].imports : Kind[d] = "derived_roles"},
     schemas |-> defs[RootOf[m]].schemas,
     parents |-> defs[m].parents,
     rows |-> IF Kind[m] = "role" /\ defs[m].rules = 0 THEN {}
              ELSE {[d \in {m} \cup Dependencies(m) |-> defs[d].ver]}]

(* A module that is not there, and one that is not executable, gives nil.  *)
compile(m) ==
    CASE defs[m] = None -> [err |-> "nil", rps |-> None]
      [] defs[m] # None /\ ~loadable(m) -> [err |-> "load", rps |-> None]
      [] defs[m] # None /\ loadable(m) /\ ~valid(m) -> [err |-> "compile", rps |-> None]
      [] OTHER -> [err |-> "nil",
                   rps |-> IF Kind[m] \in {"derived_roles", "export"} THEN None
                           ELSE policySet(m)]
-----------------------------------------------------------------------------
(* The store changes and tells its subscribers.                            *)

Importers(ds, ms) == {x \in Module : ds[x] # None /\ ds[x].imports \cap ms # {}}

Dependents(ds, m) ==
    LET direct == Importers(ds, {m})
    IN  direct \cup (IF Transitive THEN Importers(ds, direct) ELSE {})

(* The store's content becomes ds, and source w is told.                   *)
Notify(w, kind, m, old, ds) ==
    /\ defs' = ds
    /\ queue' = [queue EXCEPT ![w] = Append(@, [kind |-> kind, id |-> m, old |-> old,
                                                deps |-> Dependents(ds, m)])]

Changed ==
    /\ changes < MaxChanges
    /\ changes' = changes + 1
    /\ UNCHANGED <<table, lastReloadErr, worker, outcome>>

AddOrUpdate(w, m, d) ==
    /\ Changed
    /\ d # defs[m]
    /\ Notify(w, "update", m, None, [defs EXCEPT ![m] = d])

(* The file that defined module o now defines module m.                    *)
Rename(w, o, m, d) ==
    /\ Changed
    /\ defs[o] # None
    /\ defs[m] = None
    /\ o # m
    /\ Notify(w, "update", m, o, [defs EXCEPT ![o] = None, ![m] = d])

Delete(w, m) ==
    /\ Changed
    /\ defs[m] # None
    /\ Notify(w, "delete", m, None, [defs EXCEPT ![m] = None])

NotifyReload(w) ==
    /\ Changed
    /\ queue' = [queue EXCEPT ![w] = Append(@, [NoEvent EXCEPT !.kind = "reload"])]
    /\ UNCHANGED defs
-----------------------------------------------------------------------------
(* OnStorageEvent                                                          *)

Goto(w, pc) == worker' = [worker EXCEPT ![w].pc = pc]

Return(w) == worker' = [worker EXCEPT ![w] = Idle]

(* After the policy itself: the dependents, if there are any.              *)
ToDependents(w) ==
    IF worker[w].evt.deps = {} THEN Return(w) ELSE Goto(w, "dependents")

(* GetAllCompilationUnitsWithCount lists the modules first.  Derived roles *)
(* that a policy imports are compiled with it.                             *)
toCompile ==
    {m \in Module : /\ defs[m] # None
                    /\ Kind[m] # "derived_roles" \/ Importers(defs, {m}) = {}}

Receive(w) ==
    /\ worker[w].pc = "idle"
    /\ queue[w] # <<>>
    /\ queue' = [queue EXCEPT ![w] = Tail(@)]
    /\ LET evt == Head(queue[w])
       IN  worker' = [worker EXCEPT ![w] =
             CASE evt.kind = "update" -> [Idle EXCEPT !.pc = "load", !.evt = evt]
               [] evt.kind = "delete" -> [Idle EXCEPT !.pc = "delete", !.evt = evt]
               [] OTHER -> [Idle EXCEPT !.pc = "build", !.evt = evt,
                                        !.todo = toCompile]]
    /\ UNCHANGED <<defs, table, lastReloadErr, changes, outcome>>

Record(ms, o) == outcome' = [m \in Module |-> IF m \in ms THEN o ELSE outcome[m]]

EventModules(w) == {worker[w].evt.id, worker[w].evt.old} \cup worker[w].evt.deps

(* GetFirstMatch                                                           *)
Load(w) ==
    /\ worker[w].pc = "load"
    /\ LET res == compile(worker[w].evt.id)
       IN  IF res.err = "nil"
           THEN /\ worker' = [worker EXCEPT ![w].pc = "check", ![w].rps = res.rps]
                /\ UNCHANGED outcome
           ELSE /\ Return(w)
                /\ Record(EventModules(w), "unloaded")
    /\ UNCHANGED <<defs, queue, table, lastReloadErr, changes>>

(* A call of the loader fails because of the store, or times out.          *)
LoaderFails(w) ==
    /\ LoaderCanFail
    /\ worker[w].pc \in {"load", "dependents"}
    /\ Return(w)
    /\ Record(IF worker[w].pc = "load" THEN EventModules(w) ELSE worker[w].evt.deps,
              "unloaded")
    /\ UNCHANGED <<defs, queue, table, lastReloadErr, changes>>

ignoredPolicyKey(w) ==
    LET o == worker[w].evt.old
    IN  IF o # None /\ table.meta[o] # None THEN o ELSE None

(* Mutant: the policy is not checked before it is added.                   *)
checkPolicyNever(w) ==
    /\ worker[w].pc = "check"
    /\ Goto(w, "delete")
    /\ UNCHANGED <<defs, queue, table, lastReloadErr, changes, outcome>>

checkPolicy(w) ==
    /\ worker[w].pc = "check"
    /\ IF /\ worker[w].rps # None
          /\ checkScopePermissions(table, worker[w].rps, ignoredPolicyKey(w))
       THEN /\ Return(w)
            /\ Record(EventModules(w), "rejected")
       ELSE /\ Goto(w, "delete")
            /\ UNCHANGED outcome
    /\ UNCHANGED <<defs, queue, table, lastReloadErr, changes>>

AfterDelete(w) ==
    IF worker[w].rps # None THEN Goto(w, "add") ELSE ToDependents(w)

deletePolicy(w) ==
    /\ worker[w].pc = "delete"
    /\ table' = doDeletePolicy(table, worker[w].evt.id)
    /\ IF worker[w].evt.old # None THEN Goto(w, "deleteOld") ELSE AfterDelete(w)
    /\ Record({worker[w].evt.id}, "applied")
    /\ UNCHANGED <<defs, queue, lastReloadErr, changes>>

(* Mutant: the former policy of the file is not deleted.                   *)
deleteOldPolicyNever(w) ==
    /\ worker[w].pc = "deleteOld"
    /\ AfterDelete(w)
    /\ Record({worker[w].evt.old}, "applied")
    /\ UNCHANGED <<defs, queue, table, lastReloadErr, changes>>

deleteOldPolicy(w) ==
    /\ worker[w].pc = "deleteOld"
    /\ table' = doDeletePolicy(table, worker[w].evt.old)
    /\ AfterDelete(w)
    /\ Record({worker[w].evt.old}, "applied")
    /\ UNCHANGED <<defs, queue, lastReloadErr, changes>>

addPolicy(w) ==
    /\ worker[w].pc = "add"
    /\ table' = ingestPolicy(table, worker[w].rps)
    /\ ToDependents(w)
    /\ UNCHANGED <<defs, queue, lastReloadErr, changes, outcome>>

(* GetAllMatching: one dependent that fails keeps all of them.             *)
LoadDependents(w) ==
    /\ worker[w].pc = "dependents"
    /\ LET deps == worker[w].evt.deps
       IN  IF \A m \in deps : compile(m).err = "nil"
           THEN /\ worker' = [worker EXCEPT
                      ![w].pc = "deleteDependents",
                      ![w].todo = deps,
                      ![w].toReload = {compile(m).rps : m \in deps} \ {None}]
                /\ Record(deps, "applied")
           ELSE /\ Return(w)
                /\ Record(deps, "unloaded")
    /\ UNCHANGED <<defs, queue, table, lastReloadErr, changes>>

deleteDependent(w, m) ==
    /\ worker[w].pc = "deleteDependents"
    /\ m \in worker[w].todo
    /\ table' = doDeletePolicy(table, m)
    /\ worker' = [worker EXCEPT
          ![w].todo = @ \ {m},
          ![w].pc = IF worker[w].todo = {m} THEN "addDependents" ELSE @]
    /\ UNCHANGED <<defs, queue, lastReloadErr, changes, outcome>>

addDependent(w, r) ==
    /\ worker[w].pc = "addDependents"
    /\ r \in worker[w].toReload
    /\ table' = ingestPolicy(table, r)
    /\ worker' = [worker EXCEPT ![w].toReload = @ \ {r}]
    /\ UNCHANGED <<defs, queue, lastReloadErr, changes, outcome>>

DependentsDone(w) ==
    /\ worker[w].pc = "addDependents"
    /\ worker[w].toReload = {}
    /\ Return(w)
    /\ UNCHANGED <<defs, queue, table, lastReloadErr, changes, outcome>>

(* newRuleTableFromIterableLoader (a store that holds a ready table, a hub *)
(* bundle, is not modelled): the next unit, compiled from the store as it  *)
(* is now.  A unit that cannot be loaded is left out, one that does not    *)
(* compile ends the build.                                                 *)
BuildUnit(w, m) ==
    /\ worker[w].pc = "build"
    /\ m \in worker[w].todo
    /\ defs[m] # None
    /\ worker' = [worker EXCEPT
          ![w].todo = IF compile(m).err = "compile" THEN {} ELSE @ \ {m},
          ![w].pc = IF compile(m).err = "compile" THEN "reloadFailed" ELSE @,
          ![w].new = ingestPolicy(@, compile(m).rps)]
    /\ UNCHANGED <<defs, queue, table, lastReloadErr, changes, outcome>>

(* The module was listed and is gone: GetAllCompilationUnitsWithCount      *)
(* sends a nil unit, and Compile reads its ModID.                          *)
BuildPanics(w, m) ==
    /\ worker[w].pc = "build"
    /\ m \in worker[w].todo
    /\ defs[m] = None
    /\ Goto(w, "panicked")
    /\ UNCHANGED <<defs, queue, table, lastReloadErr, changes, outcome>>

(* The store fails while the units are loaded.                             *)
BuildFails(w) ==
    /\ LoaderCanFail
    /\ worker[w].pc = "build"
    /\ Goto(w, "reloadFailed")
    /\ UNCHANGED <<defs, queue, table, lastReloadErr, changes, outcome>>

(* The tracker's conflicts, then finalizeBuild.                            *)
BuildDone(w) ==
    /\ worker[w].pc = "build"
    /\ worker[w].todo = {}
    /\ IF Conflicts(worker[w].new.tracker) = {}
       THEN worker' = [worker EXCEPT ![w].pc = "swap", ![w].new = finalizeBuild(@)]
       ELSE Goto(w, "reloadFailed")
    /\ UNCHANGED <<defs, queue, table, lastReloadErr, changes, outcome>>

(* reload, with the lock held                                              *)
reload(w) ==
    /\ worker[w].pc \in {"swap", "reloadFailed"}
    /\ IF worker[w].pc = "swap"
       THEN /\ table' = worker[w].new
            /\ lastReloadErr' = "nil"
            /\ outcome' = [m \in Module |->
                  IF defs[m] # None /\ worker[w].new.meta[m] = None THEN "unloaded"
                  ELSE "applied"]
       ELSE /\ lastReloadErr' = "failed"
            /\ UNCHANGED <<table, outcome>>
    /\ Return(w)
    /\ UNCHANGED <<defs, queue, changes>>
-----------------------------------------------------------------------------
StoreChanges ==
    \E w \in Source :
        \/ \E m \in Module : \/ \E d \in Defs[m] : AddOrUpdate(w, m, d)
                             \/ Delete(w, m)
                             \/ \E o \in Module, d \in Defs[m] : Rename(w, o, m, d)
        \/ NotifyReload(w)

OnStorageEvent(w) ==
    \/ Receive(w) \/ Load(w) \/ LoaderFails(w) \/ checkPolicy(w)
    \/ deletePolicy(w) \/ deleteOldPolicy(w) \/ addPolicy(w)
    \/ LoadDependents(w) \/ DependentsDone(w)
    \/ \E m \in Module : deleteDependent(w, m)
    \/ \E r \in worker[w].toReload : addDependent(w, r)
    \/ \E m \in Module : BuildUnit(w, m) \/ BuildPanics(w, m)
    \/ BuildFails(w) \/ BuildDone(w) \/ reload(w)

(* Nothing recovers from a panic: the process is gone.                     *)
Panicked == \E w \in Source : worker[w].pc = "panicked"

Next ==
    /\ ~Panicked
    /\ StoreChanges \/ \E w \in Source : OnStorageEvent(w)

Spec == Init /\ [][Next]_vars
-----------------------------------------------------------------------------
TypeOK ==
    /\ DOMAIN defs = Module
    /\ \A m \in Module : defs[m] \in Defs[m] \cup {None}
    /\ table.tracker \in Trackers
    /\ table.ssp \in [Scope -> Settings \cup {None}]
    /\ \A m \in Module : table.meta[m] # None => table.meta[m].id = m
    /\ lastReloadErr \in {"nil", "failed"}
    /\ changes \in 0 .. MaxChanges
    /\ outcome \in [Module -> {"applied", "unloaded", "rejected"}]

Quiet == \A w \in Source : queue[w] = <<>> /\ worker[w].pc = "idle"

(* What a request finds in the table for the module is what the compiler   *)
(* makes of it now: the rows, the derived roles its resource policy refers *)
(* to, the setting its scope is checked with and the parent roles.  The    *)
(* schemas are left out: they are the root policy's, whose changes send no *)
(* event for the policies of its child scopes.  So is pdr, which only      *)
(* indexRules reads.                                                       *)
Current(m) ==
    LET want == compile(m).rps
        s == ScopeOf[m]
        field(absent, present) == IF want = None THEN absent ELSE present
    IN  /\ (table.meta[m] = None) <=> (want = None)
        /\ table.idx[m] = field({}, want.rows)
        /\ table.dr[m] = field({}, want.dr)
        /\ Constrained(Kind[m]) => table.tracker.scopes[s][m] = field(None, want.sp)
        /\ Kind[m] = "role" => table.parents[s][RoleOf[m]] = field(None, want.parents)

(* Once every event is processed, the table holds the store's present      *)
(* version of each policy that compiles and whose last event was applied,  *)
(* and nothing of a policy that is gone, however changes, loads, rebuilds  *)
(* and events were interleaved (processPolicyEvent, reload); of its        *)
(* derived roles check says that they are "those referenced in the         *)
(* policy".                                                                *)
InSync ==
    Quiet => \A m \in Module :
                outcome[m] = "applied" /\ compile(m).err = "nil" => Current(m)

(* The tracker and scopeScopePermissions say of every scope what the       *)
(* policies in the table say, after any sequence of additions, deletions   *)
(* and rebuilds (indexRules, doDeletePolicy).                              *)
ScopePermsMirrorPolicies ==
    \A s \in Scope :
        /\ \A m \in Module :
              table.tracker.scopes[s][m] =
                  IF /\ table.meta[m] # None
                     /\ Constrained(Kind[m])
                     /\ ScopeOf[m] = s
                  THEN table.meta[m].sp ELSE None
        /\ (table.ssp[s] # None) = Tracked(table.tracker, s)

(* The rows of the index are those of the policies in the table, the index *)
(* was given the current parent roles, and a scope is in the scope map of  *)
(* its kind while a policy of that kind has a row in it.                   *)
IndexMirrorsPolicies ==
    /\ \A m \in Module :
          table.idx[m] = IF table.meta[m] = None THEN {} ELSE table.meta[m].rows
    /\ table.parentRoles = table.parents
    /\ \A m \in Module : table.idx[m] # {} =>
          ScopeOf[m] \in (IF Kind[m] = "principal" THEN table.principalScopes
                          ELSE table.resourceScopes)

(* The policies of a scope in the table use one setting: checkPolicy is to *)
(* "Reject the policy before touching the table if it would make the scope *)
(* permissions of its scope inconsistent", and a rebuild is refused.       *)
ScopesAgree == Conflicts(table.tracker) = {}

(* The setting the evaluation reads for a scope is the one its policies    *)
(* declare (GetScopeScopePermissions).                                     *)
SettingIsDeclared ==
    \A m \in Module : table.meta[m] # None /\ Constrained(Kind[m]) =>
        table.ssp[ScopeOf[m]] = table.meta[m].sp

-----------------------------------------------------------------------------
(* What comments and documents say of the table and the code does not do.  *)

(* "if a derived role or variable export changes, we need to recompile all *)
(* the policies that import it" (index.go): once quiet, a policy in the    *)
(* table was compiled from the present versions of what it imports.        *)
ImportersRecompiled ==
    Quiet => \A m \in Module :
        /\ outcome[m] = "applied"
        /\ table.meta[m] # None
        /\ compile(m).rps # None
        => table.meta[m].rows = compile(m).rps.rows

(* "Error reloading rule table, maintaining last valid state"              *)
(* (OnStorageEvent): whatever the store does while the table is rebuilt,   *)
(* the rebuild succeeds or fails, and the process goes on serving.         *)
RebuildSurvives == ~Panicked

(* "You can have multiple policy versions for the same role"               *)
(* (role_policies.adoc): a role policy in the table has its parent roles.  *)
ParentRolesKept ==
    Quiet => \A m \in Module :
        table.meta[m] # None /\ Kind[m] = "role" =>
            table.parents[ScopeOf[m]][RoleOf[m]] # None

=============================================================================
