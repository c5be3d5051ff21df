# A verification project for the policy decision point

The repository is a policy decision point (PDP): it loads authorization policies
from a store, compiles them into an in-memory *rule table*, answers check and
plan requests from that table, and writes audit logs. Paths below are relative
to `src/internal/` unless they say otherwise.

1. [The system](#1-the-system)
2. [Modules and the code they translate](#2-modules-and-the-code-they-translate)
3. [What TLC checks](#3-what-tlc-checks)
4. [What is proved](#4-what-is-proved)
5. [Where code and documents disagree](#5-where-code-and-documents-disagree)
6. [What is not modelled](#6-what-is-not-modelled)
7. [Plan](#7-plan)

## 1. The system

```
 files, git, buckets, databases, hub bundles
        |  change                                  administrator
        v                                               |
  policy store  <------------- reload ----------  storage.Reload
  (storage/*, storage/index)                       (storage/reload.go)
        |  events (deltas) or "reload"
        v
  SubscriptionManager (storage/subscriptionmgr.go)
        |  OnStorageEvent, one goroutine
        v
  ruletable.Manager (ruletable/manager.go) --- loads and compiles again ---> store
        |  RWMutex
        v
  RuleTable (ruletable/ruletable.go, ruletable/index, policy/scopeperms)
        ^
        |  read lock
  Check and Plan (ruletable/check.go) <--- engine <--- services <--- clients
```

A change of a policy file travels as follows. The watcher of the directory
collects file events into a batch and updates the store's index, which maps
files to policies and policies to what they import. Every update yields an
event that names the policy, perhaps the policy the file held before, and the
policies that import it. The subscription manager queues the event and calls the
subscribers one after the other. The rule table manager takes the event as a
hint: it loads the policy *as it is now*, checks it against the scope settings
of the table, deletes the old version, adds the new one, and does the same for
the importers. A reload event makes it build a table from nothing and replace
the old one. Requests see the table between any two of these steps.

A request is decided by nested loops: for each action, principal policies before
resource policies; for each role of the principal; for each scope from the
requested one up to its root; for each row of the index. The loops have several
early exits and share three caches.

### Inventory

| Part | Code | Modelled by |
|---|---|---|
| Store reload | `storage/reload.go` | `StoreReload` |
| Subscription manager | `storage/subscriptionmgr.go` | `SubscriptionManager` |
| Policy index, builder, directory watcher | `storage/index`, `storage/disk` | `PolicyIndex` (partly) |
| Scope permissions tracker | `policy/scopeperms/scopeperms.go` | `ScopePerms` |
| Rule table | `ruletable/ruletable.go` | `RuleTable` (partly) |
| Rule table manager | `ruletable/manager.go` | `RuleTableManager` (partly) |
| Evaluation of a check | `ruletable/check.go` | `CheckRequest` (partly) |
| Rule index (bitmaps) | `ruletable/index` | `CheckRequest` (what a query returns) |
| Compiler, parser | `compile`, `parser`, `policy` | their outcomes, in `RuleTableManager` and `PolicyIndex` |
| Git, blob, database, hub and overlay stores | `storage/git`, `blob`, `db`, `hub`, `overlay` | planned |
| Audit logs (local, hub) | `audit/local`, `audit/hub` | planned |
| Schema manager, engine workers | `schema`, `engine` | planned |
| Query planner, services, CEL, telemetry, offline tools | `ruletable/planner`, `svc`, `server`, `conditions`, ... | not modelled, see section 6 |

`PROJECT.json` has the full list (`components`), the hazards at the lines where
they bite (`hazards`), and the source lines of every definition (`map`).

## 2. Modules and the code they translate

Each component has one module; `MC*` modules hold the small instances TLC runs,
`*Proofs` modules the theorems. An operator with a comment "Mutant" is a
definition with a plausible bug. It is used by nothing; putting it in place of the
definition after it must make TLC report the property it belongs to.

**`StoreReload`** is `storage.Reload`. A caller is a goroutine; its program
counter follows the closure: `Lead` or `Join` the flight in the singleflight
group (external, modelled from its use), `Lock` of `reloadMu`, `Forget`,
`ReadStorage` and `Apply` (the store's own Reload, which may fail before or after it
has replaced its content), `Unlock`,
`Finish`, `Return`. The storage is the number of changes made to it, so that
"older" and "newer" are comparisons.

**`SubscriptionManager`** is the event channel, the goroutine `handleEvents`, both
notify calls and (un)subscription. `Send`, `Done`, `CtxDone` and `NotifyStopped`
are the cases of the two `select` statements; a notifier stays in a call until one
is taken. A call that has nothing to send returns at once. The lock is not a variable: `Unlocked` says the handler is not
distributing, which is the only time the lock is held across steps. The
variables `accepted`, `seen` and `from` are history.

**`ScopePerms`** and **`RuleTable`** are operators on a record: `Add`, `Remove`,
`Check`, `Tracked`, `Conflicts` of the tracker; `AddPolicy`, `indexRules`, `ingestPolicy`,
`doDeletePolicy`, `finalizeBuild`, `checkScopePermissions` of the table. The fields
of the record are the maps of the Go structure, each kept separately, since that
they agree is what is in question. A rule row is abstracted to its content.

**`RuleTableManager`** is the subscriber. An action is what the code does between
taking and releasing `mgr.mu`, or one call of the policy loader; the store may
change between any two of them. `Source` is the set of subscription managers that
feed it (two for an overlay or a hub store). `Transitive` says whether events name
importers of importers: database stores do, the file index does not. A store that
hands over a ready rule table (`GetRuleTable`, hub bundles) is left out. A build that
meets a nil compilation unit panics, and the process ends.

**`PolicyIndex`** is the index with its five maps, the builder with its list of
missing imports, the watcher's batch processing and `index.Reload`. The directory
(`fs`) is the environment and changes between any two accesses; a file can hold a
policy, a disabled policy, a policy that parses and is not valid, text that does not
parse, or nothing. The watcher only parses; the build also skips disabled policies and
rejects invalid ones. An event makes the watcher wait (`cooling`) until
`cooldownPeriod` has passed without another. The order in which the walk meets files
and in which a Go map is ranged over is any order. `Init` is a start on a directory
without policies. A subscriber processes an event as soon as it is sent: the queue in
between is `SubscriptionManager`'s subject.

**`CheckRequest`** is `RuleTable.check` with the lookups it makes: `GetAllScopes`,
`Query` with the denials derived from role policies, `AddParentRoles`,
`ScopedResourceExists`, `ScopedPrincipalExists`. The rules and the request are
chosen in `Init`, and every iteration of a loop is a step. Rows of one query are
met in any order. A condition is an atom with a value of the request (true,
false, an error of CEL, or unable to be evaluated for another reason, which is an error
in lenient evaluation too), a variable imported by all policies, or a test of
`runtime.effectiveDerivedRoles`. Rows are built from rules as `addResourcePolicy`,
`addPrincipalPolicy` and `addRolePolicy` do it, including the conversion of a
conditional allow into a denial of the negated condition in scopes that require
the consent of the parent. Variables that cannot be evaluated end the check with an
error (`VariablesFail`). The second half of the module is a reference
definition, `Decision`, of what the documents say in terms of rules: no rows, loops,
order or caches. `Documented` names the requests for which the code is held to it.

Three tests of the code are not in `CheckRequest` because they cannot be
reached, as its comments say: leaving the scope loop at its top for an effect
found before, and both uses of `noMatchScopePermissions`.

## 3. What TLC checks

Deadlock is checked in `reload` only; in the others the system may stop (bounded
changes are used up, a request is answered, the process panicked).

| Run | Properties | States |
|---|---|---|
| `reload` | `TypeOK` `ServedByLaterReload` `OneFollowUp` `NeverGoesBack` `EveryCallReturns` | 75 k |
| `subscriptions` | `TypeOK` `InOrderExactlyOnce` `NilMeansProcessed` `SilentAfterUnsubscribe` `NotifierReleased` `EventuallyDistributed` | 330 k |
| `ruletable_scopes` | `TypeOK` `ScopesAgree` `SettingIsDeclared` `InSync` `ScopePermsMirrorPolicies` `IndexMirrorsPolicies` | 1642 k |
| `index` | `TypeOK` `FilesMatchModules` `DependentsMirror` `ExecutablesIndexed` `BuiltClosed` `IndexFollowsFiles` `SubscribersTold` `OnlyRealDuplicates` `WatcherSettles` | 960 k |
| `check` | `TypeOK` `CachesHold` `DecidesAsDeclared` `StrictNeverAllowsMore` `StrictAllowsWithoutErrors` | 1001 k |
| `ruletable_derived`, `_direct`, `_bypass`, `_roles`, `_panic`, `index_disabled`, `check_roles` | one violated property each, section 5 | |

**`reload`** (three callers, two changes). A caller that is answered without an
error is served by a reload that read the storage after the call; at most one
follow-up reload waits behind a running one; the server never goes back to an
older state of the storage; every call returns. Three callers are a leader, one
that must not join it, and one that joins the second; two changes let each of the
two reloads see a different storage.

**`subscriptions`** (two subscribers, a notifier with two events and one with one
event, a buffer of one, two calls of Subscribe or Unsubscribe). Subscribers get every
event accepted since they subscribed, once and in order; a nil answer of
`NotifySubscribersAndWait` means that every subscriber processed the batch; nothing
arrives after `Unsubscribe` has returned; a notifier is released, and an accepted
event is distributed unless the manager stops. The buffer is smaller than what the
notifiers send, so blocking on it happens.

**`ruletable_scopes`** (a resource, a principal and a role policy of one scope with
either setting, a resource policy of a child scope and the derived roles it imports,
which may not compile; one source of events, which name all importers). The policies
of a scope in the table agree on the setting, evaluation reads the setting they
declare, the tracker and the index mirror the policies after any sequence of
additions, deletions and rebuilds, and when all events are processed the table is what
the store says, in its metadata, rules, derived roles, settings and parent roles,
but for policies whose last event was refused or failed to load. The
importing policy keeps its import here; `ruletable_derived` is about one that drops it.
That the tracker also survives two sources of events is not in this run: the theorem
`MirrorsPolicies` says it for any number.

**`index`** (two files, three policies that import one another, three changes, one
reload). The two file maps are inverse, dependents mirror dependencies, the
executables are those indexed; an index built by a reload has all its imports; the
watcher brings the index in line with the directory (a file that is gone defines
nothing, a valid policy that was not refused as a duplicate is there with its present
imports; of disabled, invalid and unreadable files nothing is claimed), and the
subscribers in line with the index; an update is refused as a duplicate only of a file that is
there or whose removal is still to come, which allows that two files that exchange
their policies are both refused; once the directory is quiet for the cooldown, the
watcher gets through its work. Two
files are what a move or an exchange of policies takes; three changes let one fall
into the processing of the two before. The properties about following the
directory are stated for behaviours without reloads: `index.Reload` replaces the
maps by what it read earlier, and what the watcher indexed meanwhile is lost until
the next event of that file; nothing in the repository promises otherwise.

**`check`** (two actions, two roles, a parent role, a derived role, a scope and its
parent). The rules are every pair of an allowing resource rule and another rule
of any kind, and every triple of an allow in the parent scope, a resource rule in
the scope, and a rule of a principal or role policy; both scope settings; every
value of the conditions, and one condition that cannot be evaluated. Each decision is
`Decision`'s, with its scope and policy, except where `Documented` is false: a condition
cannot be evaluated at all (the documents do not say what it means then), a role policy
is overlooked (`check_roles`), or there are principal policies and the versions of
principal and resource differ (section 5);
a cached condition is what evaluating it in its own scope gives; strict evaluation
allows nothing that lenient evaluation denies, and allows only along a path
without errors of the role that allows. Two roles and two scopes are the least in which the early exits
differ from finishing the loops, and two actions the least in which caches
are reused.

**Fairness.** `StoreReload`: weak fairness of the steps of a caller inside `Reload`
(a goroutine that can run does; the mutex is free infinitely often, and nobody
has to call). `SubscriptionManager`: weak fairness of the handler and of a
notifier's `select` cases other than cancellation, since no one has to cancel or
stop. `PolicyIndex`: weak fairness of the watcher's goroutine, whose
ticker makes time pass; the changes of the directory are bounded, so it stays quiet in
the end. The other
specifications state safety only and assume no fairness.

## 4. What is proved

TLAPS checks the following for all values of the constants: any number of
callers, changes, sources, policies, scopes and files. The assumptions are the named
`ASSUME`s of the modules, which fix the types of the constants.

**`StoreReloadProofs`**: `TypeCorrect`, `Served` (`ServedByLaterReload`), `FollowUp`
(`OneFollowUp`), `Forward` (`NeverGoesBack`). The property that answers are served
by a later reload is not inductive: it speaks of callers that have returned.
`IInv` adds who holds the mutex (`LockInv`: exactly the caller between `Lock` and
`Unlock`), which flight is registered (`GroupInv`: that of the leader that has yet to
`Forget`), whom followers follow (`FlightInv`), that no member of a flight asked for
more than its reload has read (`FreshInv`), and that a reload about to be applied
read at least what was applied last (`AppliedInv`). `FreshInv` is the heart: a caller
joins only a registered flight, a registered flight has not forgotten its key, and
a reload that has not forgotten has not read.

**`RuleTableProofs`**: `TypeCorrect` and `MirrorsPolicies` (`ScopePermsMirrorPolicies`),
for any number of sources whose steps interleave. `Good(t)` says of a table that the
tracker's two maps and the scope settings are those of its policies. It holds
of the empty table and is preserved by adding and by deleting a policy (lemmas on
`AddPolicy`, `indexRules`, `doDeletePolicy` and the tracker), so it holds of the
table in use and of every table under construction, whatever the interleaving. `IInv`
carries `Good` for both, and that what a worker holds between two steps is
the result of a compilation.

**`PolicyIndexProofs`**: `TypeCorrect`, `FilesMatch`, `DependentsExact`, `Executables`,
`Closed`. `Sound(x)` is what an index satisfies after every operation; lemmas show that
`clear`, `addEntry` and the builder's `addPolicy` keep it. For `Closed` the
invariant also needs that files the walk has yet to meet are not in the new index,
and that an import that is not in it is listed as missing: the builder's list is
then exact whichever order the files come in.

**Only model-checked.** Liveness (`EveryCallReturns`, `NotifierReleased`,
`EventuallyDistributed`, `WatcherSettles`) is out of the prover's reach, as are
facts that need induction over data. `InSync`, `ScopesAgree`, the properties of
`SubscriptionManager`, the ones about the index following the directory, and all of
`CheckRequest` are checked on the instances above and not proved yet.

## 5. Where code and documents disagree

Each is a run whose property states what a document or a comment says and which
TLC violates; `findings` in `PROJECT.json` quotes the lines.

| Run | Property | What happens |
|---|---|---|
| `ruletable_derived` | `InSync` | A policy that stops importing derived roles keeps its former ones: the table's own `PolicyDerivedRoles` is not cleared, and is copied back. |
| `ruletable_direct` | `ImportersRecompiled` | File events name direct importers only: a policy that imports derived roles that import a changed variable keeps the old one. |
| `ruletable_bypass` | `ScopesAgree` | Dependents are added without the check of the scope setting, so a rejected policy enters when something it imports changes. |
| `ruletable_roles` | `ParentRolesKept` | Parent roles are kept without the version of the role policy: deleting one version takes the other's away. |
| `ruletable_panic` | `RebuildSurvives` | A module deleted while the modules are being listed is passed on as nil, and the compiler dereferences it. |
| `index_disabled` | `DisabledIgnored` | The build skips disabled files, the watcher does not. |
| `check_roles` | `UnlistedDenied` | A role policy that lists only other resources denies nothing in a scope that has no rule for the resource and the role. |

Because of the first three, `InSync` and `ScopesAgree` are shown where they hold: for
events that name all importers, policies that do not drop an import of derived roles,
and no two settings of a scope with imports. Because of the last, `DecidesAsDeclared`
leaves out requests for which a role policy is overlooked.

Met while modelling, without a run: principal rules are looked up with the version of
the resource (`ruletable/check.go:294`), while the API has a "Principal policy version"
of its own (`docs/modules/api/pages/index.adoc:122`); without its conjunct on the
versions in `Documented`, `DecidesAsDeclared` is violated. In lenient evaluation a row
whose condition cannot be evaluated is skipped, denials included
(`ruletable/check.go:375`). The derived roles of the last resource scope stay in the
evaluation context for the principal policies of the next action
(`ruletable/check.go:281`). An empty file makes the watcher panic
(`storage/disk/dirwatch.go:270`). The watcher indexes policies that the build would
reject as invalid (`storage/disk/dirwatch.go:292`).

## 6. What is not modelled

- The **query planner** evaluates CEL expressions symbolically; its state is an
  expression tree, out of TLC's reach at a useful size.
- **CEL**, JSON schema validation, JWT verification, protocol buffers: libraries and
  pure functions. Models see their outcomes: a value, false, or an error.
- **Services, server, telemetry, file and Kafka audit logs**: translation between
  formats, or records handed to a client library.
- **Test runner and inspection**: offline tools that run once over fixed policies.
- Inside modelled parts: schemas, scopes and listing in the index; outputs and the
  audit trail of a check; the pacing of garbage collection after rebuilds; the
  starting of the process, before the watcher and the subscriptions exist.
- `CheckRequest` assumes scope maps that hold exactly the scopes of their kind.
  `doDeletePolicy` prunes them with the scopes of all rules, so that a table may
  keep a scope in the map of the other kind; a lookup that is not lenient then goes on
  to the parent scopes. The composition is planned.
- `RuleTableManager` builds a table from compilation units; the path by which a store
  hands over a ready one (`ruletable/manager.go:126`) is left out.

## 7. Plan

The order is that in which an error would be most costly: how a change reaches
the table, the decision made from the table, the stores that produce the changes,
the audit log. Steps 1 to 5 are done.

1. `StoreReload`, with proofs.
2. `SubscriptionManager`.
3. `ScopePerms`, `RuleTable`, `RuleTableManager`, with proofs.
4. `PolicyIndex`, with proofs.
5. `CheckRequest` against its reference definition.
6. The rule index: identifiers that are reused, dimensions, shared cores, as a
   refinement of a set of rules (abstract specification: the rows by policy, as in
   `RuleTable`). Bounds: three identifiers, two dimensions.
7. The stores. Overlay: the circuit breaker, two event sources. Hub: bundle swap
   and release under readers, the watch loop and its retries. Blob and git: compare,
   apply, reload. Database: transactions, integrity checks, events after the
   commit. Each with the abstract promise that a subscriber following the events
   has the store's policies.
8. Compositions: `PolicyIndex` with `RuleTableManager` (deltas racing a reload,
   startup), and the overlay's two sources with the manager.
9. Audit: the local log's buffer, batches and Close; the hub log's markers,
   synchronisation and deletion, with crashes between writes.
10. The schema cache racing its invalidation, and the engine's worker pool.
11. Theorems: `InOrderExactlyOnce` and `SilentAfterUnsubscribe`; `ScopesAgree` for
    one source and no imports, on top of `Good`; that an allow in `CheckRequest` is
    backed by a rule, and `CachesHold`; the refinement of step 6.
