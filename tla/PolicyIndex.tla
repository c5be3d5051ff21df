------------------------------ MODULE PolicyIndex ------------------------------
(***************************************************************************)
(* The index of a directory of policy files (internal/storage/index), the  *)
(* watcher that follows the directory (internal/storage/disk/dirwatch.go)  *)
(* and the reload that builds the index again.                             *)
(*                                                                         *)
(* An action is what happens under the index's lock, or one access to the  *)
(* directory: the directory changes between any two of them.  The watcher  *)
(* is one goroutine; reloads come from the admin API and are merged, so    *)
(* there is one build at a time.  Go's maps are total functions; None, or  *)
(* the empty set, means that there is no entry.                            *)
(***************************************************************************)
EXTENDS Naturals

CONSTANTS
    None,
    File,           \* the paths of the policy files
    Module,         \* the policies, by module ID
    Kind,           \* the kind of each policy, which is part of its ID
    Contents,       \* what can be written in each file
    MaxChanges,     \* bound on the changes of the directory
    MaxReloads      \* bound on the reloads

(* ok: a policy; disabled: a policy with "disabled: true"; invalid: it is  *)
(* parsed, and policy.Validate rejects it; broken: it cannot be parsed;    *)
(* empty: no document at all.                                              *)
States == {"ok", "disabled", "invalid", "broken", "empty"}
Entries == [id : Module, deps : SUBSET Module, state : States]

ASSUME IndexAssumption ==
    /\ None \notin File
    /\ None \notin Module
    /\ Contents \in [File -> SUBSET Entries]
    /\ MaxChanges \in Nat
    /\ MaxReloads \in Nat

VARIABLES
    fs,             \* the directory: what is in each file, or None
    notified,       \* files with an fsnotify event that is not read yet
    eventBatch,     \* dw.eventBatch
    watch,          \* the watcher goroutine inside triggerUpdate
    idx,            \* the index
    rel,            \* the goroutine inside index.Reload
    changes,        \* how often the directory was changed
    reloads,        \* how often a reload was started
    refused,        \* history: files whose last policy was refused as a duplicate
    known           \* history: the policies a subscriber has

vars == <<fs, notified, eventBatch, watch, idx, rel, changes, reloads, refused, known>>

EmptyIndex ==
    [fileToModID |-> [f \in File |-> None],
     modIDToFile |-> [m \in Module |-> None],
     executables |-> {},
     dependencies |-> [m \in Module |-> {}],
     dependents |-> [m \in Module |-> {}]]

Indexed(x) == {m \in Module : x.modIDToFile[m] # None}

NoEvent == [kind |-> "nop", id |-> None, old |-> None]
Watching == [pc |-> "idle", todo |-> {}, updated |-> {}, file |-> None,
             entry |-> None, evt |-> NoEvent]
NoReload == [pc |-> "idle", todo |-> {}, new |-> EmptyIndex, missing |-> {}, errs |-> {}]

(* NewStore on a directory without policies: the build it starts with has  *)
(* nothing to add.                                                         *)
Init ==
    /\ fs = [f \in File |-> None]
    /\ notified = {}
    /\ eventBatch = {}
    /\ watch = Watching
    /\ idx = EmptyIndex
    /\ rel = NoReload
    /\ changes = 0
    /\ reloads = 0
    /\ refused = {}
    /\ known = {}
-----------------------------------------------------------------------------
(* The index.                                                              *)

(* Mutant: a policy that another file defines is accepted.                 *)
DuplicateNever(x, f, m) == FALSE

(* A policy is defined by one file only.                                   *)
Duplicate(x, f, m) == x.modIDToFile[m] \notin {None, f}

(* What the file f defined is forgotten; the entries of other policies     *)
(* that import it stay.                                                    *)
clear(x, f) ==
    LET old == x.fileToModID[f]
    IN  IF old = None THEN x
        ELSE [fileToModID |-> [x.fileToModID EXCEPT ![f] = None],
              modIDToFile |-> [x.modIDToFile EXCEPT ![old] = None],
              executables |-> x.executables \ {old},
              dependencies |-> [x.dependencies EXCEPT ![old] = {}],
              dependents |-> [m \in Module |->
                  IF m \in x.dependencies[old] THEN x.dependents[m] \ {old}
                  ELSE x.dependents[m]]]

(* The file f defines e; addDep for each of its imports.                   *)
addEntry(x, f, e, exec) ==
    [fileToModID |-> [x.fileToModID EXCEPT ![f] = e.id],
     modIDToFile |-> [x.modIDToFile EXCEPT ![e.id] = f],
     executables |-> x.executables \cup exec,
     dependencies |-> [x.dependencies EXCEPT ![e.id] = @ \cup e.deps],
     dependents |-> [m \in Module |->
         IF m \in e.deps THEN x.dependents[m] \cup {e.id} ELSE x.dependents[m]]]

(* AddOrUpdate keeps every kind but derived roles in executables,          *)
(* indexBuilder.addPolicy also leaves exports out.                         *)
executable(m) == IF Kind[m] = "derived_roles" THEN {} ELSE {m}
builderExecutable(m) == IF Kind[m] \in {"derived_roles", "export"} THEN {} ELSE {m}

(* Mutant: a policy stays among the dependents of its former imports.      *)
AddOrUpdateKeepsDependents(x, f, e) ==
    addEntry([clear(x, f) EXCEPT !.dependents = x.dependents], f, e, executable(e.id))

AddOrUpdate(x, f, e) == addEntry(clear(x, f), f, e, executable(e.id))

(* Mutant: the policy stays in executables.                                *)
DeleteKeepsExecutables(x, f) == [clear(x, f) EXCEPT !.executables = x.executables]

Delete(x, f) == clear(x, f)
-----------------------------------------------------------------------------
(* The directory: external.  Each change is reported by fsnotify.          *)

WriteFile(f, e) ==
    /\ changes < MaxChanges
    /\ fs[f] # e
    /\ fs' = [fs EXCEPT ![f] = e]
    /\ notified' = notified \cup {f}
    /\ changes' = changes + 1
    /\ UNCHANGED <<eventBatch, watch, idx, rel, reloads, refused, known>>
-----------------------------------------------------------------------------
(* dirWatch: listen, processEvent, addToEventBatch, triggerUpdate.  The    *)
(* watcher is cooling while the last event is younger than cooldownPeriod. *)

Listening == watch.pc \in {"idle", "cooling"}

processEvent(f) ==
    /\ Listening
    /\ f \in notified
    /\ notified' = notified \ {f}
    /\ eventBatch' = eventBatch \cup {f}
    /\ watch' = [watch EXCEPT !.pc = "cooling"]
    /\ UNCHANGED <<fs, idx, rel, changes, reloads, refused, known>>

(* shouldUpdate: cooldownPeriod has passed since lastEventTime.            *)
cooldownPasses ==
    /\ watch.pc = "cooling"
    /\ watch' = [watch EXCEPT !.pc = "idle"]
    /\ UNCHANGED <<fs, notified, eventBatch, idx, rel, changes, reloads, refused, known>>

(* Mutant: removed files are not looked for first.                         *)
triggerUpdateAtOnce ==
    /\ watch.pc = "idle"
    /\ eventBatch # {}
    /\ watch' = [Watching EXCEPT !.pc = "updates", !.todo = eventBatch]
    /\ eventBatch' = {}
    /\ UNCHANGED <<fs, notified, idx, rel, changes, reloads, refused, known>>

triggerUpdate ==
    /\ watch.pc = "idle"
    /\ eventBatch # {}
    /\ watch' = [Watching EXCEPT !.pc = "removals", !.todo = eventBatch]
    /\ eventBatch' = {}
    /\ UNCHANGED <<fs, notified, idx, rel, changes, reloads, refused, known>>

(* Mutant: every file is taken from the batch.                             *)
statFileForgets(f) ==
    /\ watch.pc = "removals"
    /\ f \in watch.todo
    /\ watch' = IF fs[f] = None
                THEN [watch EXCEPT !.pc = "delete", !.file = f, !.todo = @ \ {f}]
                ELSE [watch EXCEPT !.todo = @ \ {f}]
    /\ UNCHANGED <<fs, notified, eventBatch, idx, rel, changes, reloads, refused, known>>

(* The first loop: os.Stat, and files that are there are left for later.   *)
statFile(f) ==
    /\ watch.pc = "removals"
    /\ f \in watch.todo
    /\ watch' = IF fs[f] = None
                THEN [watch EXCEPT !.pc = "delete", !.file = f, !.todo = @ \ {f}]
                ELSE [watch EXCEPT !.todo = @ \ {f}, !.updated = @ \cup {f}]
    /\ UNCHANGED <<fs, notified, eventBatch, idx, rel, changes, reloads, refused, known>>

deleteFile ==
    /\ watch.pc = "delete"
    /\ LET f == watch.file
           m == idx.fileToModID[f]
       IN  /\ idx' = Delete(idx, f)
           /\ watch' = [watch EXCEPT !.pc = "notifyRemoval", !.file = None,
                  !.evt = IF m = None THEN NoEvent
                          ELSE [kind |-> "delete", id |-> m, old |-> None]]
           /\ refused' = refused \ {f}
    /\ UNCHANGED <<fs, notified, eventBatch, rel, changes, reloads, known>>

removalsDone ==
    /\ watch.pc = "removals"
    /\ watch.todo = {}
    /\ watch' = [watch EXCEPT !.pc = "updates", !.todo = watch.updated, !.updated = {}]
    /\ UNCHANGED <<fs, notified, eventBatch, idx, rel, changes, reloads, refused, known>>

found(f) == IF fs[f] = None THEN "absent" ELSE fs[f].state

(* Mutant: a file that cannot be read is tried again.                      *)
readFailsRetries(f) ==
    /\ watch.pc = "updates"
    /\ f \in watch.todo
    /\ found(f) \in {"absent", "broken"}
    /\ watch' = [watch EXCEPT !.todo = @ \ {f}]
    /\ eventBatch' = eventBatch \cup {f}
    /\ UNCHANGED <<fs, notified, idx, rel, changes, reloads, refused, known>>

(* The second loop.  A file that cannot be read is given up, and what the  *)
(* index has of it stays.                                                  *)
readFails(f) ==
    /\ watch.pc = "updates"
    /\ f \in watch.todo
    /\ found(f) \in {"absent", "broken"}
    /\ watch' = [watch EXCEPT !.todo = @ \ {f}]
    /\ UNCHANGED <<fs, notified, eventBatch, idx, rel, changes, reloads, refused, known>>

(* An empty file gives a nil policy and no error, and Wrap panics on it.   *)
readPanics(f) ==
    /\ watch.pc = "updates"
    /\ f \in watch.todo
    /\ found(f) = "empty"
    /\ watch' = [watch EXCEPT !.pc = "panicked"]
    /\ UNCHANGED <<fs, notified, eventBatch, idx, rel, changes, reloads, refused, known>>

(* readPolicy only parses: whether the policy is disabled, and whether it  *)
(* is valid, is not looked at.                                             *)
readPolicy(f) ==
    /\ watch.pc = "updates"
    /\ f \in watch.todo
    /\ found(f) \in {"ok", "disabled", "invalid"}
    /\ watch' = [watch EXCEPT !.pc = "add", !.todo = @ \ {f}, !.file = f, !.entry = fs[f]]
    /\ UNCHANGED <<fs, notified, eventBatch, idx, rel, changes, reloads, refused, known>>

(* Mutant: OldPolicyID is not set.                                         *)
addFileForgetsOld ==
    /\ watch.pc = "add"
    /\ LET f == watch.file
           e == watch.entry
           old == idx.fileToModID[f]
       IN  IF Duplicate(idx, f, e.id)
           THEN /\ watch' = [watch EXCEPT !.pc = "updates", !.file = None, !.entry = None]
                /\ refused' = refused \cup {f}
                /\ UNCHANGED idx
           ELSE /\ watch' = [watch EXCEPT !.pc = "notifyUpdate", !.file = None,
                     !.entry = None,
                     !.evt = [kind |-> "update", id |-> e.id,
                              old |-> None]]
                /\ refused' = refused \ {f}
                /\ idx' = AddOrUpdate(idx, f, e)
    /\ UNCHANGED <<fs, notified, eventBatch, rel, changes, reloads, known>>

addFile ==
    /\ watch.pc = "add"
    /\ LET f == watch.file
           e == watch.entry
           old == idx.fileToModID[f]
       IN  IF Duplicate(idx, f, e.id)
           THEN /\ watch' = [watch EXCEPT !.pc = "updates", !.file = None, !.entry = None]
                /\ refused' = refused \cup {f}
                /\ UNCHANGED idx
           ELSE /\ watch' = [watch EXCEPT !.pc = "notifyUpdate", !.file = None,
                     !.entry = None,
                     !.evt = [kind |-> "update", id |-> e.id,
                              old |-> IF old = e.id THEN None ELSE old]]
                /\ refused' = refused \ {f}
                /\ idx' = AddOrUpdate(idx, f, e)
    /\ UNCHANGED <<fs, notified, eventBatch, rel, changes, reloads, known>>

updatesDone ==
    /\ watch.pc = "updates"
    /\ watch.todo = {}
    /\ watch' = Watching
    /\ UNCHANGED <<fs, notified, eventBatch, idx, rel, changes, reloads, refused, known>>

(* Mutant: the kind of the event is not looked at.                         *)
notifyBlindly ==
    /\ watch.pc \in {"notifyRemoval", "notifyUpdate"}
    /\ watch' = [watch EXCEPT !.evt = NoEvent,
                     !.pc = IF @ = "notifyRemoval" THEN "removals" ELSE "updates"]
    /\ known' = (known \ {watch.evt.old}) \cup {watch.evt.id}
    /\ UNCHANGED <<fs, notified, eventBatch, idx, rel, changes, reloads, refused>>

(* NotifySubscribers.  A subscriber removes what the event says is gone    *)
(* and loads from the index what it says is new.  It does so at once here: *)
(* NotifySubscribers only queues the event, and SubscriptionManager is     *)
(* about the queue and the order in which it is worked off.                *)
notify ==
    /\ watch.pc \in {"notifyRemoval", "notifyUpdate"}
    /\ watch' = [watch EXCEPT !.evt = NoEvent,
                     !.pc = IF @ = "notifyRemoval" THEN "removals" ELSE "updates"]
    /\ known' = (known \ {watch.evt.id, watch.evt.old})
                    \cup (IF watch.evt.kind = "update" THEN {watch.evt.id} \cap Indexed(idx)
                          ELSE {})
    /\ UNCHANGED <<fs, notified, eventBatch, idx, rel, changes, reloads, refused>>
-----------------------------------------------------------------------------
(* index.Reload: build without the lock, then the new maps with it.        *)

Reload ==
    /\ rel.pc = "idle"
    /\ reloads < MaxReloads
    /\ reloads' = reloads + 1
    /\ rel' = [NoReload EXCEPT !.pc = "walk", !.todo = File]
    /\ UNCHANGED <<fs, notified, eventBatch, watch, idx, changes, refused, known>>

(* fs.WalkDir meets the file f: read, validated and given to addPolicy.    *)
walkFile(f) ==
    /\ rel.pc = "walk"
    /\ f \in rel.todo
    /\ LET e == fs[f]
           x == rel.new
           skip == found(f) \in {"absent", "empty", "disabled"}
           fail == ~skip /\ (found(f) \in {"broken", "invalid"} \/ Duplicate(x, f, e.id))
       IN  rel' = [rel EXCEPT
              !.todo = @ \ {f},
              !.errs = IF fail THEN @ \cup {f} ELSE @,
              !.new = IF skip \/ fail THEN x ELSE addEntry(x, f, e, builderExecutable(e.id)),
              !.missing = IF skip \/ fail THEN @
                          ELSE (@ \ {e.id}) \cup
                                 {d \in e.deps : d # e.id /\ x.modIDToFile[d] = None}]
    /\ UNCHANGED <<fs, notified, eventBatch, watch, idx, changes, reloads, refused, known>>

(* Mutant: missing imports are not counted.                                *)
buildIndexOpen ==
    /\ rel.pc = "walk"
    /\ rel.todo = {}
    /\ rel' = IF rel.errs = {} THEN [rel EXCEPT !.pc = "swap"]
              ELSE NoReload
    /\ UNCHANGED <<fs, notified, eventBatch, watch, idx, changes, reloads, refused, known>>

(* indexBuilder.build: any error gives the whole index up.                 *)
buildIndex ==
    /\ rel.pc = "walk"
    /\ rel.todo = {}
    /\ rel' = IF rel.errs = {} /\ rel.missing = {} THEN [rel EXCEPT !.pc = "swap"]
              ELSE NoReload
    /\ UNCHANGED <<fs, notified, eventBatch, watch, idx, changes, reloads, refused, known>>

(* The build ends for another reason: a missing parent scope, conflicting  *)
(* scope permissions, a cancelled context.                                 *)
buildFails ==
    /\ rel.pc = "walk"
    /\ rel' = NoReload
    /\ UNCHANGED <<fs, notified, eventBatch, watch, idx, changes, reloads, refused, known>>

swapIndex ==
    /\ rel.pc = "swap"
    /\ idx' = rel.new
    /\ rel' = [NoReload EXCEPT !.pc = "notifyReload"]
    /\ UNCHANGED <<fs, notified, eventBatch, watch, changes, reloads, refused, known>>

(* NotifySubscribersAndWait with the reload event                          *)
notifyReload ==
    /\ rel.pc = "notifyReload"
    /\ known' = Indexed(idx)
    /\ rel' = NoReload
    /\ UNCHANGED <<fs, notified, eventBatch, watch, idx, changes, reloads, refused>>
-----------------------------------------------------------------------------
Watcher ==
    \/ \E f \in File : \/ processEvent(f) \/ statFile(f)
                       \/ readFails(f) \/ readPanics(f) \/ readPolicy(f)
    \/ cooldownPasses \/ triggerUpdate \/ deleteFile \/ removalsDone \/ addFile \/ updatesDone \/ notify

Reloader ==
    \/ Reload \/ buildIndex \/ buildFails \/ swapIndex \/ notifyReload
    \/ \E f \in File : walkFile(f)

(* A panic of the watcher ends the process.                                *)
Next ==
    /\ watch.pc # "panicked"
    /\ \/ Watcher
       \/ Reloader
       \/ \E f \in File : \E e \in Contents[f] \cup {None} : WriteFile(f, e)

Spec == Init /\ [][Next]_vars /\ WF_vars(watch.pc # "panicked" /\ Watcher)
-----------------------------------------------------------------------------
IsIndex(x) ==
    /\ x.fileToModID \in [File -> Module \cup {None}]
    /\ x.modIDToFile \in [Module -> File \cup {None}]
    /\ x.executables \in SUBSET Module
    /\ x.dependencies \in [Module -> SUBSET Module]
    /\ x.dependents \in [Module -> SUBSET Module]

TypeOK ==
    /\ fs \in [File -> Entries \cup {None}]
    /\ notified \in SUBSET File
    /\ eventBatch \in SUBSET File
    /\ watch.todo \in SUBSET File
    /\ watch.pc \in {"delete", "add"} => watch.file \in File
    /\ watch.pc = "add" => watch.entry \in Entries
    /\ IsIndex(idx)
    /\ IsIndex(rel.new)
    /\ rel.missing \in SUBSET Module
    /\ refused \in SUBSET File
    /\ known \in SUBSET Module

(* fileToModID and modIDToFile are inverse to each other, in the index and *)
(* in the one that is built, whatever the files define, however policies   *)
(* move between files, and whichever updates are refused (AddOrUpdate,     *)
(* Delete, addPolicy, Reload).                                             *)
Inverse(x) ==
    \A f \in File, m \in Module : (x.fileToModID[f] = m) <=> (x.modIDToFile[m] = f)

FilesMatchModules == Inverse(idx) /\ Inverse(rel.new)

(* A policy's dependents are exactly the indexed policies that import it,  *)
(* so that the events of AddOrUpdate and Delete name the importers there   *)
(* are and none that are gone (addDep).                                    *)
Mirrors(x) ==
    \A c, p \in Module :
        /\ (p \in x.dependencies[c]) <=> (c \in x.dependents[p])
        /\ p \in x.dependencies[c] => x.modIDToFile[c] # None

DependentsMirror == Mirrors(idx) /\ Mirrors(rel.new)

(* A policy that can be executed is compiled by a rebuild as long as it is *)
(* indexed, and a policy that is gone is not (executables,                 *)
(* GetAllCompilationUnitsWithCount).                                       *)
Executable(x) ==
    /\ x.executables \subseteq Indexed(x)
    /\ \A m \in Indexed(x) : Kind[m] \notin {"derived_roles", "export"} => m \in x.executables

ExecutablesIndexed == Executable(idx) /\ Executable(rel.new)

(* An index that was built is used only if every import of its policies is *)
(* in it, in whatever order the files were met (the missing map).          *)
BuiltClosed ==
    rel.pc = "swap" =>
        \A m \in Module : rel.new.dependencies[m] \subseteq Indexed(rel.new)

(* The watcher has seen every change of the directory.                     *)
Settled == notified = {} /\ eventBatch = {} /\ watch.pc = "idle"

(* Without reloads: when the watcher has seen every change of the          *)
(* directory, a file that is gone defines nothing any more, whatever was   *)
(* refused or could not be read before, and a valid policy is in the index *)
(* with the imports that its file has now, unless its last update was      *)
(* refused as a duplicate (triggerUpdate).                                 *)
IndexFollowsFiles ==
    Settled /\ reloads = 0 =>
        \A f \in File :
            /\ found(f) = "absent" => idx.fileToModID[f] = None
            /\ found(f) = "ok" /\ f \notin refused =>
                   /\ idx.fileToModID[f] = fs[f].id
                   /\ idx.dependencies[fs[f].id] = fs[f].deps

(* Without reloads: a subscriber that follows the events has the policies  *)
(* of the index whenever the watcher is not in an update, also when a file *)
(* is changed to define another policy (OldPolicyID) and when a policy     *)
(* moves to another file.                                                  *)
SubscribersTold ==
    Listening /\ reloads = 0 => known = Indexed(idx)

(* "The deleted files need to be processed first because we could have a   *)
(* duplicate definition when a file is renamed otherwise": without reloads *)
(* an update is refused as a duplicate only of a file that is there, or    *)
(* whose removal is still to be processed.  (Files that exchange their     *)
(* policies are both there, and both are refused.)                         *)
OnlyRealDuplicates ==
    [][watch.pc = "add" /\ watch.file \in refused' /\ idx' = idx /\ reloads = 0
         /\ watch'.pc = "updates" =>
         LET g == idx.modIDToFile[watch.entry.id]
         IN  g # watch.file /\ (fs[g] # None \/ g \in notified \cup eventBatch)]_vars

(* When the directory stops changing, so that cooldownPeriod passes after  *)
(* the last event, the watcher gets through with all it was told: no file, *)
(* refused, unreadable or gone by the time it is read, keeps it busy for   *)
(* ever (listen, shouldUpdate, triggerUpdate).                             *)
WatcherSettles ==
    (notified \cup eventBatch # {}) ~> (Settled \/ watch.pc = "panicked")

(* "disabled: Optional. Set to true to make the Cerbos engine ignore this  *)
(* policy file" (authoring_tips.adoc): when the watcher has seen every     *)
(* change, no disabled policy file is in the index.                        *)
DisabledIgnored ==
    Settled => \A f \in File : found(f) = "disabled" =>
                   idx.fileToModID[f] = None
=============================================================================
