--------------------------- MODULE PolicyIndexProofs ---------------------------
(***************************************************************************)
(* The maps of the index agree with each other: for any files, policies    *)
(* and contents, any number of changes and reloads, and any interleaving   *)
(* of the watcher and the build.                                           *)
(*                                                                         *)
(* Sound is what an index satisfies after every operation.  The inductive  *)
(* invariant adds to it that the files a build has yet to meet are not in  *)
(* the new index, and that an import that is not in it is in missing.      *)
(***************************************************************************)
EXTENDS PolicyIndex, TLAPS

USE IndexAssumption

Sound(x) == IsIndex(x) /\ Inverse(x) /\ Mirrors(x) /\ Executable(x)

LEMMA EmptySound == Sound(EmptyIndex)
BY DEF Sound, EmptyIndex, IsIndex, Inverse, Mirrors, Executable, Indexed

(* What clear leaves: nothing of the file, and every other file's policy.  *)
LEMMA ClearEffect ==
    ASSUME NEW x, Sound(x), NEW f \in File
    PROVE  /\ clear(x, f).fileToModID[f] = None
           /\ \A m \in Module : clear(x, f).modIDToFile[m] =
                  IF x.modIDToFile[m] = f THEN None ELSE x.modIDToFile[m]
<1>1. x.fileToModID[f] \in Module \cup {None}
  BY DEF Sound, IsIndex
<1>2. CASE x.fileToModID[f] = None
  BY <1>2 DEF clear, Sound, IsIndex, Inverse
<1>3. CASE x.fileToModID[f] \in Module
  BY <1>3 DEF clear, Sound, IsIndex, Inverse
<1> QED BY <1>1, <1>2, <1>3

(* Forgetting a file keeps the index sound (Delete).                       *)
LEMMA ClearSound ==
    ASSUME NEW x, Sound(x), NEW f \in File
    PROVE  Sound(clear(x, f))
<1> DEFINE old == x.fileToModID[f]
           y == clear(x, f)
<1>1. CASE old = None
  BY <1>1 DEF clear
<1>2. CASE old # None
  <2>1. old \in Module
    BY <1>2 DEF Sound, IsIndex
  <2>2. /\ y.fileToModID = [x.fileToModID EXCEPT ![f] = None]
        /\ y.modIDToFile = [x.modIDToFile EXCEPT ![old] = None]
        /\ y.executables = x.executables \ {old}
        /\ y.dependencies = [x.dependencies EXCEPT ![old] = {}]
        /\ y.dependents = [m \in Module |->
               IF m \in x.dependencies[old] THEN x.dependents[m] \ {old}
               ELSE x.dependents[m]]
    BY <1>2 DEF clear
  <2> HIDE DEF y
  <2>3. IsIndex(y)
    BY <2>1, <2>2 DEF Sound, IsIndex
  <2>4. Inverse(y)
    BY <2>1, <2>2 DEF Sound, IsIndex, Inverse
  <2>5. Mirrors(y)
    <3> SUFFICES ASSUME NEW c \in Module, NEW p \in Module
                 PROVE  /\ (p \in y.dependencies[c]) <=> (c \in y.dependents[p])
                        /\ p \in y.dependencies[c] => y.modIDToFile[c] # None
      BY DEF Mirrors
    <3>1. /\ (p \in x.dependencies[c]) <=> (c \in x.dependents[p])
          /\ (p \in x.dependencies[old]) <=> (old \in x.dependents[p])
          /\ p \in x.dependencies[c] => x.modIDToFile[c] # None
      BY <2>1 DEF Sound, Mirrors
    <3>2. y.dependencies[c] = IF c = old THEN {} ELSE x.dependencies[c]
      BY <2>1, <2>2 DEF Sound, IsIndex
    <3>3. y.modIDToFile[c] = IF c = old THEN None ELSE x.modIDToFile[c]
      BY <2>1, <2>2 DEF Sound, IsIndex
    <3>4. y.dependents[p] = IF p \in x.dependencies[old] THEN x.dependents[p] \ {old}
                            ELSE x.dependents[p]
      BY <2>2
    <3> QED BY <3>1, <3>2, <3>3, <3>4
  <2>6. Executable(y)
    BY <2>1, <2>2 DEF Sound, IsIndex, Executable, Indexed
  <2>7. Sound(y)
    BY <2>3, <2>4, <2>5, <2>6 DEF Sound
  <2> QED BY <2>7 DEF y
<1> QED BY <1>1, <1>2

(* A file that is not in the index defines a policy that is not in it.     *)
LEMMA AddEntrySound ==
    ASSUME NEW x, Sound(x), NEW f \in File, NEW e \in Entries, NEW exec,
           x.fileToModID[f] = None, x.modIDToFile[e.id] = None,
           exec \subseteq {e.id},
           Kind[e.id] \notin {"derived_roles", "export"} => exec = {e.id}
    PROVE  Sound(addEntry(x, f, e, exec))
<1> DEFINE id == e.id
           y == addEntry(x, f, e, exec)
<1>1. id \in Module /\ e.deps \subseteq Module
  BY DEF Entries
<1>2. /\ y.fileToModID = [x.fileToModID EXCEPT ![f] = id]
      /\ y.modIDToFile = [x.modIDToFile EXCEPT ![id] = f]
      /\ y.executables = x.executables \cup exec
      /\ y.dependencies = [x.dependencies EXCEPT ![id] = @ \cup e.deps]
      /\ y.dependents = [m \in Module |->
             IF m \in e.deps THEN x.dependents[m] \cup {id} ELSE x.dependents[m]]
  BY DEF addEntry
<1> HIDE DEF y
<1>3. IsIndex(y)
  <2>1. /\ y.fileToModID \in [File -> Module \cup {None}]
        /\ y.modIDToFile \in [Module -> File \cup {None}]
        /\ y.executables \in SUBSET Module
    BY <1>1, <1>2 DEF Sound, IsIndex
  <2>2. y.dependencies \in [Module -> SUBSET Module]
    BY <1>1, <1>2 DEF Sound, IsIndex
  <2>3. y.dependents \in [Module -> SUBSET Module]
    <3>1. \A m \in Module : x.dependents[m] \subseteq Module
      BY DEF Sound, IsIndex
    <3> QED BY <1>1, <1>2, <3>1
  <2> QED BY <2>1, <2>2, <2>3 DEF IsIndex
<1>4. Inverse(y)
  BY <1>1, <1>2 DEF Sound, IsIndex, Inverse
<1>5. Mirrors(y)
  <2> SUFFICES ASSUME NEW c \in Module, NEW p \in Module
               PROVE  /\ (p \in y.dependencies[c]) <=> (c \in y.dependents[p])
                      /\ p \in y.dependencies[c] => y.modIDToFile[c] # None
    BY DEF Mirrors
  <2>1. /\ (p \in x.dependencies[c]) <=> (c \in x.dependents[p])
        /\ p \in x.dependencies[c] => x.modIDToFile[c] # None
    BY DEF Sound, Mirrors
  <2>2. y.dependencies[c] = IF c = id THEN x.dependencies[c] \cup e.deps
                            ELSE x.dependencies[c]
    <3>1. DOMAIN x.dependencies = Module
      BY DEF Sound, IsIndex
    <3> QED BY Zenon, <1>1, <1>2, <3>1
  <2>3. y.modIDToFile[c] = IF c = id THEN f ELSE x.modIDToFile[c]
    BY <1>1, <1>2 DEF Sound, IsIndex
  <2>4. y.dependents[p] = IF p \in e.deps THEN x.dependents[p] \cup {id}
                          ELSE x.dependents[p]
    BY <1>2
  <2> QED BY <2>1, <2>2, <2>3, <2>4
<1>6. Executable(y)
  <2>1. Indexed(y) = Indexed(x) \cup {id}
    BY <1>1, <1>2 DEF Sound, IsIndex, Indexed
  <2> QED BY <1>2, <2>1 DEF Sound, Executable
<1>7. Sound(y)
  BY <1>3, <1>4, <1>5, <1>6 DEF Sound
<1> QED BY <1>7 DEF y

LEMMA AddOrUpdateSound ==
    ASSUME NEW x, Sound(x), NEW f \in File, NEW e \in Entries, ~Duplicate(x, f, e.id)
    PROVE  Sound(AddOrUpdate(x, f, e))
<1>1. e.id \in Module
  BY DEF Entries
<1> DEFINE y == clear(x, f)
<1>2. Sound(y)
  BY ClearSound
<1>3. y.fileToModID[f] = None /\ y.modIDToFile[e.id] = None
  BY <1>1, ClearEffect DEF Duplicate
<1> HIDE DEF y
<1>4. Sound(addEntry(y, f, e, executable(e.id)))
  BY <1>2, <1>3, AddEntrySound DEF executable
<1> QED BY <1>4 DEF AddOrUpdate, y
-----------------------------------------------------------------------------
WatchFields == {"pc", "todo", "updated", "file", "entry", "evt"}
RelFields == {"pc", "todo", "new", "missing", "errs"}

WatchOK(v) ==
    /\ v = [k \in WatchFields |-> v[k]]
    /\ v.todo \in SUBSET File
    /\ v.updated \in SUBSET File
    /\ v.pc \in {"delete", "add"} => v.file \in File
    /\ v.pc = "add" => v.entry \in Entries

(* The files that are still to be met define nothing in the new index, and *)
(* an import that is not in it yet is in missing.                          *)
RelOK(r) ==
    /\ r = [k \in RelFields |-> r[k]]
    /\ r.todo \in SUBSET File
    /\ r.missing \in SUBSET Module
    /\ Sound(r.new)
    /\ \A f \in r.todo : r.new.fileToModID[f] = None
    /\ \A m, d \in Module : d \in r.new.dependencies[m] =>
           d \in r.missing \/ r.new.modIDToFile[d] # None
    /\ r.pc = "swap" => r.missing = {}

FilesOK ==
    /\ fs \in [File -> Entries \cup {None}]
    /\ notified \in SUBSET File
    /\ eventBatch \in SUBSET File
    /\ refused \in SUBSET File
    /\ known \in SUBSET Module

IInv == FilesOK /\ WatchOK(watch) /\ Sound(idx) /\ RelOK(rel)

LEMMA WatchingOK == WatchOK(Watching)
BY DEF WatchOK, Watching, WatchFields

LEMMA NoReloadOK == RelOK(NoReload) /\ RelOK([NoReload EXCEPT !.pc = "notifyReload"])
<1>1. \A f \in File : EmptyIndex.fileToModID[f] = None
  BY DEF EmptyIndex
<1>2. \A m \in Module : EmptyIndex.dependencies[m] = {}
  BY DEF EmptyIndex
<1> QED BY Zenon, <1>1, <1>2, EmptySound DEF RelOK, NoReload, RelFields

LEMMA WatcherOK ==
    ASSUME IInv, Watcher
    PROVE  IInv'
<1> USE DEF IInv
<1>1. ASSUME NEW f \in File, processEvent(f) PROVE IInv'
  <2>1. WatchOK([watch EXCEPT !.pc = "cooling"])
    BY DEF WatchOK, WatchFields
  <2> QED BY <1>1, <2>1 DEF processEvent, FilesOK
<1>2. ASSUME triggerUpdate PROVE IInv'
  <2> DEFINE x == [Watching EXCEPT !.pc = "removals", !.todo = eventBatch]
  <2>1. WatchOK(x)
    BY Zenon DEF WatchOK, Watching, WatchFields, FilesOK
  <2>2. watch' = x
    BY <1>2 DEF triggerUpdate
  <2> HIDE DEF x
  <2> QED BY <1>2, <2>1, <2>2 DEF triggerUpdate, FilesOK
<1>3. ASSUME NEW f \in File, statFile(f) PROVE IInv'
  <2>1. WatchOK([watch EXCEPT !.pc = "delete", !.file = f, !.todo = @ \ {f}])
    BY Zenon DEF WatchOK, WatchFields
  <2>2. WatchOK([watch EXCEPT !.todo = @ \ {f}, !.updated = @ \cup {f}])
    BY Zenon DEF WatchOK, WatchFields
  <2>3. WatchOK(watch')
    BY <1>3, <2>1, <2>2 DEF statFile
  <2> QED BY <1>3, <2>3 DEF statFile, FilesOK
<1>4. ASSUME deleteFile PROVE IInv'
  <2>1. watch.file \in File
    BY <1>4 DEF deleteFile, WatchOK
  <2>2. Sound(idx')
    BY <1>4, <2>1, ClearSound DEF deleteFile, Delete
  <2>3. ASSUME NEW evt
        PROVE  WatchOK([watch EXCEPT !.pc = "notifyRemoval", !.file = None, !.evt = evt])
    BY Zenon DEF WatchOK, WatchFields
  <2>4. WatchOK(watch')
    BY Zenon, <1>4, <2>3 DEF deleteFile
  <2> QED BY <1>4, <2>2, <2>4 DEF deleteFile, FilesOK
<1>5. ASSUME removalsDone PROVE IInv'
  <2>1. WatchOK([watch EXCEPT !.pc = "updates", !.todo = watch.updated, !.updated = {}])
    BY Zenon DEF WatchOK, WatchFields
  <2> QED BY <1>5, <2>1 DEF removalsDone, FilesOK
<1>6. ASSUME NEW f \in File, readFails(f) PROVE IInv'
  <2>1. WatchOK([watch EXCEPT !.todo = @ \ {f}])
    BY DEF WatchOK, WatchFields
  <2> QED BY <1>6, <2>1 DEF readFails, FilesOK
<1>7. ASSUME NEW f \in File, readPanics(f) PROVE IInv'
  <2>1. WatchOK([watch EXCEPT !.pc = "panicked"])
    BY DEF WatchOK, WatchFields
  <2> QED BY <1>7, <2>1 DEF readPanics, FilesOK
<1>8. ASSUME NEW f \in File, readPolicy(f) PROVE IInv'
  <2>1. fs[f] \in Entries
    BY <1>8 DEF readPolicy, found, FilesOK
  <2>2. WatchOK([watch EXCEPT !.pc = "add", !.todo = @ \ {f}, !.file = f, !.entry = fs[f]])
    BY Zenon, <2>1 DEF WatchOK, WatchFields
  <2> QED BY <1>8, <2>2 DEF readPolicy, FilesOK
<1>9. ASSUME addFile PROVE IInv'
  <2>1. watch.file \in File /\ watch.entry \in Entries
    BY <1>9 DEF addFile, WatchOK
  <2>2. Sound(idx')
    BY <1>9, <2>1, AddOrUpdateSound DEF addFile
  <2>3. WatchOK([watch EXCEPT !.pc = "updates", !.file = None, !.entry = None])
    BY Zenon DEF WatchOK, WatchFields
  <2>4. ASSUME NEW evt
        PROVE  WatchOK([watch EXCEPT !.pc = "notifyUpdate", !.file = None, !.entry = None,
                                     !.evt = evt])
    BY Zenon DEF WatchOK, WatchFields
  <2>5. WatchOK(watch')
    <3>1. CASE Duplicate(idx, watch.file, watch.entry.id)
      <4>1. watch' = [watch EXCEPT !.pc = "updates", !.file = None, !.entry = None]
        BY <1>9, <3>1 DEF addFile
      <4> QED BY <2>3, <4>1
    <3>2. CASE ~Duplicate(idx, watch.file, watch.entry.id)
      <4>1. \E evt : watch' = [watch EXCEPT !.pc = "notifyUpdate", !.file = None,
                                            !.entry = None, !.evt = evt]
        BY Zenon, <1>9, <3>2 DEF addFile
      <4> QED BY Zenon, <2>4, <4>1
    <3> QED BY <3>1, <3>2
  <2>6. refused' \in SUBSET File
    BY <1>9, <2>1 DEF addFile, FilesOK
  <2> QED BY <1>9, <2>2, <2>5, <2>6 DEF addFile, FilesOK
<1>10. ASSUME updatesDone PROVE IInv'
  BY <1>10, WatchingOK DEF updatesDone, FilesOK
<1>11. ASSUME notify PROVE IInv'
  <2>1. ASSUME NEW pc \in {"removals", "updates"}, NEW evt
        PROVE  WatchOK([watch EXCEPT !.evt = evt, !.pc = pc])
    BY Zenon DEF WatchOK, WatchFields
  <2>2. WatchOK(watch')
    BY Zenon, <1>11, <2>1 DEF notify
  <2>3. known' \in SUBSET Module
    BY <1>11 DEF notify, FilesOK, Indexed
  <2> QED BY <1>11, <2>2, <2>3 DEF notify, FilesOK
<1>12. ASSUME cooldownPasses PROVE IInv'
  <2>1. WatchOK([watch EXCEPT !.pc = "idle"])
    BY DEF WatchOK, WatchFields
  <2> QED BY <1>12, <2>1 DEF cooldownPasses, FilesOK
<1> QED BY <1>1, <1>2, <1>3, <1>4, <1>5, <1>6, <1>7, <1>8, <1>9, <1>10, <1>11, <1>12
        DEF Watcher

(* The build meets one more file.                                          *)
LEMMA walkFileOK ==
    ASSUME IInv, NEW f \in File, walkFile(f)
    PROVE  RelOK(rel')
<1> DEFINE e == fs[f]
           x == rel.new
           skip == found(f) \in {"absent", "empty", "disabled"}
           fail == ~skip /\ (found(f) \in {"broken", "invalid"} \/ Duplicate(x, f, e.id))
<1>1. /\ rel = [k \in RelFields |-> rel[k]] /\ f \in rel.todo /\ Sound(x)
      /\ rel.todo \in SUBSET File /\ rel.missing \in SUBSET Module
      /\ \A g \in rel.todo : x.fileToModID[g] = None
      /\ rel.pc = "walk"
  BY DEF IInv, RelOK, walkFile
<1>2. CASE skip \/ fail
  <2>1. rel' = [rel EXCEPT !.todo = @ \ {f}, !.errs = IF fail THEN @ \cup {f} ELSE @,
                           !.new = x, !.missing = @]
    BY Zenon, <1>2 DEF walkFile
  <2> HIDE DEF skip, fail
  <2>2. /\ rel' = [k \in RelFields |-> rel'[k]] /\ rel'.todo = rel.todo \ {f}
        /\ rel'.new = x /\ rel'.missing = rel.missing /\ rel'.pc = "walk"
    BY Zenon, <1>1, <2>1 DEF RelFields
  <2> QED BY <1>1, <2>2 DEF IInv, RelOK
<1>3. CASE ~(skip \/ fail)
  <2> DEFINE y == addEntry(x, f, e, builderExecutable(e.id))
             missing == (rel.missing \ {e.id}) \cup
                            {d \in e.deps : d # e.id /\ x.modIDToFile[d] = None}
  <2>1. /\ e \in Entries
        /\ ~Duplicate(x, f, e.id)
    BY <1>3 DEF found, IInv, FilesOK
  <2>2. e.id \in Module /\ e.deps \subseteq Module
    BY <2>1 DEF Entries
  <2>3. rel' = [rel EXCEPT !.todo = @ \ {f}, !.errs = @, !.new = y, !.missing = missing]
    BY Zenon, <1>3 DEF walkFile
  <2> HIDE DEF skip, fail, e
  <2>4. x.modIDToFile[e.id] = None
    BY <1>1, <2>1, <2>2 DEF Duplicate, Sound, Inverse
  <2>5. Sound(y)
    BY <1>1, <2>1, <2>4, AddEntrySound DEF builderExecutable
  <2>6. /\ y.fileToModID = [x.fileToModID EXCEPT ![f] = e.id]
        /\ y.modIDToFile = [x.modIDToFile EXCEPT ![e.id] = f]
        /\ y.dependencies = [x.dependencies EXCEPT ![e.id] = @ \cup e.deps]
    BY DEF addEntry
  <2> HIDE DEF y
  <2>7. \A g \in rel.todo \ {f} : y.fileToModID[g] = None
    BY <1>1, <2>6 DEF Sound, IsIndex
  <2>8. ASSUME NEW m \in Module, NEW d \in Module, d \in y.dependencies[m]
        PROVE  d \in missing \/ y.modIDToFile[d] # None
    <3>1. d \in x.dependencies[m] => d \in rel.missing \/ x.modIDToFile[d] # None
      BY DEF IInv, RelOK
    <3>2. y.dependencies[m] = IF m = e.id THEN x.dependencies[m] \cup e.deps
                              ELSE x.dependencies[m]
      <4>1. DOMAIN x.dependencies = Module
        BY <1>1 DEF Sound, IsIndex
      <4> QED BY <2>2, <2>6, <4>1
    <3>3. y.modIDToFile[d] = IF d = e.id THEN f ELSE x.modIDToFile[d]
      BY <1>1, <2>2, <2>6 DEF Sound, IsIndex
    <3> QED BY <2>8, <3>1, <3>2, <3>3
  <2>9. missing \in SUBSET Module
    BY <1>1, <2>2
  <2> HIDE DEF missing
  <2>10. /\ rel' = [k \in RelFields |-> rel'[k]] /\ rel'.todo = rel.todo \ {f}
         /\ rel'.new = y /\ rel'.missing = missing /\ rel'.pc = "walk"
    BY Zenon, <1>1, <2>3 DEF RelFields
  <2> QED BY <1>1, <2>5, <2>7, <2>8, <2>9, <2>10 DEF RelOK
<1> QED BY <1>2, <1>3

LEMMA ReloaderOK ==
    ASSUME IInv, Reloader
    PROVE  IInv'
<1> USE DEF IInv
<1>1. ASSUME Reload PROVE IInv'
  <2> DEFINE r == [NoReload EXCEPT !.pc = "walk", !.todo = File]
  <2>1. \A f \in File : EmptyIndex.fileToModID[f] = None
    BY DEF EmptyIndex
  <2>2. \A m \in Module : EmptyIndex.dependencies[m] = {}
    BY DEF EmptyIndex
  <2>3. RelOK(r)
    BY Zenon, <2>1, <2>2, EmptySound DEF RelOK, NoReload, RelFields
  <2>4. rel' = r
    BY <1>1 DEF Reload
  <2> HIDE DEF r
  <2> QED BY <1>1, <2>3, <2>4 DEF Reload, FilesOK
<1>2. ASSUME NEW f \in File, walkFile(f) PROVE IInv'
  <2>1. RelOK(rel')
    BY <1>2, walkFileOK
  <2>2. FilesOK' /\ UNCHANGED <<watch, idx>>
    BY <1>2 DEF walkFile, FilesOK
  <2> QED BY <2>1, <2>2
<1>3. ASSUME buildIndex PROVE IInv'
  <2>1. rel.missing = {} => RelOK([rel EXCEPT !.pc = "swap"])
    BY DEF RelOK, RelFields
  <2>2. RelOK(rel')
    BY <1>3, <2>1, NoReloadOK DEF buildIndex
  <2> QED BY <1>3, <2>2 DEF buildIndex, FilesOK
<1>4. ASSUME buildFails PROVE IInv'
  BY <1>4, NoReloadOK DEF buildFails, FilesOK
<1>5. ASSUME swapIndex PROVE IInv'
  <2>1. Sound(idx')
    BY <1>5 DEF swapIndex, RelOK
  <2>2. RelOK(rel')
    BY <1>5, NoReloadOK DEF swapIndex
  <2> QED BY <1>5, <2>1, <2>2 DEF swapIndex, FilesOK
<1>6. ASSUME notifyReload PROVE IInv'
  <2>1. known' \in SUBSET Module
    BY <1>6 DEF notifyReload, Indexed
  <2> QED BY <1>6, <2>1, NoReloadOK DEF notifyReload, FilesOK
<1> QED BY <1>1, <1>2, <1>3, <1>4, <1>5, <1>6 DEF Reloader
-----------------------------------------------------------------------------
LEMMA InitOK == Init => IInv
BY EmptySound, WatchingOK, NoReloadOK DEF Init, IInv, FilesOK

LEMMA NextOK == IInv /\ [Next]_vars => IInv'
<1> SUFFICES ASSUME IInv, [Next]_vars
             PROVE  IInv'
  OBVIOUS
<1>1. CASE Watcher
  BY <1>1, WatcherOK
<1>2. CASE Reloader
  BY <1>2, ReloaderOK
<1>3. ASSUME NEW f \in File, NEW e \in Contents[f] \cup {None}, WriteFile(f, e)
      PROVE  IInv'
  <2>1. e \in Entries \cup {None}
    OBVIOUS
  <2> QED BY <1>3, <2>1 DEF WriteFile, IInv, FilesOK
<1>4. CASE UNCHANGED vars
  BY <1>4 DEF vars, IInv, FilesOK
<1> QED BY <1>1, <1>2, <1>3, <1>4 DEF Next

(* Every state of the index, the watcher and the build has its types.      *)
THEOREM TypeCorrect == Spec => []TypeOK
<1>1. IInv => TypeOK
  BY DEF IInv, TypeOK, FilesOK, WatchOK, RelOK, Sound
<1> QED BY <1>1, InitOK, NextOK, PTL DEF Spec

(* fileToModID and modIDToFile are inverse to each other, also in the      *)
(* index that a reload builds.                                             *)
THEOREM FilesMatch == Spec => []FilesMatchModules
<1>1. IInv => FilesMatchModules
  BY DEF IInv, FilesMatchModules, RelOK, Sound
<1> QED BY <1>1, InitOK, NextOK, PTL DEF Spec

(* The dependents of a policy are the indexed policies that import it.     *)
THEOREM DependentsExact == Spec => []DependentsMirror
<1>1. IInv => DependentsMirror
  BY DEF IInv, DependentsMirror, RelOK, Sound
<1> QED BY <1>1, InitOK, NextOK, PTL DEF Spec

(* What can be executed is in executables while it is indexed, and nothing *)
(* that is gone is.                                                        *)
THEOREM Executables == Spec => []ExecutablesIndexed
<1>1. IInv => ExecutablesIndexed
  BY DEF IInv, ExecutablesIndexed, RelOK, Sound
<1> QED BY <1>1, InitOK, NextOK, PTL DEF Spec

(* In whatever order the files are met, an index that replaces the old one *)
(* holds all that its policies import.                                     *)
THEOREM Closed == Spec => []BuiltClosed
<1>1. IInv => BuiltClosed
  <2> SUFFICES ASSUME IInv, rel.pc = "swap", NEW m \in Module
               PROVE  rel.new.dependencies[m] \subseteq Indexed(rel.new)
    BY DEF BuiltClosed
  <2>1. rel.new.dependencies[m] \subseteq Module
    BY DEF IInv, RelOK, Sound, IsIndex
  <2> QED BY <2>1 DEF IInv, RelOK, Indexed
<1> QED BY <1>1, InitOK, NextOK, PTL DEF Spec
=============================================================================
