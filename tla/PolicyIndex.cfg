CONSTANTS
    None = None
    File = {f1, f2}
    Module = {"R", "D", "V"}
    Kind <- MCKind
    Contents <- MCContents
    MaxChanges = 3
    MaxReloads = 1
SPECIFICATION Spec
INVARIANTS
    TypeOK
    FilesMatchModules
    DependentsMirror
    ExecutablesIndexed
    BuiltClosed
    IndexFollowsFiles
    SubscribersTold
PROPERTIES
    OnlyRealDuplicates
    WatcherSettles
CHECK_DEADLOCK FALSE
