CONSTANTS
    None = None
    File = {f1}
    Module = {"R", "D", "V"}
    Kind <- MCKind
    Contents <- DisabledContents
    MaxChanges = 2
    MaxReloads = 0
SPECIFICATION Spec
INVARIANTS DisabledIgnored
CHECK_DEADLOCK FALSE
