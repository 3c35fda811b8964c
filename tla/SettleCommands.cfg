CONSTANTS
    axi = axi
    cells = cells
    c1 = c1
    c2 = c2
    Names = {axi, cells}
    Needs <- MCNeeds
    Commits = {c1, c2}
    AnyCommit = anyCommit
    No = no
    Missing = missing
    Unreadable = unreadable
    MaxCommands = 2
    MaxFaults = 1
SPECIFICATION Spec
INVARIANTS RefusedRestores   SnapshotHandsOver
PROPERTIES LockedKeepsLock PatchesKeepLock
CHECK_DEADLOCK FALSE
