CONSTANTS
    Names <- MCNames
    Repos <- MCRepos
    Features = {"f"}
    Commits = {1, 2, 3, 4, 5, 6, 7}
    Versions = {1, 2}
    Branches = {"main"}
    NoCommit = NoCommit
    Local = Local
    Nothing = Nothing
    Upstream <- MCUpstream
    Served = {1, 2, 3, 4, 5, 6, 7}
    Worlds <- MCWorlds
SPECIFICATION Spec
INVARIANTS    LockNeedsNoNetwork
CHECK_DEADLOCK FALSE
