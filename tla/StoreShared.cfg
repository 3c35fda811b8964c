CONSTANTS
    Runs = {r1, r2}
    Cleaner = cleaner
    Nobody = nobody
    Repos = {k1}
    Commits = {c1}
    Inodes = {i1}
    NoFile = nofile
    Jobs = 2
    MaxCrashes = 1
SPECIFICATION FairSpec
INVARIANTS OneWriter WholeOrAbsent ListedIsSealed NoSelfWait ReadStays
PROPERTIES KeepsPromise 
CHECK_DEADLOCK FALSE
