CONSTANTS
    Runs = {r1}
    Cleaner = cleaner
    Nobody = nobody
    Repos = {k1}
    Commits = {c1}
    Inodes = {i1}
    NoFile = nofile
    Jobs = 1
    MaxCrashes = 1
SPECIFICATION Spec
INVARIANT HeldIsWhole
CHECK_DEADLOCK FALSE
