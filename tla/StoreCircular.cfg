CONSTANTS
    Runs = {r1, r2}
    Cleaner = cleaner
    Nobody = nobody
    Repos = {k1, k2}
    Commits = {c1}
    Inodes = {i1, i2}
    NoFile = nofile
    Jobs = 2
    MaxCrashes = 0
SPECIFICATION Spec
SYMMETRY Symmetry
INVARIANT NoCircularWait
CHECK_DEADLOCK FALSE
