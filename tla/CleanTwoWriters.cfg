CONSTANTS
    Runs = {r1, r2}
    Cleaner = cleaner
    Nobody = nobody
    Repos = {k1}
    Commits = {c1}
    Inodes = {i1, i2, i3}
    NoFile = nofile
    Jobs = 1
    MaxCrashes = 0
SPECIFICATION CSpec
INVARIANT OneWriter
CHECK_DEADLOCK FALSE
