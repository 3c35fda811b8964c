\* Waves of five files; every way three packages and the root may require up
\* to two each; every three fixes of up to two edits of a text of three
\* places; every way three files may depend on each other, one bind into each,
\* and they be reached or listed.
SPECIFICATION AloneSpec
CHECK_DEADLOCK FALSE
CONSTANTS
    Count = 5
    Results <- MCResults
    Headings = TRUE
    Threads = 2
    First = 2
    Widest = 3
    Held = 2
    PackageCount = 3
    MaxRequired = 2
    Size = 3
    MaxFixes = 3
    MaxEdits = 2
    FileCount = 3
    MaxDepends = 2
    MaxBound = 1
    MaxTops = 2
INVARIANTS
    OrderIsRight
    FixesAreRight
    
PROPERTIES
    AsOneByOne
    EachEnds
