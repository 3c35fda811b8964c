CONSTANTS
    NoName = NoName
    NoList = NoList
    Undefined = Undefined
    Unknown = Unknown
    Unfound = Unfound
    MaxDepth = 2
    Names <- MCNames
    Suites <- MCSuites
SPECIFICATION FairSpec
CHECK_DEADLOCK FALSE
INVARIANTS
    NoneWithinItself
    ActiveIsWhereWritten
    IncludesAreBounded
    WritesWhatItMeans
    OnePassFindsAll
PROPERTY ExpansionEnds
