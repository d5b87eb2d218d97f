SPECIFICATION FairSpec
CONSTANTS
    ThreadCount = 2
    AssemblyCount = 2
    Object <- OneInstance
    Lines = 1
    MaxEdits = 1
    MaxThrows = 1
INVARIANTS
    CountsAccesses
    NoDanglingAccess
    TreesUpToDate
PROPERTIES
    AccessReturns
CHECK_DEADLOCK FALSE
