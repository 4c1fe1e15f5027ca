CONSTANTS
    MaxBytes = 3
    LineSizes = {1, 2, 4}
    Counts <- SmallCounts
    MaxAttempts = 2
    Missing = Missing
    NoRow = NoRow
    MaxLines = 3
    MaxJobs = 1
    MaxFaults = 1
SPECIFICATION FairSpec
INVARIANTS
    TypeOK
    TruncationInv
    LongestEnd
    RowSound
PROPERTIES
    RefusedOnlyForNothing
    CollectionEnds
CHECK_DEADLOCK FALSE
