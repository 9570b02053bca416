CONSTANTS
    MaxRecords = 4
    MaxDate = 2
    ShardCells = 5
    SplitCells = 1
    MaxErrors = 2
    MaxCrashes = 2
    LateErrors = FALSE
    ReadErrors = {"summary", "shard"}
SPECIFICATION LogSpec
INVARIANTS
    CountedOnce
    IndexIsExact
    OffsetsAreLineEnds
PROPERTIES
    TotalsAreKept
CHECK_DEADLOCK FALSE
