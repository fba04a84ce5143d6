SPECIFICATION Spec
CONSTANTS
    LineFeed = "n"
    BaseContents <- MCBaseContents
    Readers <- MCReaders
    Inserts <- MCInserts
    Deletes = {0, 2}
    Ranks <- MCRanks
    Default = 2
    Thresholds <- MCThresholds
    MaxInt = 6
    MaxCalls = 3
INVARIANTS
    TreeExact
    PiecesBounded
CHECK_DEADLOCK FALSE
