SPECIFICATION Spec
CONSTANTS
    Width <- MCWidth
    LineFeed = "n"
    UTFMax = 2
    CheckpointBytes = 2
    MaximumEdits = 4
    Operations <- MCOperations
    InitialDocument <- MCDocument
    MaxBatchOperations = 2
    Limit = 2
    StartRevision = 1
    MaxRevision = 5
    None = None
INVARIANTS
    TypeOK
    QueryExact
    AnchorsTrackText
    IndexAnswersExactly
CHECK_DEADLOCK FALSE
