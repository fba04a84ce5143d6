SPECIFICATION Spec
CONSTANTS
    a = a
    b = b
    Chars <- MCChars
    Bases <- MCBases
    Batches <- MCBatches
    Quota = 4
    MaxInsertBytes = 2
    MaxLength = 3
    MaxRevision = 5
INVARIANTS
    TypeOK
    UndoRedoRestore
CHECK_DEADLOCK FALSE
