CONSTANTS
    Edit = {e1, e2, e3}
    Stored = Stored
    Proposed = Proposed
    Imported = Imported
    Foreign = Foreign
    None = None
    Situations <- OneAndTwo
    MaxOperations = 2
    MaxAttempts = 2
    Room = 3
SPECIFICATION FairSpec
INVARIANTS
    CleanMeansSaved
PROPERTIES
    OperationsEnd
    OperationsFindEverythingSaved
    UnseenChangesSurvive
CHECK_DEADLOCK FALSE
