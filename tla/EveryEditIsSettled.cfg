CONSTANTS
    Edit = {e1}
    Stored = Stored
    Proposed = Proposed
    Imported = Imported
    Foreign = Foreign
    None = None
    Situations <- QuietCommit
    MaxOperations = 1
    MaxAttempts = 2
    Room = 3
SPECIFICATION FairSpec
PROPERTIES
    EveryEditIsSettled
CHECK_DEADLOCK FALSE
