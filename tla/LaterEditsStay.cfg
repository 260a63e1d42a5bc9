CONSTANTS
    Edit = {e1, e2}
    Stored = Stored
    Proposed = Proposed
    Imported = Imported
    Foreign = Foreign
    None = None
    Situations <- QuietUndo
    MaxOperations = 1
    MaxAttempts = 2
    Room = 3
SPECIFICATION Spec
SYMMETRY Symmetric
PROPERTIES
    LaterEditsStay
CHECK_DEADLOCK FALSE
