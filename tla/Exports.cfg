CONSTANTS
    a = a
    b = b
    i1 = i1
    i2 = i2
    Document = {a, b}
    FirstDocument = a
    Install = {i1, i2}
    Release = {1, 2}
    Damaged = Damaged
    Other = Other
    None = None
    Page = {1, 2}
    MaxSessions = 1
    MaxExports = 2
    Budgets <- MCBudgets

SPECIFICATION FairSpec

INVARIANTS
    InstallCutsNothing
    DownloadsCanBeStopped

PROPERTIES
    FilesAreReviewed
    SavedIsRecorded
    EveryExportEnds

CHECK_DEADLOCK FALSE
