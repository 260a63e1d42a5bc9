CONSTANTS
    ws = ws
    tpl = tpl
    main = main
    b1 = b1
    b2 = b2
    nMain = nMain
    nFeature = nFeature
    nOther = nOther
    d1 = d1
    d2 = d2
    None = None
    Deleted = Deleted
    Context <- MCContext
    Workspace <- ws
    Branch <- MCBranch
    Main <- main
    Name <- MCName
    MainName <- nMain
    Content <- MCContent
    SourceOf <- MCSourceOf
    Replacements <- MCReplacements
    MaxCommit = 4
    MaxRevision = 6
SPECIFICATION Spec
INVARIANTS
    DocumentOpens
    HistoryIsSound
    NothingLeaks
PROPERTIES
    ChangesAdvance
    BranchesKeepHistory
    WorkSurvives
CHECK_DEADLOCK FALSE
