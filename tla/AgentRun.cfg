CONSTANTS
    r1 = r1
    a = a
    b = b
    Run = {r1}
    Document = {a, b}
    FirstDocument = a
    None = None
    Main = Main
    MaxToken = 2
    MaxVisit = 3
    MaxRevision = 1
    MaxRestore = 1
    MaxDrafts = 2

SPECIFICATION FairSpec

INVARIANTS
    RowsFollowCalls
    RunsSettle

PROPERTIES
    ProposalsFitTarget
    ImplementsLedger
    EveryCallEnds

CHECK_DEADLOCK FALSE
