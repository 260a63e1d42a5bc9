CONSTANTS
    work = work
    school = school
    summary = summary
    empty = empty
    full = full
    photo = photo
    e1 = e1
    e2 = e2
    e3 = e3
    e4 = e4
    e5 = e5
    None = None
    Keys <- MCKeys
    Summary = summary
    Text <- MCText
    Empty = empty
    Name = full
    Avatar = {photo}
    EntryId = {e1, e2, e3, e4, e5}
    Beginnings <- MCBeginnings
    Templates = {}
    Proposed = {}
    Looks = 1
    Limit = 64
    MayClear = TRUE
    MaxSteps = 1
SPECIFICATION Spec
INVARIANTS
    SavesConverge
CHECK_DEADLOCK FALSE
