\* The same page: a delete confirmed after another record has come in.
SPECIFICATION FairSpec
CONSTANTS
    Records = {r1, r2}
    Fresh = Fresh
    New = New
    Nothing = Nothing
    MaxLoads = 5
    MaxEdits = 1
    Overlaps = {}
    OpensInEdit = FALSE
INVARIANTS DeletesTheConfirmed
CHECK_DEADLOCK FALSE
