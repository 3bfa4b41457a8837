\* One page with two records and a creation; the user waits for writes, copies and defaults.
SPECIFICATION FairSpec
CONSTANTS
    Records = {r1, r2}
    Fresh = Fresh
    New = New
    Nothing = Nothing
    MaxLoads = 5
    MaxEdits = 1
    Overlaps = {}
    OpensInEdit = FALSE
INVARIANTS TypeOK ShownIsCurrent
PROPERTIES EditsSurvive LoadingEnds
CHECK_DEADLOCK FALSE
