SPECIFICATION Spec
CONSTANTS
    Requests = {r1, r2, r3}
    Keys = {k1, k2}
    Counts = {1, 2}
    First = 1
    MaxTries = 3
    RaiseLimit = 3
    ExpiredRaces = FALSE
    None = None
INVARIANTS TypeOK RangesDisjoint OneRangePerKey
PROPERTY ImplementsAllocator
SYMMETRY Symmetry
CHECK_DEADLOCK FALSE
