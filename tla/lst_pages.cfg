SPECIFICATION Spec
CONSTANTS
    Ids = {1, 2, 3}
    Readers = {r1, r2}
    Filter = {"open"}
    PageSize = 1
    TTL = 0
    Timeout = 1
    MaxTime = 3
    MaxWrites = 1
SYMMETRY Symmetry
INVARIANTS TypeOK WalkComplete PagesComplete ListFresh
CHECK_DEADLOCK FALSE
