SPECIFICATION Spec
CONSTANTS
    Containers = {c1}
    NoPod = NoPod
    Scope = "in"
    Capacity = 2
    MaxRestarts = 2
INVARIANTS TypeOK FilterHidesNothing MissedOnlyAtStart
PROPERTIES NothingToldTwice ExitsToldByCount
CHECK_DEADLOCK FALSE
