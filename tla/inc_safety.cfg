SPECIFICATION Spec
CONSTANTS
    Keys = {k1, k2}
    Ids = {i1, i2, i3}
    Handlers = {h1, h2}
    None = None
    GroupWait = 1
    ActiveWindow = 1
    MaxSize = 1
    MaxAnomalies = 3
    DBFails = TRUE
    MaxStops = 0
    Timely = TRUE
SYMMETRY Symmetry
INVARIANTS TypeOK NothingCountedTwice
PROPERTIES LifecycleSpec ActiveBeforeResolved OpenLeavesIndexOnlyByKey
