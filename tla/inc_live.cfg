SPECIFICATION FairSpec
CONSTANTS
    Keys = {k1}
    Ids = {i1, i2}
    Handlers = {h1, h2}
    None = None
    GroupWait = 1
    ActiveWindow = 1
    MaxSize = 1
    MaxAnomalies = 2
    DBFails = TRUE
    MaxStops = 1
    Timely = FALSE
PROPERTIES IndexDrains TimedLeavesDetecting
