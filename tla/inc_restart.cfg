SPECIFICATION FairSpec
CONSTANTS
    Keys = {k1}
    Ids = {i1, i2}
    Handlers = {h1}
    None = None
    GroupWait = 1
    ActiveWindow = 1
    MaxSize = 1
    MaxAnomalies = 1
    DBFails = FALSE
    MaxStops = 1
    Timely = TRUE
PROPERTIES StoredOpenIsResolved
