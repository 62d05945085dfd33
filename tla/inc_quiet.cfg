SPECIFICATION Spec
CONSTANTS
    Keys = {k1}
    Ids = {i1, i2}
    Handlers = {h1}
    None = None
    GroupWait = 1
    ActiveWindow = 1
    MaxSize = 1
    MaxAnomalies = 2
    DBFails = FALSE
    MaxStops = 0
    Timely = TRUE
PROPERTIES ResolvedOnlyWhenQuiet
