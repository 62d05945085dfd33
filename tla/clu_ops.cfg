SPECIFICATION FairSpec
CONSTANTS
    Clusters = {c1}
    Requests = {r1, r2}
    Main = main
    Watchers = {w1, w2}
    Listeners = {pods}
    None = None
    MaxRequests = 2
    MaxCrashes = 1
    DBFails = TRUE
INVARIANTS TypeOK NoOrphan
PROPERTIES SilentOnceStopped StartReturns PipelinesSpec
CHECK_DEADLOCK FALSE
