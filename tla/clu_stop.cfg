SPECIFICATION FairSpec
CONSTANTS
    Clusters = {c1}
    Requests = {r1}
    Main = main
    Watchers = {w1}
    Listeners = {pods, events}
    None = None
    MaxRequests = 1
    MaxCrashes = 0
    DBFails = FALSE
PROPERTIES StopReturns
CHECK_DEADLOCK FALSE
