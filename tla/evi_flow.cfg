SPECIFICATION FairSpec
CONSTANTS
    Anomalies = {a1, a2}
    Kinds = {logs, metrics}
    Metrics = metrics
    Workers = {w1, w2}
    Notifiers = {n1, n2}
    Capacity = 1
    None = None
INVARIANTS TypeOK BundleWhole OnePlace
PROPERTIES EveryBundleServed StopEndsAll DeliverySpec
CHECK_DEADLOCK FALSE
