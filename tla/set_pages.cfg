SPECIFICATION FairSpec
CONSTANTS
    Requests = {r1, r2}
    Loaders = {l1}
    Channels = {"webhook", "lark"}
    sink1 = sink1
    Sinks = {sink1}
    Blank = Blank
    url1 = url1
    Urls = {url1}
    Ranges = {"10m"}
    Lengths = {0, 8}
    s1 = s1
    Secrets = {s1}
    Mask = Mask
    Empty = Empty
    Absent = Absent
    None = None
    File <- ConfigFile
    Tables <- EarlierTables
    MaxRequests = 2
    MaxFailures = 1
INVARIANTS TypeOK NotifiedAsShown LoadedWasStored
PROPERTIES SecretKept SaveEnds
CHECK_DEADLOCK FALSE
