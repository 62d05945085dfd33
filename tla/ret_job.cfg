SPECIFICATION FairSpec
CONSTANTS
    Incidents = {i1, i2}
    Evidences = {e1, e2}
    Readers = {r1}
    Recollectors = {q1}
    None = None
    Gone = Gone
    ArchiveAfter = 1
    DeleteAfter = 2
    MaxAge = 2
    MaxRequests = 2
    MaxFailures = 1
    MaxCrashes = 1
INVARIANTS TypeOK RecollectionShown
PROPERTIES OldEvidenceGoes
CHECK_DEADLOCK FALSE
