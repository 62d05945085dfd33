SPECIFICATION Spec
CONSTANTS
    RoleIds = {i1, i2}
    Names = {"admin", "viewer"}
    p1 = p1
    AllPermissions = {p1}
    Unknown = other
    BuiltIns <- SeedOrder
    SeedPerms <- SeededPerms
    Users = {u1}
    Admin = u1
    DefaultPassword = w1
    Passwords = {w1, w2}
    Tokens = {t1, t2}
    Edits = {e1, e2}
    Checks = {f1}
    Works = {k1, k2}
    None = None
    MaxRequests = 4
    MaxFailures = 1
    MaxCrashes = 1
SYMMETRY Symmetry
INVARIANTS TypeOK StaleOnlyByOverlap SessionsCurrent
PROPERTIES BuiltInKept
CHECK_DEADLOCK FALSE
