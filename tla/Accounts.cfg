CONSTANTS
    Users = {u1, u2}
    Sids = {s1}
    Tids = {t1}
    Requests = {r1, r2}
    Clients = {k1, k2}
    None = None
    Gone = Gone
    Roles = {"admin", "viewer"}
    TTL = 1
    LegacyToken = FALSE
    Per = 1
    Window = 2
    MaxKeys = 1
    MaxTime = 2
    MaxEpoch = 1
    MaxRestarts = 1
SPECIFICATION Spec
SYMMETRY Symmetry
INVARIANTS AlwaysAnAdmin SessionsEnd LoginLimited
CHECK_DEADLOCK FALSE
