CONSTANTS
    Instances = {i1}
    Configs = {c1}
    Absent = Absent
    None = None
    Links = {l1, l2}
    Workers = {w1, w2}
    Quota = 1
    SendCap = 1
    MaxRevision = 2
    MaxBreaks = 0
    MaxFailures = 1
    MaxCrashes = 1
    MaxReconciles = 1
SPECIFICATION Spec
SYMMETRY Symmetry
INVARIANTS OnePayloadPerRevision
PROPERTIES RefinesContract
CHECK_DEADLOCK FALSE
CONSTRAINT Budget
