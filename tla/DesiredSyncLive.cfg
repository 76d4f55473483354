CONSTANTS
    Instances = {i1}
    Configs = {c1}
    Absent = Absent
    None = None
    Links = {l1, l2}
    Workers = {w1}
    Quota = 1
    SendCap = 4
    MaxRevision = 2
    MaxBreaks = 1
    MaxFailures = 0
    MaxCrashes = 0
    MaxReconciles = 0
SPECIFICATION FairSpec
PROPERTIES Convergence
CHECK_DEADLOCK FALSE
