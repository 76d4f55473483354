CONSTANTS
    v1 = v1
    v2 = v2
    a = a
    Instances = {i1, i2}
    Versions <- MCVersions
    Configs <- MCConfigs
    Definitions <- MCDefinitions
    Existing <- MCExisting
    Empty = none
    Groups = {g1, g2}
    None = None
    MaxSessions = 5
    MaxApplies = 2
    MaxFaults = 2
SPECIFICATION Spec
SYMMETRY Symmetry
CONSTRAINT Budget
INVARIANTS ConfiguredIsHeld BoundToVersion NoOrphan StoppedIsStopped
CHECK_DEADLOCK FALSE
