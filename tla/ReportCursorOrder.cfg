CONSTANTS
    Links = {l1, l2}
    Reporters = {g1, g2}
    None = None
    MaxRetired = 3
    SendCap = 1
    MaxBoot = 3
    MaxSequence = 2
    MaxChanges = 1
    MaxRestarts = 1
    MaxFailures = 1
SPECIFICATION Spec
SYMMETRY Symmetry
CONSTRAINT Budget
INVARIANTS NewestIsHeard RowsAgree
PROPERTIES ReplacedStaysOut NeverBehindItsNumber
CHECK_DEADLOCK FALSE
