CONSTANTS
    Commands = {c1}
    AppCommands = {c1}
    Links = {l1, l2}
    None = None
    CommandCap = 1
    SendCap = 1
    BufferCap = 1
    Prompt = TRUE
    MaxBreaks = 1
    MaxFailures = 1
    MaxCrashes = 1
SPECIFICATION FairSpec
INVARIANTS AckDecides CompletedOnce OutcomeNotLost
PROPERTIES Settles Completes ExecutedOnce
CHECK_DEADLOCK FALSE
