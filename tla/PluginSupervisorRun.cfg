CONSTANTS
    Slots = {p1, p2}
    NoProcess = NoProcess
    MaxRestarts = 1
    MaxDoublings = 1
    MaxCalls = 2
SPECIFICATION SupervisorSpec
INVARIANTS OneLiveProcess HealthyIsReal
PROPERTIES DisabledStops EnabledRuns
