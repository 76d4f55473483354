CONSTANTS
    Minutes = 2
    Hours = 2
    Days = 3
    Months = 2
    Weekdays = 4
    Offset = 1
    ScanLimit = 5
    Nothing = Nothing
    Schedules = {s1, s2}
    Crons <- MCCrons
    Grace = 1
    MaxTime = 4
    MaxEffects = 2
    MaxCrashes = 1
SPECIFICATION JobsFairSpec
INVARIANTS OnceUnlessWrittenBack OnSchedule
PROPERTIES NothingStaysDue
