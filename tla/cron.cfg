SPECIFICATION CronSpec
CONSTANTS
    Bounds <- MCBounds
    StarBit = 63
    Patterns <- MCPatterns
    Durations <- MCDurations
    Tick = 4
    LastYear = 8
    MonthLen <- MCMonthLen
    Months = 2
    Week = 3
    Hours = 4
    Minutes = 2
    Seconds = 2
    YearsAhead = 5
    Gap = 1
    GapAt = 72
    East = FALSE
    Schedules <- AllSchedules
    Starts <- EarlyInstants
    ZeroTime = zero
PROPERTIES
    NextTerminates
INVARIANTS
    NextIsLeast
    ParsedAsWritten
    DescriptorsAgree
    EveryMovesOn
