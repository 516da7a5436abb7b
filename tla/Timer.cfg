SPECIFICATION TimerSpec
CONSTANTS
    Schedules <- MCSchedules
    Starts <- MCStarts
    Span = 100
CHECK_DEADLOCK FALSE
INVARIANT
    DueOnItsDates
PROPERTY
    NoCycleSkipped
