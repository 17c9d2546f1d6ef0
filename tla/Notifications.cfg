SPECIFICATION Spec
CONSTANTS
    Messages = 3
    Quiet = {1}
    MaxPerDay = 1
    Day = 0
    QueueMax = 1
    Drains = 2
    MaxTime = 1
    MaxMishaps = 1
INVARIANTS CapKept NothingLost ReportedOnce
CHECK_DEADLOCK FALSE
