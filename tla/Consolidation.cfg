SPECIFICATION ConsolidationSpec
CONSTANTS
    Cycles = 2
    Tools = 2
    Runs = 2
    Lag = 1
    FirstWindow = 4
    MinCycles = 1
    Threshold = 2
    MaxTime = 4
    MaxMishaps = 1
INVARIANTS CountedOnce
PROPERTIES EventuallyCounted
CHECK_DEADLOCK FALSE
