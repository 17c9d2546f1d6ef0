SPECIFICATION Spec
CONSTANTS
    Turns = 2
    Streamed = {2}
    MaxSessions = 2
    MaxRounds = 1
    AutoFallback = {TRUE, FALSE}
    Nameless = {1}
    None = None
    MaxMishaps = 1
INVARIANTS GuardedRunsAreApproved  ReplyIsLast
PROPERTIES EveryTurnEnds
CHECK_DEADLOCK FALSE
