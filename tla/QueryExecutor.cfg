SPECIFICATION QueriesSpec
CONSTANTS
    Queries = 3
    Runaway = {2}
    LastVersion = 2
    MaxMishaps = 1
    None = None
INVARIANTS OutcomeIsOwn
PROPERTIES EveryQuerySettles
CHECK_DEADLOCK FALSE
