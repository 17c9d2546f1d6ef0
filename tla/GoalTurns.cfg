SPECIFICATION Spec
CONSTANTS
    Turns = 4
    UnderWay = 2
    MaxGoals = 2
    AfterTurns = 2
    None = None
    MaxTools = 1
    MaxMishaps = 1
INVARIANTS ImplicitHasOwner
PROPERTIES SweepSparesThisProcess SupersededWasIdle
CHECK_DEADLOCK FALSE
