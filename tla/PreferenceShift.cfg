SPECIFICATION PreferenceSpec
CONSTANTS
    Value = {v1, v2}
    NoValue = NoValue
    Group = {g1}
    K = 2
    Q = 1
    MaxOffers = 6
    MaxWaiting = 1
    MaxRetractions = 1
    MaxFaults = 1
INVARIANTS OnePreference RetractedStaysAway
PROPERTIES SettledIsPromoted
CHECK_DEADLOCK FALSE
