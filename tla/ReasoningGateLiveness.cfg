SPECIFICATION FairSpec
CONSTANTS
    f1 = f1
    f2 = f2
    Facts = {f1}
    Unbatched = {}
    Rules <- OneRule
    Threshold = 1
    LateFailures = {}
    MaxEpoch = 4
    MaxFaults = 1
INVARIANTS
    NoDerivationWiped
    
PROPERTIES
    EventuallyCaughtUp
