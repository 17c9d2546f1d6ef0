SPECIFICATION Spec
CONSTANTS
    f1 = f1
    f2 = f2
    Facts = {f1, f2}
    Unbatched = {}
    Rules = {}
    Threshold = 1
    LateFailures = {"insert"}
    MaxEpoch = 5
    MaxFaults = 1
SYMMETRY FactSymmetry
VIEW MarkerView
INVARIANTS
    DeferredIsMarked
