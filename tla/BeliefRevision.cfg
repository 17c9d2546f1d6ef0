SPECIFICATION Spec
CONSTANTS
    Chain = {a, b, c, d}
    NoChain = NoChain
    v1 = v1
    v2 = v2
    v3 = v3
    Value <- ThreeValues
    Supporting = {v1, v2}
    Kinds = {"store", "promote", "retract"}
    Faults = {"lookup", "read", "reason", "unheard", "chain"}
    MaxFaults = 2
    Overlapping = 3
SYMMETRY ChainSymmetry
CHECK_DEADLOCK FALSE
INVARIANTS AcyclicHistory AuditComplete EveryTripleIsClaimed SingleValued AcceptedIsAsserted InferredAgrees
