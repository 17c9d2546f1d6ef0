SPECIFICATION FairSpec
CONSTANTS
    c1 = c1
    c2 = c2
    Callers = {c1, c2}
    MaxVersion = 3
    MaxNesting = 2
INVARIANTS
    FlushedIsDurable
    NothingForgotten
PROPERTIES
    StoreSpec
    WaitersSettle
