SPECIFICATION Spec
CONSTANTS
    Turns = 3
    Session = {s, unknown}
    Unknown = unknown
    None = None
    Threshold = 2
    MaxMishaps = 1
INVARIANTS CarriesFromPredecessor
PROPERTIES ReadGraphsAreFinal FlushedIsRecorded JobsAreSerial EveryCycleSettles
CHECK_DEADLOCK FALSE
