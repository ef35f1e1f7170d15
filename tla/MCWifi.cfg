SPECIFICATION Spec
CONSTANTS
    None = None
    MaxPuts = 1
    MaxScans = 1
    MaxTroubles = 1
INVARIANTS
    RetriesArePending
    ConnectedIsReal
PROPERTIES
    ReachableAgain
CHECK_DEADLOCK FALSE
