SPECIFICATION Spec
CONSTANTS
    None = None
    MaxPuts = 1
    MaxScans = 0
    MaxTroubles = 1
PROPERTIES
    NoStaleCredentials
CHECK_DEADLOCK FALSE
