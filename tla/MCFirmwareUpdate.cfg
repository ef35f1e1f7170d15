SPECIFICATION MCFairSpec
CONSTANTS
    None = None
    h1 = h1
    HistoryUsers = {h1}
    MaxInstalls = 2
    PermissionTimeout = 1
    ValidationTimeout = 2
    RequiredValidationCycles = 1
INVARIANTS
    NoSessionDuringUpdate
    FlashHasOneUser
PROPERTIES
    FaultForbidsConfirmation
    UpdatesEnd
