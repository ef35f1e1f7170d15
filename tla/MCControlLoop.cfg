SPECIFICATION FairLoopSpec
CONSTANTS
    None = None
    p1 = p1
    s1 = s1
    ProbeIds = {p1}
    Probes = {p1}
    ProbeDefaults <- MCProbeDefaults
    Temperatures = {1}
    MaximumChamberTemperature = 2
    Demands = {0, 100}
    SessionIds = {s1}
    Commands <- MCCommands
    CorrelationIds = {9}
    InternalOtaCorrelationId = 9
    CommandCapacity = 5
    CommandResultCapacity = 1
    AlarmGenerations = 1
    Elapses = {0}
    MaxElapsed = 0
    MailboxCapacity = 2
    ExternalBudget = 2
    MaxGeneration = 1
INVARIANTS
    NothingIsRefused
PROPERTIES
    StopFromMailboxTurnsHeaterOff
CONSTRAINTS
    ResetsSucceed
    NoFault
