SPECIFICATION FairSpec
CONSTANTS
    None = None
    p1 = p1
    s1 = s1
    s2 = s2
    ProbeIds = {p1}
    Probes = {p1}
    ProbeDefaults <- MCProbeDefaults
    Temperatures = {1, 2}
    MaximumChamberTemperature = 1
    Demands = {0, 100}
    SessionIds = {s1, s2}
    Commands <- MCCommands
    CorrelationIds = {1}
    InternalOtaCorrelationId = 9
    CommandCapacity = 3
    CommandResultCapacity = 1
    AlarmGenerations = 1
    Elapses = {0}
    MaxElapsed = 0
INVARIANTS
    OneVerdictPerCommand
    HeaterInterlock
    FailedResetIsAccountedFor
    ControllerServesOneSession
PROPERTIES
    StopTurnsHeaterOff
    ImplementsLifecycle
