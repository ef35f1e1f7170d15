SPECIFICATION Spec
CONSTANTS
    None = None
    p1 = p1
    p9 = p9
    s1 = s1
    s2 = s2
    ProbeIds = {p1, p9}
    Probes = {p1}
    ProbeDefaults <- MCProbeDefaults
    Temperatures = {1, 2}
    MaximumChamberTemperature = 2
    Demands = {0}
    SessionIds = {s1, s2}
    Commands <- MCCommands
    CorrelationIds = {}
    InternalOtaCorrelationId = 9
    CommandCapacity = 2
    CommandResultCapacity = 1
    AlarmGenerations = 1
    Elapses = {0, 2}
    MaxElapsed = 2
SYMMETRY SessionSymmetry
INVARIANTS
    AlarmsAreCurrent
    ProbeAlarmsAreRaised
    TimerCompletionTakesEffect
