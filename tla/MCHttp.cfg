SPECIFICATION MCSpec
CONSTANTS
    None = None
    c1 = c1
    Stop = Stop
    t1 = t1
    t2 = t2
    Regular = {c1}
    Tags = {t1, t2}
    Capacity = 3
    Modulus = 6
    Initial = Initial
    p1 = p1
    p2 = p2
    NoNetwork = NoNetwork
    n1 = n1
    n2 = n2
    Passwords = {Initial, p1, p2}
    Networks = {NoNetwork, n1, n2}
    a = a
    b = b
    c = c
    Peers = {a, b, c}
    PeerCapacity = 2
    FailuresBeforeBlock = 2
    MaximumExponent = 1
    InitialBlock = 1
    MaximumBlock = 2
    ResetAfter = 3
    IdleTimeout = 2
INVARIANTS
    ConfigurationIsAccountedFor
    
PROPERTIES
    ImplementsQueue
