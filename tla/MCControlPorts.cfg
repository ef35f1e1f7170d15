SPECIFICATION MCSpec
CONSTANTS
    None = None
    Readers = {r1, r2}
    Contents = {c1, c2}
    SlotCount = 3
    MailboxCapacity = 4
    MaxSessions = 4
    d1 = d1
    d2 = d2
    Devices = {d1, d2}
    ChannelCount = 3
    DeviceOf <- MCDeviceOf
    MaxReboots = 1
INVARIANTS
    SessionsAreInOrder
    SamplesAreOfTheirChannel
PROPERTIES
    ImplementsRegister
    PublishReturns
    EndsAreRecorded
    HealthyProbesAreSampled
