SPECIFICATION Spec
CONSTANTS
    StopMessages <- SecondIsStop
    MaxMessages = 3
    MaxConnections = 2
    MaxProvisionings = 1
    InboundCapacity = 2
    ResultCapacity = 2
    MailboxCapacity = 2
INVARIANTS
    ReservationsAreKept
    FeedbackIsForItsConnection
PROPERTIES
    ExecutedInItsConnection
    LiveCommandIsNotDiscarded
    
