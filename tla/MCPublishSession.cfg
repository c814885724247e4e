\* Identifiers wrap around: 3 of them, 5 publishes of either quality of service,
\* refusals, a publish before the CONNACK, a disconnect, under fairness.
CONSTANTS
    U16Max = 3
    UnsetQuota = 3
    ReceiveMaxima <- ReceiveMaximaUpTo2
    QosLevels <- BothQos
    MaxPublishes = 5
    MaxEarly = 1
    MaxRequests = 0
    MaxSpurious = 1
    MaxQos0 = 1
    MaxWire = 2
    MayClose = TRUE
    MayRefuse = TRUE
SPECIFICATION FairSession
INVARIANTS
    ServerWindow
    SharedOnlyByQos2
    NotCutOff
PROPERTIES
    AckFinishesItsPublish
    FinishesUnlessStarved
CHECK_DEADLOCK FALSE
