\* Any server: every acknowledgement with every identifier, at any time.
CONSTANTS
    U16Max = 4
    UnsetQuota = 4
    ReceiveMaxima <- MCReceiveMaxima
    QosLevels <- MCQosLevels
    MaxPublishes = 3
    MaxEarly = 1
    MaxRequests = 1
    MaxSpurious = 1
    MaxQos0 = 1
    MaxWire = 1
SPECIFICATION Spec
INVARIANTS
    TypeOK
    QueueOnlyWithoutQuota
    PendingHeldOnce
    WindowRespected
    QuotaAccounted
PROPERTIES
    ImplementsContract
CHECK_DEADLOCK FALSE
