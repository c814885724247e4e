\* QoS 2 publishes, one more than the receive maximum.
CONSTANTS
    U16Max = 6
    UnsetQuota = 6
    ReceiveMaxima <- ReceiveMaximum1
    QosLevels <- OnlyQos2
    MaxPublishes = 2
    MaxEarly = 0
    MaxRequests = 0
    MaxSpurious = 1
    MaxQos0 = 1
    MaxWire = 3
    MayClose = FALSE
    MayRefuse = FALSE
SPECIFICATION FairSession
PROPERTIES
    EveryPublishFinishes
CHECK_DEADLOCK FALSE
