\* Every quality of service, a packet sent again, closes at any time,
\* under fairness.
CONSTANTS
    id1 = id1
    id2 = id2
    topic = topic
    filter = filter
    loop = loop
    UnsetQuota = 4
    Ids <- MCIds
    Topics = {topic}
    Filters = {filter}
    Matches <- MCMatches
    Receivers = {loop}
    FilterOf <- MCFilterOf
    Loops = {loop}
    MaxOutgoing = 1
    ReceiveMaxima = {1, 2}
    MaxHandshakers = 2
    QosLevels <- AllQos
    MaxArrivals = 4
    MaxMessages = 3
    MaxResends = 1
    MayClose = TRUE
SPECIFICATION FairSession
INVARIANTS
    Qos2Once
    AcknowledgedMeansDelivered
    NotAccused
    ReceiveQuotaAccounted
PROPERTY EveryMessageHeard
CHECK_DEADLOCK FALSE
