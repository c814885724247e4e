\* Any server, three PUBLISH packets, two of which the quota admits.
CONSTANTS
    id1 = id1
    id2 = id2
    t1 = t1
    t2 = t2
    exact = exact
    any = any
    once = once
    loop = loop
    all = all
    ReceiveMaxima = {2}
    MaxHandshakers = 1
    UnsetQuota = 4
    Ids <- MCIds
    Topics <- MCTopics
    Filters <- MCFilters
    Matches <- MCMatches
    Receivers <- MCReceivers
    FilterOf <- MCFilterOf
    Loops <- MCLoops
    QosLevels <- AllQos
    MaxArrivals = 3
    MaxOutgoing = 1
SYMMETRY Interchangeable
SPECIFICATION Spec
INVARIANTS
    TypeOK
    DeliveredOnce
    WaitersServed
CHECK_DEADLOCK FALSE
