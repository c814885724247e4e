\* Keep alive or none, two handshakers, errors that end the program, closes at
\* any time, under fairness.
CONSTANTS
    KeepAlives <- WithAndWithout
    MaxHandshakes = 2
    MaxPackets = 3
    MaxReady = 4
    MayFail = TRUE
SPECIFICATION FairSpec
INVARIANTS
    TypeOK
    RegionsInStep
    OneReader
PROPERTIES
    HandshakeEnds
    GoneMeansQuiet
CHECK_DEADLOCK FALSE
