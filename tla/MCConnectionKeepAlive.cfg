\* The server answers a request for a keep alive with none.
CONSTANTS
    KeepAlives <- WithAndWithout
    MaxHandshakes = 1
    MaxPackets = 1
    MaxReady = 3
    MayFail = FALSE
SPECIFICATION Spec
INVARIANT ActualKeepAlive
CHECK_DEADLOCK FALSE
