\* Two packets on each of two connections, cut anywhere by reads and one
\* write.
CONSTANTS
    Base = 2
    MaxDigits = 5
    ReadAhead = 4
    Layouts <- SomeLayouts
    Packets <- SomePackets
    MaxPackets = 2
    MaxCuts = 1
    MaxConnections = 2
SPECIFICATION Spec
INVARIANTS
    NoByteLost
    NothingHeldBack
CHECK_DEADLOCK FALSE
