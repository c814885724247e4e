\* Keep alive times from none to more than the time of a handshake, two
\* handshakes, a peer that may take a second to answer and may die.
CONSTANTS
    HandshakeTime = 5
    KeepAlives = {0, 1, 2, 3, 4, 7}
    AnswerTime = 1
    MaxHandshakes = 2
    MaxBurst = 2
SPECIFICATION Spec
INVARIANTS
    SpeaksInTime
    SilenceBounded
    EndedForAReason
    PingsPaced
