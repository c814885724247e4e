\* Two identifiers that go round twice, answers in any order, a close.
CONSTANTS
    U16Max = 2
    MaxRequests = 4
    MaxPublishes = 1
    MayClose = TRUE
SPECIFICATION FairSpec
INVARIANT PendingHeldOnce
PROPERTIES
    AnswerReachesItsRequest
    EveryRequestAnswered
CHECK_DEADLOCK FALSE
