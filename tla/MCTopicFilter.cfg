\* Every filter of up to 4 and every name of up to 5 characters.
CONSTANTS
    Letters <- OneLetter
    MaxFilter = 4
    MaxName = 5
SPECIFICATION Spec
INVARIANTS
    ValidIsKept
    MatchesWhatFits
CHECK_DEADLOCK FALSE
