\* Every packet with up to two properties filled in, written by the program or
\* by a peer; publishers with up to three arguments, and connect options.
\* Widths are cut to 3, 4 and 5 bits.
CONSTANTS
    U8Max = 7
    U16Max = 15
    U32Max = 31
    Small = {0, 1, 2, 7, 8, 15, 16, 31}
    MaxChanges = 2
    MaxItems = 2
    Arguments <- MCArguments
    MaxArguments = 3
    Options <- MCOptions
SPECIFICATION ClientSpec
INVARIANTS
    ReadsBack
    PeerIsUnderstood
    OnlyPrescribedIsWritten
    OptionsTakeEffect
    ConnectAsAsked
CHECK_DEADLOCK FALSE
