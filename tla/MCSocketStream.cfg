SPECIFICATION FairSpec
CONSTANTS
    InMax = 3
    OutMax = 2
    BufSize = 2
    SendBuf = 1
    Habit = {"any", "unbuffered"}
    Impatience <- MCEither
INVARIANTS
    IInv
    UnbufferedTellsTheTruth
PROPERTIES
    WedgedForGood
    EmptyReturns
    ImplementsConversation
