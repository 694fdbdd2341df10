SPECIFICATION Spec
CONSTANTS
    InMax = 2
    OutMax = 2
    BufSize = 2
    SendBuf = 2
    Habit = {"any"}
    Impatience <- MCNone
INVARIANTS
    FlushKeepsPromise
