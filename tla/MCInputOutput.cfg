SPECIFICATION MCSpec
CONSTANTS
    dg = dg  fc = fc  ex = ex  lf = lf  bf = bf
    NoSource = NoSource
    Command = {dg, fc}
    Construct = {dg}
    Expression = {ex}
    LoadFile = {lf}
    BatchFile = {bf}
    Size <- MCSize
    CommandOf <- MCCommandOf
    MaxReaders = 5
    MaxCalls = 5
    n = n  b1 = b1  b2 = b2
    Name = {n}
    File = {b1, b2}
    Console <- MCConsole
    Text <- MCText
    Char <- MCChar
    NewLine <- MCNewLine
    Output <- MCOutput
    Nothing = Nothing
    MaxOutput = 1
INVARIANTS
    ReadersInv
    RoutersInv
PROPERTIES
    EvalReadsAll
    CommandsEnd
    SocketComesFirst
    SessionInputIsRead
CHECK_DEADLOCK FALSE
