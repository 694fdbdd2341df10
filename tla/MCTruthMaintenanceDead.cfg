SPECIFICATION Spec
CONSTANTS
    A = A  B = B
    a1 = a1  a2 = a2  b1 = b1  b2 = b2 
    None = None  Cut = Cut  Unlinked = Unlinked
    Join <- MCJoin
    Pattern = {A, B}
    Fact = {a1, a2, b1, b2}
    Right <- MCRight
    Sense <- MCSense
    Links <- MCLinks
    FirstJoins <- MCFirst
    Entry <- MCEntry
    Matches <- MCMatches
    Test <- MCTest
    LogicalEnds = {"T1", "T3"}
INVARIANT DeadMatchesSupportNothing
