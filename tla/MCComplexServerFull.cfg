SPECIFICATION Spec
CONSTANTS
    a = a
    b = b
    NoFact = NoFact
    Client <- MCClient
    MaxClients = 1
    MaxTimeouts = 2
    Life = 2
    MaxMessage = 2
    SentMax = 2
    Lag = 1
    Departures <- MCEither
INVARIANTS
    AnswersAreTrue
    IInv
SYMMETRY Symmetry
