SPECIFICATION MCSpec
CONSTANTS
    a = a
    b = b
    NoFact = NoFact
    Client <- MCClient
    MaxClients = 2
    MaxTimeouts = 2
    Life = 2
    MaxMessage = 1
    SentMax = 1
    Lag = 1
    Departures <- MCStay
    Requests = 2
    Worlds <- MCWorlds
    Horizon = 1
    MaxDelay = 1
INVARIANTS
    KeepsServing
    LoadInv
PROPERTIES
    EveryClientAnswered
    AllIsReported
