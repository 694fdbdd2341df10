SPECIFICATION Spec
CONSTANTS
    a = a
    b = b
    Anonymous = Anonymous
    Unset = Unset
    NotHeld = NotHeld
    FD <- MCFD
    Domain <- MCInet
    Kind <- MCStream
    Address <- MCAddress
    Backlog = 1
    MaxHeap = 6
    Manner <- MCManner
INVARIANTS
    NameReachesItsSocket
