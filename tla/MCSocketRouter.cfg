SPECIFICATION Spec
CONSTANTS
    a = a
    b = b
    Anonymous = Anonymous
    Unset = Unset
    NotHeld = NotHeld
    FD <- MCFD
    Domain <- MCFamilies
    Kind <- MCBoth
    Address <- MCAddress
    Backlog = 1
    MaxHeap = 6
    Manner <- MCManner
INVARIANTS
    IInv
    HeldNamesCurrent
    HeapCoversList
    
    HandlesStayOpen
PROPERTIES
    ImplementsDirectory
SYMMETRY Symmetry
