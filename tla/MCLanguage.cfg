SPECIFICATION MCSpec
CONSTANTS
    Atom <- MCAtom
    MaxLeaves = 3
    Symbol <- MCSymbol
    MaxLength = 4
    Key <- MCKey
    MaxList = 9
    MaxClasses = 7
    MaxSupers = 2
    Class <- MCClass
    HasSuperclass <- MCHasSuperclass
    Generic <- MCGeneric
    Signature <- MCSignature
    Arguments <- MCArguments
    GivenIndex = {0, 2}
    MaxMethods <- MCMaxMethods
    MaxDepth = 3
    MaxTogether = 5
    HandlerClass <- MCHandlerClass
    MessageName <- MCMessageName
    Bucket <- MCBucket
    MaxHandlers <- MCMaxHandlers
    Receiver <- MCReceiver
    Precedence <- MCPrecedence
    MaxSends = 3
INVARIANTS
    AnswersInv
    SortInv
    PrecedenceInv
    GenericsInv
    MessagingInv
PROPERTY
    MethodsStay
CHECK_DEADLOCK FALSE
