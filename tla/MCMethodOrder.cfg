SPECIFICATION GenericsSpec
CONSTANTS
    Class <- MCClass
    HasSuperclass = {}
    Generic <- MCGeneric
    Signature <- MCSignature
    Arguments <- MCArguments
    GivenIndex = {0}
    MaxMethods <- MCMaxMethods
    MaxDepth = 1
    MaxTogether = 3
INVARIANT
    MoreParametersFirst
CHECK_DEADLOCK FALSE
