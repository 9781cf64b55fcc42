SPECIFICATION Spec
CONSTANTS
    TagBytes = {0, 2, 3, 4, 5, 6, 7, 8, 9, 10, 11, 12, 13}
    NumBytes = {0, 1, 2, 3, 99}
    CharBytes = {7}
    Lengths = {0, 3, 5, 7}
    Overlong = 99
    MaxDepth = 2
    MaxSize = 7
    MaxU32 = 2
    DoubleWidth = 2
    SymtableKey <- MCSymtableKey
INVARIANTS
    TypeOK
    DepthIsNesting
    EveryZvalIsHeld
    FailureIsAtomic
PROPERTIES
    Terminates
    KeepsHostCalls
