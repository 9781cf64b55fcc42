SPECIFICATION FairSpec
CONSTANTS
    TagBytes = {0, 2, 3, 4, 5, 6, 7, 8, 9, 10, 11, 12, 13}
    NumBytes = {0, 1, 3, 4, 99}
    CharBytes = {7}
    Lengths = {0, 2, 5, 8}
    Overlong = 99
    MaxDepth = 2
    MaxSize = 8
    MaxU32 = 3
    DoubleWidth = 2
    StrictTrailing = TRUE
    Leftovers <- MCLeftovers
INVARIANTS
    TypeOK
    DepthIsNesting
    IdsResolve
    ReserveBounded
PROPERTIES
    Terminates
    KeepsHostCalls
