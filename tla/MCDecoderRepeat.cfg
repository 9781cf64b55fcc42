SPECIFICATION Spec
CONSTANTS
    TagBytes = {0, 5, 12}
    NumBytes = {0, 1, 9}
    CharBytes = {7}
    Lengths = {3}
    Overlong = 99
    MaxDepth = 2
    MaxSize = 8
    MaxU32 = 9
    DoubleWidth = 2
    StrictTrailing = TRUE
    Leftovers <- MCLeftovers
INVARIANTS
    EveryReserveBounded
