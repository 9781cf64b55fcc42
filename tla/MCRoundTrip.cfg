SPECIFICATION TripSpec
CONSTANTS
    Documents <- MCDocuments
    Levels = 4
    MaxDepth = 3
    MaxSize = 18
    MaxU32 = 40
    DoubleWidth = 2
    StrictTrailing = TRUE
    Leftovers <- MCLeftovers
    TagBytes = {}
    NumBytes = {}
    CharBytes = {}
    Lengths = {}
    Overlong <- MCOverlong
INVARIANTS
    ValueArrives
    OnlyLimitsRefuse
    TablesAgree
