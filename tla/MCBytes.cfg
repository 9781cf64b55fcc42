SPECIFICATION BytesSpec
CONSTANTS
    GroupBits = 2
    MaxLen = 4
    Word = 256
    InitCap = 3
    HeaderLen = 2
    Memory = 100
    Requests = {1, 2, 5, 20, 60}
CHECK_DEADLOCK FALSE
INVARIANTS
    TypeOK
    IntegersSurvive
    ReadsMeaning
    NoOverrun
PROPERTIES
    GrowthEnds
