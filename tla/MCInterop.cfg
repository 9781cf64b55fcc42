SPECIFICATION Spec
CONSTANTS
    RustDocuments <- MCRustDocuments
    PhpDocuments <- MCPhpDocuments
    Levels = 5
    EncMaxDepth = 2
    PosZero <- MCPosZero
    NegZero <- MCNegZero
    NaN <- MCNaN
    TagBytes = {0, 2, 3, 4, 5, 6, 7, 8, 9, 10, 11, 12, 13}
    NumBytes = {0, 1, 2, 10, 99}
    CharBytes = {7}
    Lengths = {5, 8}
    Overlong = 99
    MaxDepth = 2
    MaxSize = 20
    MaxU32 = 9
    DoubleWidth = 2
    SymtableKey <- MCSymtableKey
INVARIANTS
    ValueArrives
    StringsAreLimited
    OnlyLimitsRefuse
    TablesAgree
    Agreement
