SPECIFICATION FfiSpec
CONSTANTS
    HookSets <- MCHookSets
    MaxArrays = 3
    MaxStrings = 2
    MaxElements = 2
    Scalars <- MCScalars
    Begins <- MCBegins
    Items <- MCItems
    MaxCalls = 4
    MaxDepth = 4
    MaxSize = 40
    MaxU32 = 9
    DoubleWidth = 2
CHECK_DEADLOCK FALSE
INVARIANTS
    TypeOK
    EveryHandleIsOwned
    MissingIsReplaced
    HandleIsOwned
    OutIsOwned
    DecodesIfBalanced
