SPECIFICATION Spec
CONSTANTS
    HookSets <- MCNoKeyId
    MaxArrays = 3
    MaxStrings = 2
    MaxElements = 2
INVARIANTS
    EveryHandleIsOwned
