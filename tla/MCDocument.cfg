SPECIFICATION Spec
CONSTANTS
    Payloads <- MCPayloads
    Foreign <- MCForeign
    Bytes <- MCBytes
    Hash <- MCHash
    DepthsAsked <- MCDepths
    SizesAsked <- MCSizes
    U32 = 8
    DefaultDepth = 3
    DefaultSize = 2
    MaxDamage = 1
INVARIANTS
    Delivered
    DamageIsNoticed
    ReadersAgree
    LimitsAreKept
