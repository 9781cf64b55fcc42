SPECIFICATION Spec
CONSTANTS
    a = a
    b = b
    c = c
    e = e
    Strings = {a, b, c}
    Empty = e
    Size <- MCSize
    IdSpace = 4
    MaxMentions = 4
    MaxSize = 4
INVARIANTS
    TypeOK
    ReceivedIsWritten
    OnlyLimitsRefuse
    Lockstep
PROPERTIES
    ImplementsChannel
