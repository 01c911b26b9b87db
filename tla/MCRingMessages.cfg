SPECIFICATION MessageSpec
CONSTANTS
    Byte = {0, 1}
    Size = 5
    Block = 3
    MaxLastread = 4
    MaxLen = 3
    LenBytes = 2
    LengthOf <- MCLengthOf
INVARIANTS
    ViewIsPrefix
    GrantIsFree
    MessageIsWhole
PROPERTIES
    ImplementsFifo
    MessageIsFound
CHECK_DEADLOCK FALSE
