SPECIFICATION Spec
CONSTANTS
    Byte = {0, 1}
    Block = 2
    MaxNodes = 4
    MaxLen = 4
    MaxLastread = 3
    LenBytes = 2
    LengthOf <- MCLengthOf
INVARIANTS
    PieceIsNext
    MessageIsWhole
PROPERTIES
    ImplementsFifo
    MessageIsFound
CHECK_DEADLOCK FALSE
