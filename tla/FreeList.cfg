SPECIFICATION TableSpec
CONSTANTS
    N = 4
    Top = 6
INVARIANTS
    FreeListed
    IterationExact
PROPERTIES
    IsPool
