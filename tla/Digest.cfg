CONSTANTS
    Block = 4
    Unit = 2
    WordSize = 8
    MaxTotal = 14
    MaxLength = 6
SPECIFICATION DigestSpec
INVARIANTS DigestOfInput 
