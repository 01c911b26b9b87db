SPECIFICATION Spec
CONSTANTS
    a = a
    b = b
    inner = inner
    outer = outer
    io = io
    w1 = w1
    w2 = w2
    None = none
    Objects <- MCObjects
    Channels <- MCChannels
    Home <- MCHome
    Io <- MCIo
    Workers <- MCWorkers
    MaxMessages = 2
CONSTRAINT Explored
INVARIANTS
    ServedByOne
    FrontExists
    NothingLost
PROPERTIES
    IsLine
    AllHandled
CHECK_DEADLOCK FALSE
