SPECIFICATION Spec
CONSTANTS
    w1 = w1
    w2 = w2
    c1 = c1
    Io = io
    Workers <- MCWorkers
    Closers <- MCClosers
    Stream <- MCStream
    Room = 3
INVARIANTS
    SingleOwner
    TokenExact
    HandlesWholeMessages
    ReleasedIsOver
PROPERTIES
    MessagesHandled
    CloseReleases
CHECK_DEADLOCK FALSE
