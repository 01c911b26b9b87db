SPECIFICATION Spec
CONSTANTS
    w1 = w1
    w2 = w2
    c1 = c1
    Io = io
    Workers <- MCWorkers
    Closers <- MCClosers
    Stream <- MCStream
    Room = 3
PROPERTIES
    ClosedIsReleased
CHECK_DEADLOCK FALSE
