SPECIFICATION Spec
CONSTANTS
    s1 = s1
    s2 = s2
    io1 = io1
    io2 = io2
    Senders <- MCSenders
    Ios <- MCIo
    Room = 3
    Block = 2
    MaxPacket = 2
    MaxSends = 2
    MaxArrivals = 2
INVARIANTS
    OneWriteLoop
    WireExact
    TokenIsHeld
PROPERTIES
    QueuedIsSent
    DataIsRead
CHECK_DEADLOCK FALSE
