SPECIFICATION Spec
CONSTANTS
    s1 = s1
    s2 = s2
    io1 = io1
    io2 = io2
    Senders <- MCSender
    Ios <- MCIos
    Room = 2
    Block = 2
    MaxPacket = 1
    MaxSends = 2
    MaxArrivals = 2
PROPERTIES
    DataIsRead
CHECK_DEADLOCK FALSE
