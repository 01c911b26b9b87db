SPECIFICATION Spec
CONSTANTS
    Sessions = {s1, s2}
    MaxConns = 3
    MaxRounds = 2
INVARIANTS
    SessionOnce
    StopComplete
PROPERTIES
    StopReturns
CHECK_DEADLOCK FALSE
