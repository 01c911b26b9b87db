CONSTANTS
    Clients = {1, 2}
    Workers = {"worker"}
    MaxArrivals = 2
SPECIFICATION Spec
INVARIANTS JoinMeansClosed PromiseKeptOnce
PROPERTY ProgramEnds
CHECK_DEADLOCK FALSE
