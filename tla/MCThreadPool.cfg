SPECIFICATION ObservedSpec
CONSTANTS
    w1 = w1
    w2 = w2
    c1 = c1
    Owner = owner
    Workers <- MCWorkers
    Callers <- MCCallers
    MaxTasks = 3
    MaxRounds = 2
    CounterMod = 8
INVARIANTS
    WorkConserving
    CounterExact
PROPERTIES
    QuietMeansDone
    Implements
    StopReturns
CHECK_DEADLOCK FALSE
