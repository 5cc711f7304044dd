SPECIFICATION MCSpec
CONSTANTS
    Callers = {c1, c2}
    Attempts = {a1}
    Clients = {k1}
    None = None
    MaxSessions = 1
    MaxWaiters = 1
    MaxUsers = 2
    MaxEpoch = 2
    MaxCalls = 2
    MaxFaults = 1
    NoOp = NoOp
PROPERTIES EveryInitializeReturns ManagedProgress StreamsEnd
CHECK_DEADLOCK FALSE
