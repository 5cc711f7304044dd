SPECIFICATION MCSpec
CONSTANTS
    Clients = {c1}
    Callers = {p1, p2, q1}
    None = None
    MaxSessions = 1
    MaxWaiters = 2
    MaxStreams = 2
    MaxEpoch = 3
    Peers = {p1, p2}
    Attempts = {t1, t2}
    Members = {m1, m2}
SYMMETRY Symmetry
INVARIANTS GatesAreSound GateMatchesCallers InitializationsAreExact
PROPERTIES ReconnectsFence
CHECK_DEADLOCK FALSE
