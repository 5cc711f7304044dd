SPECIFICATION Spec
CONSTANTS
    Suspenders = {s1}
    Resumers = {p1}
    Interactions = {i1}
    None = None
    MaxTurns = 2
    MaxCalls = 1
INVARIANT EveryStartEnds
CHECK_DEADLOCK FALSE
