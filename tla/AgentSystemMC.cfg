SPECIFICATION MCSpec
CONSTANTS
    Suspenders = {s1, s2}
    Resumers = {p1}
    Interactions = {i1}
    None = None
    Ctl = Ctl
    MaxTurns = 2
    MaxCalls = 1
INVARIANT RunIsAccounted
PROPERTIES QuietWhenSettled RequestsEnd HostProgress PluginsProgress
CHECK_DEADLOCK FALSE
