SPECIFICATION MCSpec
CONSTANTS
    Activators = {a1, a2}
    Ctl = Ctl
    Holders = {h1}
    None = None
    MaxAttempts = 2
    MaxRetained = 2
    MaxSequence = 2
    MaxRevision = 2
    MaxTry = 2
    Calls = {a1, a2}
SYMMETRY Symmetry
INVARIANTS GenerationsAreOwned PluginIsContained RemoteCallsAreToldTrue
PROPERTIES PublicationsAreCurrent
CHECK_DEADLOCK FALSE
