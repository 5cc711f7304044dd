SPECIFICATION Spec
CONSTANTS
    Activators = {a1}
    Ctl = Ctl
    Holders = {h1}
    None = None
    MaxAttempts = 2
    MaxRetained = 3
    MaxSequence = 2
    MaxRevision = 2
    MaxTry = 1
INVARIANT RecoveryArmed
CHECK_DEADLOCK FALSE
