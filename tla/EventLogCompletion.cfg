SPECIFICATION Spec
CONSTANTS
    Subscribers = {c1}
    Sizes = {1, 2}
    AfterSequence = 0
    MaxSequence = 4
    MaxEvents = 3
    MaxBytes = 4
    TerminalReserveEvents = 1
    TerminalReserveBytes = 1
    SubscriberMaxEvents = 2
    SubscriberMaxBytes = 3
INVARIANT CleanCompletion
