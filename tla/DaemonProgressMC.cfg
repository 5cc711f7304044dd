SPECIFICATION MCSpec
CONSTANTS
    Subscribers = {c1}
    Sizes = {1, 2}
    AfterSequence = 1
    MaxSequence = 5
    MaxEvents = 4
    MaxBytes = 6
    TerminalReserveEvents = 1
    TerminalReserveBytes = 2
    SubscriberMaxEvents = 2
    SubscriberMaxBytes = 3
    None = None
INVARIANT LogIsExact
PROPERTIES LogImplementsStream SubscriptionsEnd SessionsProgress HubProgress DropsAreTold
CHECK_DEADLOCK FALSE
