SPECIFICATION MCSpec
CONSTANTS
    None = None
    Capacity = 2
    MaxOffered = 3
    Closers = {x1}
    Watchers = {w1}
    MaxSnapshots = 1
    NoOp = NoOp
    Bad = Bad
INVARIANTS     ActiveRecordIsHolders LogAccountsBalance PluginProtocolIsExact EndpointIsPlugins SnapshotIsExact
PROPERTIES OldEpochIsSilent CandidatesAreOwned
CHECK_DEADLOCK FALSE
