SPECIFICATION MCSpec
CONSTANTS
    Processes = {p1, p2}
    Slots = {s1, s2}
    Runs = {r1}
    Payloads = {x, y}
    None = None
    MaxGen = 3
    Calls = {p1, p2}
    Operations = {s1, s2}
    HubRuns = {p1, p2}
    Askers = {s1, s2}
    Watching = {x, y}
    Ids = {p1, p2}
    Plans = {s1, s2}
    Releasers = {x, y}
    Ghost = Ghost
SYMMETRY Symmetry
INVARIANTS RecordsAreKnown ExecutionIsAuthorized  HubIsExact 
PROPERTIES HistoryIsOne HoldingsAreAccounted
CHECK_DEADLOCK FALSE
