SPECIFICATION Spec
CONSTANTS
    Processes = {p1, p2}
    Slots = {s1, s2}
    Runs = {r1}
    Payloads = {x, y}
    None = None
    MaxGen = 3
SYMMETRY Symmetry
PROPERTY RetriesAreFenced
CHECK_DEADLOCK FALSE
