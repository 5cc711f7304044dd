CONSTANTS
  Callers = {c1, c2}
  Closers = {s1, s2}
  Candidates = {k1, k2}
  MaxCalls = 5
  None = None
SPECIFICATION Spec
PROPERTIES TerminalIsFinal
CHECK_DEADLOCK FALSE
