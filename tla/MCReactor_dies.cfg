CONSTANTS
  c1 = c1 c2 = c2
  Conn = {c1, c2}
  Closers = {c2}
  MaxReads <- Reads
  MaxOut = 1
  None = None
SPECIFICATION Spec
INVARIANT MainLoopSurvives
CHECK_DEADLOCK FALSE
