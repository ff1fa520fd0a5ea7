CONSTANTS
  c1 = c1 c2 = c2 c3 = c3
  Conn = {c1, c2, c3}
  Script <- Frames
  Leavers = {c3}
  Room = 1
  None = None
SPECIFICATION Spec
INVARIANTS TypeOK OutputReady PublishedToAll
PROPERTIES EveryFrameAnswered LeaverEnds Publishes
CHECK_DEADLOCK FALSE
