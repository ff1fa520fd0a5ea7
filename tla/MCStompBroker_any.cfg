CONSTANTS
  c1 = c1 c2 = c2 c3 = c3 ann = ann bob = bob pw = pw d1 = d1 d2 = d2
  i1 = i1 i2 = i2 i3 = i3
  Conn = {c1, c2}
  Login = {ann, bob}
  Pass = {pw}
  Channel = {d1}
  SubId = {i1}
  Receipt = {"r"}
  Script <- AnyScript
  MaxFrames <- AnyBound
  ThreadPerClient = FALSE
  Nil = Nil
SPECIFICATION Spec
INVARIANTS TypeOK LoginBacked RoutesNeverMissing IDchannelHasQueue MonitorHeldByBroadcast
CHECK_DEADLOCK FALSE
PROPERTY EveryFrameEnds
