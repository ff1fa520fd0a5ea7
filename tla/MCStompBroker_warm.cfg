CONSTANTS
  c1 = c1 c2 = c2 c3 = c3 ann = ann bob = bob pw = pw d1 = d1 d2 = d2
  i1 = i1 i2 = i2 i3 = i3
  Conn = {c1, c2, c3}
  Login = {ann, bob}
  Pass = {pw}
  Channel = {d1}
  SubId = {i1, i2, i3}
  Receipt = {"r"}
  Script <- WarmScript
  MaxFrames <- WarmBound
  ThreadPerClient = TRUE
  Nil = Nil
SPECIFICATION WarmSpec
INVARIANTS SubscriptionRecorded QueueMatchesSubscriptions OrderAgreement
PROPERTY Publishes
CHECK_DEADLOCK FALSE
