CONSTANTS
  a1 = a1 a2 = a2 w1 = w1 w2 = w2
  Act = {a1, a2}
  Worker = {w1, w2}
  MaxTasks = 3
  Selector = Selector
  None = None
SPECIFICATION Spec
INVARIANTS TypeOK OneAtATime NoStrandedTask
PROPERTIES EveryTaskRuns RunsSerially
CHECK_DEADLOCK FALSE
