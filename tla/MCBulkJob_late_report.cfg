SPECIFICATION Spec
CONSTANTS
  w1 = w1
  w2 = w2
  w3 = w3
  w4 = w4
  Workers = {w1}
  NumJobs = 2
  JobSize <- TwoJobs
  TOTAL_FAILURES_BEFORE_REMOVAL = 3
  CheckpointFrequency = 2
  QueueDepth = 2
  Late = {}
  Faulty = {}
  PingsMayFail = FALSE
  Slow = {w1}
  MayShutdown = FALSE
  MaxLost = 0
INVARIANTS
  FinishedWorkServed
CHECK_DEADLOCK FALSE
