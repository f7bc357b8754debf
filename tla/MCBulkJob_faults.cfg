SPECIFICATION Spec
CONSTANTS
  w1 = w1
  w2 = w2
  w3 = w3
  w4 = w4
  Workers = {w1, w2}
  NumJobs = 2
  JobSize <- TwoJobs
  TOTAL_FAILURES_BEFORE_REMOVAL = 2
  CheckpointFrequency = 2
  QueueDepth = 2
  Late = {}
  Faulty = {w1, w2}
  PingsMayFail = TRUE
  Slow = {w1, w2}
  MayShutdown = FALSE
  MaxLost = 1
SYMMETRY WorkerSymmetry
INVARIANTS
  NoTaskLost
  NoTaskTwice
  CountsExact
PROPERTIES
  RemovedForGood
  GivesUpWithoutWorkers
CHECK_DEADLOCK FALSE
