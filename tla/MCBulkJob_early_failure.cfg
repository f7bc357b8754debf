SPECIFICATION FairSpec
CONSTANTS
  w1 = w1
  w2 = w2
  w3 = w3
  w4 = w4
  Workers = {w1, w2}
  NumJobs = 2
  JobSize <- TwoJobs
  TOTAL_FAILURES_BEFORE_REMOVAL = 3
  CheckpointFrequency = 2
  QueueDepth = 2
  Late = {}
  Faulty = {w1}
  PingsMayFail = FALSE
  Slow = {}
  MayShutdown = FALSE
  MaxLost = 0
PROPERTIES
  BulkJobEnds
CHECK_DEADLOCK FALSE
