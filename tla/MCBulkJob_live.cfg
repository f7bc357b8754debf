SPECIFICATION FairSpec
CONSTANTS
  w1 = w1
  w2 = w2
  w3 = w3
  w4 = w4
  Workers = {w1, w2}
  NumJobs = 2
  JobSize <- TwoJobs
  TOTAL_FAILURES_BEFORE_REMOVAL = 3
  CheckpointFrequency = 2
  QueueDepth = 2
  Late = {w1}
  Faulty = {w1}
  PingsMayFail = FALSE
  Slow = {}
  MayShutdown = FALSE
  MaxLost = 0
PROPERTIES
  BulkJobSucceeds
  WorkersReleased
CHECK_DEADLOCK FALSE
