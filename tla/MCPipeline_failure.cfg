SPECIFICATION FairSpec
CONSTANTS
  NumTasks = 2
  NumLoaders = 1
  NumInstances = 2
  NumGroups = 1
  NumSavers = 2
  Rows = 2
  IoPacket = 1
  WorkPacket = 1
  Lookahead = 0
  Warmup = 0
  Batch = 1
  QueueDepth = 1
  Profiling = FALSE
  FailingKernels = {1}
  FailingDecode = {1}
  MayFail = TRUE
  JobsMayBeBlacklisted = FALSE
INVARIANTS
  QueuesBalanced
  ReportedTasksAreSaved
PROPERTIES
  ProcessJobEnds
