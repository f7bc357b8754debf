SPECIFICATION Spec
CONSTANTS
  NumTasks = 2
  NumLoaders = 2
  NumInstances = 1
  NumGroups = 2
  NumSavers = 2
  Rows = 5
  IoPacket = 2
  WorkPacket = 1
  Lookahead = 1
  Warmup = 0
  Batch = 2
  QueueDepth = 2
  Profiling = TRUE
  FailingKernels = {}
  FailingDecode = {}
  MayFail = FALSE
  JobsMayBeBlacklisted = TRUE
INVARIANTS
  ReportedTasksAreSaved
  AllRowsUsed
  NothingLeftBehind
