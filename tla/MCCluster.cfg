SPECIFICATION Spec
CONSTANTS
  Procs = {p1, p2}
  MaxIds = 3
  MaxJobs = 2
  MaxFaults = 1
  MaxRestarts = 1
  FAILED_PINGS_BEFORE_REMOVAL = 2
INVARIANTS NoneForgotten RunningIsWaitedFor
PROPERTIES JobNotReplaced BulkJobEnds StaleIdsRemoved OrphansEnd
CHECK_DEADLOCK FALSE
