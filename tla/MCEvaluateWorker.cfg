SPECIFICATION Spec
CONSTANTS
  Jobs <- MCJobs
  WorkPackets = {1, 2, 3}
  MaxTasks = 2
INVARIANTS
  TaskDelivered
  KernelInputsRight
  TasksCoverJob
