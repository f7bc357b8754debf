SPECIFICATION Spec
CONSTANTS
  a = a
  b = b
  Names = {a, b}
  NoName = NoName
  Outputs <- MCOutputs
  CheckpointFrequency = 2
  MaxTables = 3
  MaxBulkJobs = 2
  MaxRestarts = 2
INVARIANTS
  DescriptorsReadable
  JobDescriptors
  StorageAgrees
  CommittedComplete
  FinishedDurable
PROPERTIES
  NeverReissued
