SPECIFICATION Spec
CONSTANTS
  Items <- TwoItems
  RowSets <- SomeRows
  MaxPackets = 2
  WorkSize = 2
  frames_to_wait = 1
  Delay = 2
  None = None
  Garbage = Garbage
INVARIANTS FramesRight RetrieverInStep QueueBounded
PROPERTIES CallsReturn
CHECK_DEADLOCK FALSE
