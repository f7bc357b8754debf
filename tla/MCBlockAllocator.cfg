SPECIFICATION BlockSpec
CONSTANTS
  Buffers = {b1, b2, b3}
  Sizes = {1, 4, 5}
  Shapes <- MCShapes
  MaxRefs = 2
  PoolSize = 16
  Alignment = 4
  SizeT = 64
SYMMETRY BufferSymmetry
INVARIANTS
  BuffersDisjoint
  HeldCanBeFreed
  FatalOnlyWhenFull
  OwnedIsAllocated
  NothingLeaked
CHECK_DEADLOCK FALSE
