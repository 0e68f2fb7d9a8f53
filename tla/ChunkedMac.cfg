CONSTANTS
  Block = 3
  ChunkUnit = 6
  Growth = 2
  MaxLength = 34
SPECIFICATION Spec
INVARIANTS BoundaryAhead SplitIndependent
CHECK_DEADLOCK FALSE
