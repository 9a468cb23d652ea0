SPECIFICATION Spec
CONSTANTS
  NumColors = 2
  HasDepth = TRUE
  TargetOps <- MCTargetOps
  None = None
  Config <- MCConfig
  Allocations <- MCAllocations
  Buffers <- MCBuffers
  Images <- MCImages
  Half = 4
  MaxTables = 2
CONSTRAINT Simple
INVARIANTS
  DrawsAsEncoded
  PassesAlive
  CopiesInRange
