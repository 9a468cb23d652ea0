SPECIFICATION Spec
CONSTANTS
  Primitives = {p1, p2, p3}
  Semantics = {"positions", "indices"}
  Sizes = {1, 2, 3}
  BufferSize = 7
  NoEntry = NoEntry
SYMMETRY Symmetry
INVARIANTS
  FreeListRight
  MaskIsHeld
