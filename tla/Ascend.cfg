SPECIFICATION PhysSpec
CONSTANTS
  Nodes = {s, n1, n2}
  Scenes = {s}
  None = None
  Bodies = {b1, b2}
  Categories = {g1, g2}
  Client = {"ascend"}
SYMMETRY Symmetry
INVARIANT
  AssertionsHold
