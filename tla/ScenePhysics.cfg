SPECIFICATION PhysSpec
CONSTANTS
  Nodes = {s, s2, n1, n2, n3}
  Scenes = {s, s2}
  None = None
  Bodies = {b1, b2}
  Categories = {g1, g2}
  Client = {}
CONSTRAINT Apart
SYMMETRY Symmetry
INVARIANTS
  WorldsMatch
  GroupsMatch
  BodiesOwned
  AssertionsHold
  TreeRight
PROPERTY
  KeepsForest
