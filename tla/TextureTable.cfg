SPECIFICATION Spec
CONSTANTS
  Textures = {t1, t2, t3}
  Keys = {k1, k2}
  Contents = {c1, c2}
  Addresses = {a1, a2, a3}
  None = None
  Layers = 1
  MaxLayers = 3
  MaxImages = 3
  MaxSets = 1
CONSTRAINT Bounded
SYMMETRY Symmetry
INVARIANTS
  LayersCounted
  WritesCurrent
PROPERTY
  KeepsTexturePromise
