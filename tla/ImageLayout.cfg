SPECIFICATION Spec
CONSTANTS
  CmdBufs = {c1, c2}
  Images = {i1, i2, p1}
  Presentable = {p1}
  Attachments = {p1}
SYMMETRY Symmetry
INVARIANTS
  PendingAgree
  TransitionTracked
  LayoutTruth
  NoWrongAccess
PROPERTIES
  EnqueuedFrozen
  KeepsPromise
