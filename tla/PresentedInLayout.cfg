SPECIFICATION WsiSpec
CONSTANTS
  CmdBufs = {c1}
  Images = {1, 2, 3}
  Presentable = {1, 2, 3}
  Attachments = {1, 2, 3}
  MinImages = 2
INVARIANT
  PresentedInLayout
