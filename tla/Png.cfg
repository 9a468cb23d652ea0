SPECIFICATION Spec
CONSTANTS
  Files <- MCFiles
CHECK_DEADLOCK FALSE
INVARIANTS
  Inflated
  ImageRight
  RefusesOnlyBadFiles
