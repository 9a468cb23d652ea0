SPECIFICATION PlaySpec
CONSTANTS
  Documents <- MCDocuments
  Text <- Written
  Supported <- MCSupported
  TimeOf <- MCTimeOf
  Ticks = {1, 4}
  MaxTime = 13
CHECK_DEADLOCK FALSE
INVARIANTS
  ReadsWhatIsWritten
  RefusesOnlyBadFiles
  GraphLoaded
  DataLoaded
  ImagesShared
PROPERTIES
  LoadEnds
  PlaysRight
