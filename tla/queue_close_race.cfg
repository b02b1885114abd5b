SPECIFICATION FairSpec
CONSTANTS
  Pushers = {p1}
  Msg = {m1}
  MaxPartitions = 2
  MaxBufSize = 1
  MaxResizes = 1
  MaxFaults = 0
  MayClose = TRUE
PROPERTIES
  CloseTerminates
CHECK_DEADLOCK FALSE
