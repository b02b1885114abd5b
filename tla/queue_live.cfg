SPECIFICATION FairSpec
CONSTANTS
  Pushers = {p1}
  Msg = {m1, m2}
  MaxPartitions = 2
  MaxBufSize = 1
  MaxResizes = 2
  MaxFaults = 0
  MayClose = TRUE
PROPERTIES
  CloseReturns
  Delivery
CHECK_DEADLOCK FALSE
