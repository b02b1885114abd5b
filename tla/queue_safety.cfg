SPECIFICATION Spec
CONSTANTS
  Pushers = {p1, p2}
  Msg = {m1, m2}
  MaxPartitions = 2
  MaxBufSize = 2
  MaxResizes = 2
  MaxFaults = 1
  MayClose = TRUE
SYMMETRY Symmetry
INVARIANTS
  TypeOK
  PartitionFifo
  AckedAccounted
  NoDuplicateWithoutFault
  BufOverrunBounded
  CloseDrains
  OneReaderPerPartition
CHECK_DEADLOCK FALSE
