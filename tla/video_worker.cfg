SPECIFICATION FairSpec
CONSTANTS
  Modes = {"online", "offline"}
  Window = 4
  Skip = 1
  Backlog = 2
  Duration = 3
  Remember = 2
  Listed = 2
  ChunkFrames = 2
  MaxFrames = 6
  MaxChunks = 3
  MayStop = {"online"}
INVARIANTS BuffersSound FramesInOrder
PROPERTIES  JobSettles
CHECK_DEADLOCK FALSE
