SPECIFICATION FairTailSpec
CONSTANTS
  Inode = {1, 2}
  Readable = {1, 3, 4}
  Floor = {0, 2}
  ChunkBytes = 3
  HeadBytes = 3
  MaxPages = 2
  MaxLines = 4
  MaxReplacements = 2
  MaxFailures = 1
INVARIANTS
  NothingPassedOver
PROPERTIES
  AppendingIsNoRotation
  EventuallyStored
