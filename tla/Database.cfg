SPECIFICATION DatabaseSpec
CONSTANTS
  Thread = {1, 2, 3, 4}
  Reader = {1, 2, 3, 4, 5}
  PoolSize = 2
  MaxNest = 2
  Script <- MCScript
INVARIANTS
  ReadersAccounted
  DeadlineIsOfTheRead
  NothingLeaks
  ServesWholeSchema
