SPECIFICATION PagingSpec
CONSTANTS
  Record = {1, 2, 3}
  OwnerOf <- MCOwnerOf
  Filter = {"all", "tv"}
  Matches <- MCMatches
  Provider = {"file", "api"}
  PageSize = 1
  DeltaLimit = 2
  MaxReloads = 2
  MaxRequests = 2
  MaxFailures = 1
  MaxDeletes = 1
INVARIANTS
  RowsMatchFilter
  NoGap
CHECK_DEADLOCK FALSE
