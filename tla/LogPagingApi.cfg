SPECIFICATION PagingSpec
CONSTANTS
  Record = {1, 2, 3, 4}
  OwnerOf <- MCOwnerOf
  Filter = {"all", "tv"}
  Matches <- MCMatches
  Provider = {"api"}
  PageSize = 1
  DeltaLimit = 2
  MaxReloads = 1
  MaxRequests = 2
  MaxFailures = 0
  MaxDeletes = 0
INVARIANTS
  EndIsTheEnd
CHECK_DEADLOCK FALSE
