SPECIFICATION FairIngestSpec
CONSTANTS
  Record = {1, 2, 3, 4, 5}
  TsOf <- FiveTimes
  ClientOf <- FiveClients
  Readable <- FiveReadable
  Cutoff = {0, 2}
  Client = {"tv", "phone"}
  PageSize = 1
  MaxPages = 3
  MaxFailures = 1
INVARIANTS
  TypeOK
  NothingSkipped
  ForwardCostIsDelta
PROPERTIES
  EventuallyImported
