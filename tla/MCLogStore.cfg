SPECIFICATION StoreSpec
CONSTANTS
  Record <- MCRecord
  TsOf <- MCTsOf
  DomainOf <- MCDomainOf
  ClientOf <- MCClientOf
  Blocked <- MCBlocked
  Cutoff <- MCCutoff
  Client = {"tv", "phone"}
  Domain = {"shop", "news"}
  NS_PER_SECOND = 2
  MINUTE = 2
  MaxRows = 2
  Forgettable = {"phone"}
  MaxCount = 3
INVARIANTS
  TypeOK
  ClientCountersExact
  DomainCountersCover
  DomainSeenTruthful
  MinutesCover
PROPERTIES
  ImplementsQueryLog
