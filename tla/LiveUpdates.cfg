SPECIFICATION FairLiveSpec
CONSTANTS
  Conn = {1, 2}
  List = {"devices"}
  QueueSize = 1
  MaxAttempts = 2
  MaxImports = 1
  MaxRequests = 2
  MaxFailures = 1
INVARIANTS
  OneChannel
  NewestArrives
PROPERTIES
  EventuallyCurrent
  SubscribersDrain
