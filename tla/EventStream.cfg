SPECIFICATION FairSpec
CONSTANTS
  Clients = {a}
  RingCapacity = 2
  QueueCapacity = 1
  WireCapacity = 1
  MaxBatch = 2
  MaxRevision = 4
  MaxEpoch = 2
  MaxRequests = 1
INVARIANTS TypeOK StreamIsTheLog
PROPERTIES RefinesFeed EventuallyCaughtUp
CHECK_DEADLOCK FALSE
