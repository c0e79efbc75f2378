SPECIFICATION Spec
CONSTANTS
  Clients = {a}
  RingCapacity = 2
  QueueCapacity = 1
  WireCapacity = 1
  MaxBatch = 2
  MaxRevision = 4
  MaxEpoch = 2
  MaxRequests = 1
INVARIANT ResetClosesStreams
CHECK_DEADLOCK FALSE
