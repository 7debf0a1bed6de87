\* ingestOnce and processOnce race over a queue of one, and both go on.
CONSTANTS
  k1 = k1
  k2 = k2
  p1 = p1
  p2 = p2
  Key = {k1}
  Payload = {p1}
  MaxVersion = 2
  MaxRetries = 0
  None = None
  Snapshots <- NoSnapshot
  QueueCapacity = 1
  MaxBatch = 2
  MaxEvents = 1
  Driver = "threads"
  MaxSent = 2
  MaxRedelivered = 0
SPECIFICATION FairSpec
INVARIANTS
  EveryDeliveryAccounted
  CheckpointSkipsOnlyDrops
PROPERTIES
  EveryRecordHandled
