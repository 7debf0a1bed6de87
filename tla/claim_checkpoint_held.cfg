\* The documents' claim on failed publications.
CONSTANTS
  k1 = k1
  k2 = k2
  p1 = p1
  p2 = p2
  Key = {k1}
  Payload = {p1}
  MaxVersion = 2
  MaxRetries = 0
  None = None
  Snapshots <- NoSnapshot
  QueueCapacity = 2
  MaxBatch = 1
  MaxEvents = 1
  Driver = "caller"
  MaxSent = 2
  MaxRedelivered = 0
SPECIFICATION Spec
INVARIANTS
  FailedPublishHoldsCheckpoint
