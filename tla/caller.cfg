\* A caller that survives exceptions; retries; dead letters.
CONSTANTS
  k1 = k1
  k2 = k2
  p1 = p1
  p2 = p2
  Key = {k1, k2}
  Payload = {p1}
  MaxVersion = 2
  MaxRetries = 1
  None = None
  Snapshots <- NoSnapshot
  QueueCapacity = 2
  MaxBatch = 2
  MaxEvents = 2
  Driver = "caller"
  MaxSent = 1
  MaxRedelivered = 1
SPECIFICATION Spec
INVARIANTS
  ConsumersSeeCurrentRecord
  StreamsInOrder
