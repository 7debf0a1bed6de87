\* The documents' claim of one commit section.
CONSTANTS
  k1 = k1
  k2 = k2
  p1 = p1
  p2 = p2
  Key = {k1}
  Payload = {p1}
  MaxVersion = 2
  MaxRetries = 0
  None = None
  Snapshots <- NoSnapshot
  QueueCapacity = 2
  MaxBatch = 1
  MaxEvents = 1
  Driver = "main"
  MaxSent = 1
  MaxRedelivered = 0
SPECIFICATION Spec
INVARIANTS
  StoreAndCheckpointTogether
\* An exception ends main's thread.
CHECK_DEADLOCK FALSE
