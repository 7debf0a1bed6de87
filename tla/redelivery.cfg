\* Two records a source, one of them delivered twice, and payloads in conflict.
CONSTANTS
  k1 = k1
  k2 = k2
  p1 = p1
  p2 = p2
  Key = {k1}
  Payload = {p1, p2}
  MaxVersion = 2
  MaxRetries = 0
  None = None
  Snapshots <- NoSnapshot
  QueueCapacity = 2
  MaxBatch = 2
  MaxEvents = 2
  Driver = "caller"
  MaxSent = 2
  MaxRedelivered = 1
SYMMETRY PayloadSymmetry
SPECIFICATION Spec
INVARIANTS
  CheckpointSkipsOnlyDrops
  NewestWins
