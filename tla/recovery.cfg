\* Two lives of the process over logs that stay.
CONSTANTS
  k1 = k1
  k2 = k2
  p1 = p1
  Key = {k1}
  Payload = {p1}
  MaxVersion = 2
  MaxRetries = 0
  None = None
  Snapshots <- SeededOrNot
  QueueCapacity = 2
  MaxBatch = 1
  MaxEvents = 1
  Driver = "caller"
  MaxSent = 2
  MaxRedelivered = 0
  MaxCrashes = 1
SPECIFICATION RecoverySpec
INVARIANTS
  EachLifeHasNewest
  ReplayCatchesUpWithConsumers
  EachLifeInOrder
  CheckpointCoversReplay
  ConsumersSeeCurrentRecord
PROPERTIES
  ImplementsRestartingView
