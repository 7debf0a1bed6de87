\* LocalOffHeapStoreApplication's loop, over empty, good and bad snapshots.
CONSTANTS
  k1 = k1
  k2 = k2
  p1 = p1
  p2 = p2
  Key = {k1, k2}
  Payload = {p1, p2}
  MaxVersion = 2
  MaxRetries = 0
  None = None
  Snapshots <- SomeSnapshots
  QueueCapacity = 2
  MaxBatch = 2
  MaxEvents = 2
  Driver = "main"
  MaxSent = 1
  MaxRedelivered = 1
SPECIFICATION FairSpec
INVARIANTS
  TypeOK
  ReadyMeansSeeded
PROPERTIES
  VersionsNeverRegress
  ImplementsVersionedView
  EveryRecordHandled
\* An exception ends main's thread.
CHECK_DEADLOCK FALSE
