\* Both modes, a closed publication, and failures asked for at any moment.
CONSTANTS
  Key = {k1}
  Payload = {p1}
  MaxVersion = 2
  MaxRetries = 1
  None = None
  MaxPublished = 2
  MaxOfferAttempts = 2
  FailureCounts = {0, 2}
  MaxRequests = 2
SPECIFICATION WiredFairSpec
INVARIANTS
  WiredTypeOK
  OfferBudget
  InjectedFailuresWereAsked
PROPERTIES
  ImplementsPublisher
\* The caller stops at MaxPublished.
CHECK_DEADLOCK FALSE
