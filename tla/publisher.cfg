\* Every notification, two retries, and calls until Aeron has carried three.
CONSTANTS
  Key = {k1, k2}
  Payload = {p1}
  MaxVersion = 2
  MaxRetries = 2
  None = None
  MaxPublished = 3
SPECIFICATION FairSpec
INVARIANTS
  PublisherTypeOK
  KafkaMirrorsAeron
PROPERTIES
  PublishEnds
  ImplementsDualDelivery
\* The caller stops at MaxPublished.
CHECK_DEADLOCK FALSE
