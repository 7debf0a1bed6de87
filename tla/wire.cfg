\* Whole, cut and foreign messages, polled two at a time.
CONSTANTS
  blank = blank
  key = key
  tail = tail
  torn = torn
  bytes = bytes
  Word <- Words
  Blank = blank
  Bytes = {bytes}
  WireEvent <- Events
  Garbage <- NoEvents
  Remains <- Rests
  FragmentLimit = 3
  MaxBatch = 2
  MaxFragments = 3
SPECIFICATION FairSpec
INVARIANTS
  WireTypeOK
  ReceivesWhatWasSent
  AnnouncementsReadable
PROPERTIES
  ImplementsEventSource
  PlainEventsArrive
