\* An event with a delimiter in its key, against what the documentation admits.
CONSTANTS
  blank = blank
  key = key
  tail = tail
  torn = torn
  bytes = bytes
  Word <- Words
  Blank = blank
  Bytes = {bytes}
  WireEvent <- KeyWithDelimiter
  Garbage <- NoEvents
  Remains <- Rests
  FragmentLimit = 3
  MaxBatch = 2
  MaxFragments = 3
SPECIFICATION Spec
INVARIANT EveryEventCrosses
