\* Start, loop and shutdown in both modes, with and without a driver.
CONSTANTS
  MaxBatch = 2
  MaxEvents = 4
SPECIFICATION FairSpec
INVARIANTS
  AppTypeOK
  NothingOutlivesItsGround
  LeftOpenOnlyIf
  AtMostOneUnannounced
PROPERTIES
  ShutdownCompletes
\* The JVM halts.
CHECK_DEADLOCK FALSE
