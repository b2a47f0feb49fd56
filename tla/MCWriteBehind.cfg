SPECIFICATION FairSpec
CONSTANTS
  MaxEvents = 3
  MaxFlushes = 2
  MaxFailures = 2
INVARIANTS OrderPreserved
PROPERTIES DurableKept BarrierCloses EventuallyDurable
CHECK_DEADLOCK FALSE
