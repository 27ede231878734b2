CONSTANTS
  c1 = c1
  c2 = c2
  c3 = c3
  Consumers = {c1, c2, c3}
  MaxItems = 2
  MaxBatch = 2
SPECIFICATION Spec
INVARIANTS TypeOK NoStrandedConsumer NobodySleepsWhenClosed NoDuplicates BackIsFifo
PROPERTIES ClosedIsFinal CloseReleasesEveryone TimedWaitEnds ItemsReachSleepers
