CONSTANTS
  RxPool = 2
  MaxCommands = 3
  MaxCallbacks = 4
  MaxFailures = 2
  MaxTimeouts = 1
SPECIFICATION FairSpec
INVARIANTS CallbacksKept
PROPERTIES OwnAnswer CommandReturns
CHECK_DEADLOCK FALSE
