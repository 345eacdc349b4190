CONSTANTS
  TrustCenter = tc
  Esis = {tc, e}
  None = None
  EsiTableSize = 2
  ErrorLimit = 3
  FailureLimit = 2
  Bindings = 2
  Rediscovery = TRUE
  MaxJoins = 2
  MaxFaults = 1
SPECIFICATION FairSpec
INVARIANTS NeverStuck BeyondKeAuthorized
PROPERTIES RegistrationEnds TrustCenterSearched
CHECK_DEADLOCK FALSE
