CONSTANTS
  TrustCenter = tc
  Devices = {d1, d2}
  Endpoints = {1}
  Outside = {d2}
  None = None
  MaxStarts = 2
  MaxFaults = 1
SPECIFICATION FairSpec
INVARIANT TickOfSession
PROPERTIES SecondIsHarmless SessionEnds ImplementsAgreement
CHECK_DEADLOCK FALSE
