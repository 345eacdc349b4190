CONSTANTS
  Byte = 8
  Window = 2
  Lengths = {2, 3, 4, 8}
  MaxSends = 2
  Refusals = 1
  Patient = TRUE
  MaxReceived = 30
  BufferSize = 8
  MaxFaults = 2
  MaxResends = 2
  MaxAborts = 1
  Reorder = FALSE
SPECIFICATION FairFragSpec
INVARIANTS WholeMessages SuccessIsDelivered BusyIsOwed
PROPERTY AllReported
CHECK_DEADLOCK FALSE
