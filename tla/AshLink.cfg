CONSTANTS
  Data = {1, 2, 3, 4, 5}
  Modulus = 3
  TxK = 2
  TxPool = 3
  RxPool = 1
  NrLow = 0
  NrHigh = 0
  MaxTimeouts = 2
  ResetMethod = "RST"
  RtsCts = TRUE
  HostMsgs = 4
  NcpMsgs = 2
  ResetHostMsgs = 2
  ResetNcpMsgs = 1
  MaxStarts = 2
  MaxEpochs = 2
  MaxFaults = 1
  Capacity = 2
  NcpTxK = 1
SPECIFICATION LinkSpec
INVARIANTS QueueIntegrity WindowOrder SendingOwned AckTimerArmed NothingLost NoFalseAck
PROPERTY ImplementsReliableLink
CHECK_DEADLOCK FALSE
