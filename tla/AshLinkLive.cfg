CONSTANTS
  Data = {1, 2, 3, 4, 5}
  Modulus = 3
  TxK = 2
  TxPool = 3
  RxPool = 4
  NrLow = 0
  NrHigh = 0
  MaxTimeouts = 6
  ResetMethod = "RST"
  RtsCts = TRUE
  HostMsgs = 2
  NcpMsgs = 1
  ResetHostMsgs = 2
  ResetNcpMsgs = 1
  MaxStarts = 1
  MaxEpochs = 1
  MaxFaults = 1
  Capacity = 2
  NcpTxK = 1
SPECIFICATION FairLinkSpec
PROPERTY AllDelivered
CHECK_DEADLOCK FALSE
