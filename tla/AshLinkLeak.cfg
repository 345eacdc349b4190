CONSTANTS
  Data = {1, 2, 3, 4, 5}
  Modulus = 3
  TxK = 2
  TxPool = 3
  RxPool = 1
  NrLow = 0
  NrHigh = 0
  MaxTimeouts = 2
  ResetMethod = "RST"
  RtsCts = TRUE
  HostMsgs = 2
  NcpMsgs = 1
  ResetHostMsgs = 2
  ResetNcpMsgs = 1
  MaxStarts = 1
  MaxEpochs = 1
  MaxFaults = 0
  Capacity = 2
  NcpTxK = 1
SPECIFICATION LinkSpec
INVARIANT NoBufferLeak
CHECK_DEADLOCK FALSE
