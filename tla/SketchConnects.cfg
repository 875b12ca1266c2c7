SPECIFICATION AnsweringSpec
CONSTANTS
  INT_MAX = 32767
  Passed <- MCPassed
  StaleControl <- MCStaleControl
  StaleByte <- MCStaleByte
  ConnectTimeout = 2
  MaxWait = 1
  UserData <- MCUserData
  PeerMessage <- OneAnswer
  AnyCut = FALSE
  MaxPeer = 1
  BUFFER_SIZE = 16
  TxHandler = TRUE
  TimerStarted = TRUE
  SEND = "RECIVING"
  SendSize <- MCSendSize
  ReceiveSize <- MCReceiveSize
  RejectSize = 8
  MaxHeard = 3
CHECK_DEADLOCK FALSE
PROPERTY
  Connects
