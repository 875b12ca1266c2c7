SPECIFICATION Spec
CONSTANTS
  INT_MAX = 32767
  Passed <- MCPassed
  StaleControl <- MCStaleControl
  StaleByte <- MCStaleByte
  ConnectTimeout = 2
  MaxWait = 1
  UserData <- ShortUserData
  PeerMessage <- MCPeerMessage
  AnyCut = FALSE
  MaxPeer = 2
INVARIANTS
  TypeOK
  
  ReadyNeedsConnect
  TimeoutMeansSilence
PROPERTIES
  ActsOnWhatWasSent
  
  ReportsPayload
