SPECIFICATION Spec
CONSTANTS
  INT_MAX = 32767
  Passed <- MCPassed
  StaleControl <- MCStaleControl
  StaleByte <- MCStaleByte
  ConnectTimeout = 1
  MaxWait = 1
  UserData <- ShortUserData
  PeerMessage <- ReadyMessage
  AnyCut = TRUE
  MaxPeer = 1
PROPERTY
  ActsOnWhatWasSent
