SPECIFICATION Spec
CONSTANTS
  INT_MAX = 32767
  Passed <- MCPassed
  StaleControl <- MCStaleControl
  Message <- MCMessage
  MaxFrames = 2
  MaxFill = 1
  MaxHurt = 1
  NoiseByte <- MCNoiseByte
  Lead <- MCLead
  ChunkSize <- MCChunkSize
INVARIANTS
  TypeOK
  FreshBetweenFrames
  UndamagedFramesArrive
PROPERTY ImplementsChannel
CHECK_DEADLOCK FALSE
