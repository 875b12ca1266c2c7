SPECIFICATION Spec
CONSTANTS
  INT_MAX = 32767
  Passed <- MCPassed
  StaleControl <- MCStaleControl
  Chunk <- MCChunk
  MaxCalls = 4
INVARIANTS
  TypeOK
  FreshBetweenFrames
  KeptByteIsFlag
CHECK_DEADLOCK FALSE
