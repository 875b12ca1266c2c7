SPECIFICATION Spec
CONSTANTS
  INT_MAX = 32767
  Passed <- NothingPassed
  StaleControl <- MCStaleControl
  Chunk <- ShortChunk
  MaxCalls = 1
INVARIANT AcceptedFramesAreWhole
CHECK_DEADLOCK FALSE
