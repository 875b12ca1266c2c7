SPECIFICATION Spec
CONSTANTS
  BUFFER_SIZE = 3
  Radix = 4
  Width = 2
  StartTime <- MCStartTime
  Length <- MCLength
  MaxBytes = 4
INVARIANTS
  TypeOK
  
PROPERTIES
  ImplementsFifo
  ReturnsAfterGap
  ReceiveEnds
