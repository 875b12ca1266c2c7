SPECIFICATION Spec
CONSTANTS
  Header <- MCHeader
  DataByte <- MCDataByte
INVARIANTS
  FcsIsRemainder
  TrailerLeavesResidue
  Transparent
  ControlSurvives
CHECK_DEADLOCK FALSE
