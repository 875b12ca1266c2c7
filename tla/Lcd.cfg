SPECIFICATION Spec
CONSTANTS
  Request <- MCRequest
  NoRequest = NoRequest
  Unknown = Unknown
  Undriven <- MCUndriven
  ClearTime = 8
  MaxCalls = 3
  MaxFaults = 2
CHECK_DEADLOCK FALSE
INVARIANTS
  TypeOK
  InStepOnceInitialised
  CacheIsTrue
PROPERTY
  ImplementsTextDisplay
